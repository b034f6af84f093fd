----------------------------- MODULE MqueueAbs ------------------------------
(***************************************************************************)
(* What a message queue of os/kernel/mqueue promises: a message that is    *)
(* sent is received once, messages of higher priority first and messages   *)
(* of one priority in the order in which they were sent.                   *)
(***************************************************************************)
EXTENDS Naturals, Sequences, FiniteSets

CONSTANTS
    Queue,      \* the message queues
    MsgPrio,    \* the priorities of messages
    Message     \* the messages, records with a priority prio

VARIABLE queued     \* the messages of each priority in a queue, oldest first

Init == queued = [q \in Queue |-> [p \in MsgPrio |-> <<>>]]

Send(q, m) == queued' = [queued EXCEPT ![q][m.prio] = Append(@, m)]

\* p is the highest priority of a message in q.
Receive(q, p) ==
    /\ queued[q][p] # <<>>
    /\ \A n \in MsgPrio : queued[q][n] # <<>> => n <= p
    /\ queued' = [queued EXCEPT ![q][p] = Tail(@)]

Next ==
    \E q \in Queue :
       \/ \E m \in Message : Send(q, m)
       \/ \E p \in MsgPrio : Receive(q, p)

Spec == Init /\ [][Next]_queued
=============================================================================
