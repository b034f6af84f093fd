------------------------------- MODULE Mqueue -------------------------------
(***************************************************************************)
(* Message queues (os/kernel/mqueue) on the primitives of Scheduling:      *)
(* tasks that send, receive and ask for notification, interrupt handlers   *)
(* that send, and timeouts and signals that end waits.                     *)
(*                                                                         *)
(* A call holds the scheduler lock from its beginning to its end, so that  *)
(* another task runs only where the caller blocks; an interrupt comes      *)
(* wherever the caller has interrupts enabled.  A step is therefore one    *)
(* critical section of the call, and pc says which one is next:            *)
(*                                                                         *)
(*   waitsend  blocked in mq_waitsend       waitrcv  in mq_waitreceive     *)
(*   alloc     mq_msgalloc                  free     mq_msgfree, and the   *)
(*   insert    mq_dosend: into the list              test of nwaitnotfull  *)
(*   notify    mq_dosend: ntmqdes is read   wakesnd  mq_doreceive: a       *)
(*   signal    it is cleared and signalled           sender is woken       *)
(*   wake      mq_dosend: a receiver is woken                              *)
(*                                                                         *)
(* nmsgs changes together with the list and is its length.  pterrno is     *)
(* reset when a call that failed returns: it is read inside the waits only.*)
(***************************************************************************)
EXTENDS Scheduling, Sequences, FiniteSets, SequencesExt

CONSTANTS
    Queue,          \* the message queues
    NoQueue,        \* the null queue pointer
    NoTask,         \* the null descriptor of a notification
    Base,           \* the priority of each task
    MsgPrio,        \* the priorities of messages
    MaxMsgs,        \* msgq->maxmsgs
    NFixed,         \* NUM_MSGS: preallocated messages (MQ_ALLOC_FIXED)
    NIrq,           \* NUM_INTERRUPT_MSGS: the reserve of handlers (MQ_ALLOC_IRQ)
    MaxLen          \* bound on the messages that handlers pile up in a queue

ASSUME MqConstants ==
    /\ IsFiniteSet(Task) /\ IsFiniteSet(Queue)
    /\ Blocked = {"WAIT_MQNOTEMPTY", "WAIT_MQNOTFULL", "WAIT_SIG"}
    /\ NoQueue \notin Queue
    /\ NoTask \notin Task
    /\ Base \in [Task -> Prio]
    /\ \A t \in Task : Base[t] = 0 <=> t = Idle
    /\ MsgPrio \subseteq Nat
    /\ MaxMsgs \in Nat \ {0}
    /\ {NFixed, NIrq, MaxLen} \subseteq Nat

VARIABLES
    msglist,        \* msgq->msglist
    nwaitnotempty,  \* msgq->nwaitnotempty
    nwaitnotfull,   \* msgq->nwaitnotfull
    ntpid,          \* the task registered by mq_notify, NoTask if ntmqdes is null
    msgwaitq,       \* tcb->msgwaitq
    pterrno,        \* tcb->pterrno as the waits read it
    waitdog,        \* the watchdog of a timed call runs
    msgfree,        \* the number of messages in g_msgfree
    msgfreeirq,     \* the number of messages in g_msgfreeirq
    pc,             \* where a task is in a call
    pq,             \* the queue of the call
    pmsg,           \* the message in its hands
    pnt,            \* the registration it has read
    panic,          \* an assertion has failed
    isrq            \* the queue whose receivers a handler is about to wake

mqVars == <<msglist, nwaitnotempty, nwaitnotfull, ntpid, msgwaitq, pterrno, waitdog,
            msgfree, msgfreeirq, pc, pq, pmsg, pnt, panic, isrq>>
poolVars == <<msgfree, msgfreeirq>>
waitVars == <<nwaitnotempty, nwaitnotfull, msgwaitq>>
vars == <<schedVars, mqVars>>

Message == [prio : MsgPrio, type : {"FIXED", "DYN", "IRQ"}, isr : BOOLEAN]
NoMsg == [prio |-> 0, type |-> "NONE", isr |-> FALSE]

\* Faulty: a message goes before those of its own priority.
InsertedBeforeEquals(list, m) ==
    LET k == Cardinality({i \in DOMAIN list : m.prio < list[i].prio})
    IN InsertAt(list, k + 1, m)

\* The number of messages of priority p or higher.
AtLeast(list, p) == Cardinality({i \in DOMAIN list : p <= list[i].prio})

\* mq_dosend: after the messages of the same or a higher priority.  The list is
\* sorted, so that the search stops behind the last of them.
Inserted(list, m) == InsertAt(list, AtLeast(list, m.prio) + 1, m)

Waiting(q, why) == {t \in Task : state[t] = why /\ msgwaitq[t] = q}

\* Faulty: the call does not look again whether the queue has a place.
FullOnceOnly(q) == pc[cur] # "waitsend" /\ Len(msglist[q]) >= MaxMsgs

Full(q) == Len(msglist[q]) >= MaxMsgs

-----------------------------------------------------------------------------
(***************************************************************************)
(* Steps of the calling task.                                              *)
(***************************************************************************)
Undisturbed == ~panic /\ isrq = NoQueue

Running == cur # Idle /\ pc[cur] = "run" /\ Undisturbed

\* The running task is at a point of a call.
At(where) == pc[cur] = where /\ Undisturbed

Goto(where, q, m, n) ==
    /\ pc' = [pc EXCEPT ![cur] = where]
    /\ pq' = [pq EXCEPT ![cur] = q]
    /\ pmsg' = [pmsg EXCEPT ![cur] = m]
    /\ pnt' = [pnt EXCEPT ![cur] = n]

\* The end of a call: the scheduler is unlocked, n times.
Finish(st, n) ==
    /\ lock' = [lock EXCEPT ![cur] = @ - n]
    /\ Switch(AfterUnlock(cur, st, prio, lock'))
    /\ Goto("run", NoQueue, NoMsg, NoTask)

\* up_block_task in mq_waitsend and mq_waitreceive.
BlockFor(q, why) ==
    /\ msgwaitq' = [msgwaitq EXCEPT ![cur] = q]
    /\ pterrno' = [pterrno EXCEPT ![cur] = "OK"]
    /\ Switch(AfterBlock([state EXCEPT ![cur] = why], prio))

WaitNotFull(q, m) ==
    /\ BlockFor(q, "WAIT_MQNOTFULL")
    /\ nwaitnotfull' = [nwaitnotfull EXCEPT ![q] = @ + 1]
    /\ Goto("waitsend", q, m, NoTask)
    /\ UNCHANGED <<prio, msglist, nwaitnotempty, ntpid, poolVars, panic, isrq>>

WaitNotEmpty(q) ==
    /\ BlockFor(q, "WAIT_MQNOTEMPTY")
    /\ nwaitnotempty' = [nwaitnotempty EXCEPT ![q] = @ + 1]
    /\ Goto("waitrcv", q, NoMsg, NoTask)
    /\ UNCHANGED <<prio, msglist, nwaitnotfull, ntpid, poolVars, panic, isrq>>

SetDog(on) == waitdog' = [waitdog EXCEPT ![cur] = on]

SchedLock == lock' = [lock EXCEPT ![cur] = @ + 1]

\* mq_send and mq_timedsend.  A call that does not block on a full queue has no
\* effect then.
MqSend(q, p) ==
    /\ Running
    /\ SchedLock
    /\ IF Full(q)
         THEN \E timed \in BOOLEAN : WaitNotFull(q, [NoMsg EXCEPT !.prio = p]) /\ SetDog(timed)
         ELSE /\ Goto("alloc", q, [NoMsg EXCEPT !.prio = p], NoTask)
              /\ UNCHANGED <<cur, state, prio, msglist, waitVars, ntpid, pterrno, waitdog, poolVars, panic, isrq>>

\* The sender runs again: it gives up, waits again or goes on.
SendResumes ==
    LET q == pq[cur]
    IN /\ At("waitsend")
       /\ IF pterrno[cur] # "OK"
            THEN /\ Finish(state, 1)
                 /\ SetDog(FALSE)
                 /\ pterrno' = [pterrno EXCEPT ![cur] = "OK"]
                 /\ UNCHANGED <<prio, msglist, waitVars, ntpid, poolVars, panic, isrq>>
            ELSE IF Full(q)
              THEN WaitNotFull(q, pmsg[cur]) /\ UNCHANGED <<lock, waitdog>>
              ELSE /\ Goto("alloc", q, pmsg[cur], NoTask)
                   /\ SetDog(FALSE)
                   /\ UNCHANGED <<schedVars, msglist, waitVars, ntpid, pterrno, poolVars, panic, isrq>>

\* mq_msgalloc by a task: from g_msgfree, or from the heap.
Alloc ==
    /\ At("alloc")
    /\ Goto("insert", pq[cur], [pmsg[cur] EXCEPT !.type = IF msgfree > 0 THEN "FIXED" ELSE "DYN"], NoTask)
    /\ msgfree' = IF msgfree > 0 THEN msgfree - 1 ELSE 0
    /\ UNCHANGED <<schedVars, msglist, waitVars, ntpid, pterrno, waitdog, msgfreeirq, panic, isrq>>

Insert ==
    /\ At("insert")
    /\ SchedLock
    /\ msglist' = [msglist EXCEPT ![pq[cur]] = Inserted(@, pmsg[cur])]
    /\ Goto("notify", pq[cur], NoMsg, NoTask)
    /\ UNCHANGED <<cur, state, prio, waitVars, ntpid, pterrno, waitdog, poolVars, panic, isrq>>

\* ntmqdes is tested and ntpid read with interrupts enabled ...
ReadNotify ==
    /\ At("notify")
    /\ Goto(IF ntpid[pq[cur]] = NoTask THEN "wake" ELSE "signal", pq[cur], NoMsg, ntpid[pq[cur]])
    /\ UNCHANGED <<schedVars, msglist, waitVars, ntpid, pterrno, waitdog, poolVars, panic, isrq>>

\* mq_waitirq and the wake-up of a sleeping task: what a signal, or a timeout,
\* does to the waits of w.
WaitCounts(n, w, why) ==
    [q \in Queue |-> IF state[w] = why /\ msgwaitq[w] = q THEN n[q] - 1 ELSE n[q]]

\* Faulty: a wait for room that ends without it stays counted.
WaitIrqKeepsCount(w, err) ==
    /\ nwaitnotempty' = WaitCounts(nwaitnotempty, w, "WAIT_MQNOTEMPTY")
    /\ UNCHANGED nwaitnotfull
    /\ msgwaitq' = [msgwaitq EXCEPT ![w] = NoQueue]
    /\ pterrno' = [pterrno EXCEPT ![w] = err]

WaitIrq(w, err) ==
    /\ nwaitnotempty' = WaitCounts(nwaitnotempty, w, "WAIT_MQNOTEMPTY")
    /\ nwaitnotfull' = WaitCounts(nwaitnotfull, w, "WAIT_MQNOTFULL")
    /\ msgwaitq' = [msgwaitq EXCEPT ![w] = NoQueue]
    /\ pterrno' = [pterrno EXCEPT ![w] = err]

InMqWait(w) == state[w] \in {"WAIT_MQNOTEMPTY", "WAIT_MQNOTFULL"}

\* ... and cleared, and the task signalled, afterwards.
SignalNotify ==
    LET w == pnt[cur]
    IN /\ At("signal")
       /\ ntpid' = [ntpid EXCEPT ![pq[cur]] = NoTask]
       /\ state' = IF state[w] \in Blocked THEN AddReady(cur, state, prio, lock, w) ELSE state
       /\ IF InMqWait(w) THEN WaitIrq(w, "EINTR") ELSE UNCHANGED <<waitVars, pterrno>>
       /\ Goto("wake", pq[cur], NoMsg, NoTask)
       /\ UNCHANGED <<cur, prio, lock, msglist, waitdog, poolVars, panic, isrq>>

\* The waiting task that is woken: the first in the list, which is ordered by
\* priority.
FirstWaiting(q, why) == Highest(Waiting(q, why), prio)

\* Faulty: the receiver is woken only if it is alone with the message.
WakesReceiverIfEmpty(q) == nwaitnotempty[q] > 0 /\ Len(msglist[q]) = 1

WakesReceiver(q) == nwaitnotempty[q] > 0

Woken(w) == msgwaitq' = [msgwaitq EXCEPT ![w] = NoQueue]

WakeReceiver ==
    LET q == pq[cur]
    IN /\ At("wake")
       /\ IF WakesReceiver(q)
            THEN \E w \in FirstWaiting(q, "WAIT_MQNOTEMPTY") :
                   /\ Woken(w)
                   /\ nwaitnotempty' = [nwaitnotempty EXCEPT ![q] = @ - 1]
                   /\ Finish(AddReady(cur, state, prio, lock, w), 2)
            ELSE Finish(state, 2) /\ UNCHANGED <<nwaitnotempty, msgwaitq>>
       /\ UNCHANGED <<prio, msglist, nwaitnotfull, ntpid, pterrno, waitdog, poolVars, panic, isrq>>

-----------------------------------------------------------------------------
TakeFirst(q) ==
    /\ msglist' = [msglist EXCEPT ![q] = Tail(@)]
    /\ Goto("free", q, Head(msglist[q]), NoTask)

\* mq_receive and mq_timedreceive.
MqReceive(q) ==
    /\ Running
    /\ SchedLock
    /\ IF msglist[q] = <<>>
         THEN \E timed \in BOOLEAN : WaitNotEmpty(q) /\ SetDog(timed)
         ELSE /\ TakeFirst(q)
              /\ UNCHANGED <<cur, state, prio, waitVars, ntpid, pterrno, waitdog, poolVars, panic, isrq>>

ReceiveResumes ==
    LET q == pq[cur]
    IN /\ At("waitrcv")
       /\ IF pterrno[cur] # "OK"
            THEN /\ Finish(state, 1)
                 /\ SetDog(FALSE)
                 /\ pterrno' = [pterrno EXCEPT ![cur] = "OK"]
                 /\ UNCHANGED <<prio, msglist, waitVars, ntpid, poolVars, panic, isrq>>
            ELSE IF msglist[q] = <<>>
              THEN WaitNotEmpty(q) /\ UNCHANGED <<lock, waitdog>>
              ELSE /\ TakeFirst(q)
                   /\ SetDog(FALSE)
                   /\ UNCHANGED <<schedVars, waitVars, ntpid, pterrno, poolVars, panic, isrq>>

\* Faulty: the messages of the handlers' reserve go to the common pool.
MsgFreeCommon(m) ==
    /\ msgfree' = IF m.type \in {"FIXED", "IRQ"} THEN msgfree + 1 ELSE msgfree
    /\ UNCHANGED msgfreeirq

\* mq_msgfree: back to where the message came from.
MsgFree(m) ==
    /\ msgfree' = IF m.type = "FIXED" THEN msgfree + 1 ELSE msgfree
    /\ msgfreeirq' = IF m.type = "IRQ" THEN msgfreeirq + 1 ELSE msgfreeirq

\* mq_doreceive up to the test of nwaitnotfull, with interrupts enabled.
Free ==
    LET q == pq[cur]
    IN /\ At("free")
       /\ MsgFree(pmsg[cur])
       /\ IF nwaitnotfull[q] > 0
            THEN Goto("wakesnd", q, NoMsg, NoTask) /\ UNCHANGED <<cur, state, lock>>
            ELSE Finish(state, 1)
       /\ UNCHANGED <<prio, msglist, waitVars, ntpid, pterrno, waitdog, panic, isrq>>

\* The rest: the assertion fails if no sender waits any more.
WakeSender ==
    LET q == pq[cur]
    IN /\ At("wakesnd")
       /\ \E w \in FirstWaiting(q, "WAIT_MQNOTFULL") :
            /\ Woken(w)
            /\ nwaitnotfull' = [nwaitnotfull EXCEPT ![q] = @ - 1]
            /\ Finish(AddReady(cur, state, prio, lock, w), 1)
       /\ UNCHANGED <<prio, msglist, nwaitnotempty, ntpid, pterrno, waitdog, poolVars, panic, isrq>>

WakeSenderAsserts ==
    /\ At("wakesnd")
    /\ Waiting(pq[cur], "WAIT_MQNOTFULL") = {}
    /\ panic' = TRUE
    /\ UNCHANGED <<schedVars, msglist, waitVars, ntpid, pterrno, waitdog, poolVars, pc, pq, pmsg, pnt, isrq>>

\* mq_notify: a registration is made, or withdrawn by the task that made it.
MqNotify(q) ==
    /\ Running
    /\ ntpid[q] \in {NoTask, cur}
    /\ ntpid' = [ntpid EXCEPT ![q] = IF @ = NoTask THEN cur ELSE NoTask]
    /\ UNCHANGED <<schedVars, msglist, waitVars, pterrno, waitdog, poolVars, pc, pq, pmsg, pnt, panic, isrq>>

Sleep ==
    /\ Running
    /\ Switch(AfterBlock([state EXCEPT ![cur] = "WAIT_SIG"], prio))
    /\ UNCHANGED <<prio, lock, mqVars>>

-----------------------------------------------------------------------------
(***************************************************************************)
(* Interrupt handlers.  A task that waits runs the rest of its critical    *)
(* section when it is scheduled again, before any interrupt.               *)
(***************************************************************************)
Interruptible == pc[cur] \notin {"waitsend", "waitrcv"} /\ Undisturbed

Ready(w) ==
    /\ state' = AddReady(cur, state, prio, lock, w)
    /\ cur' = HeadAfterAdd(cur, prio, lock, w)

\* What a signal does to w: it ends a wait for a queue, or a sleep.
Signal(w) ==
    /\ IF state[w] \in Blocked THEN Ready(w) ELSE UNCHANGED <<cur, state>>
    /\ IF InMqWait(w) THEN WaitIrq(w, "EINTR") ELSE UNCHANGED <<waitVars, pterrno>>

\* mq_send in a handler: the size of the queue does not matter, a free message
\* does.  The registered task is signalled, then a receiver is woken.
IsrMsg(p) == [prio |-> p, type |-> IF msgfree > 0 THEN "FIXED" ELSE "IRQ", isr |-> TRUE]

IsrSend(q, p) ==
    /\ Interruptible
    /\ msgfree + msgfreeirq > 0
    /\ Len(msglist[q]) < MaxLen
    /\ msgfree' = IF msgfree > 0 THEN msgfree - 1 ELSE 0
    /\ msgfreeirq' = IF msgfree > 0 THEN msgfreeirq ELSE msgfreeirq - 1
    /\ msglist' = [msglist EXCEPT ![q] = Inserted(@, IsrMsg(p))]
    /\ ntpid' = [ntpid EXCEPT ![q] = NoTask]
    /\ IF ntpid[q] # NoTask THEN Signal(ntpid[q]) ELSE UNCHANGED <<cur, state, waitVars, pterrno>>
    /\ isrq' = q
    /\ UNCHANGED <<prio, lock, waitdog, pc, pq, pmsg, pnt, panic>>

IsrWake ==
    /\ isrq # NoQueue
    /\ isrq' = NoQueue
    /\ IF WakesReceiver(isrq)
         THEN \E w \in FirstWaiting(isrq, "WAIT_MQNOTEMPTY") :
                /\ Woken(w)
                /\ nwaitnotempty' = [nwaitnotempty EXCEPT ![isrq] = @ - 1]
                /\ Ready(w)
         ELSE UNCHANGED <<cur, state, nwaitnotempty, msgwaitq>>
    /\ UNCHANGED <<prio, lock, msglist, nwaitnotfull, ntpid, pterrno, waitdog, poolVars, pc, pq, pmsg, pnt, panic>>

\* mq_sndtimeout and mq_rcvtimeout.
Timeout(w) ==
    /\ Interruptible
    /\ waitdog[w]
    /\ waitdog' = [waitdog EXCEPT ![w] = FALSE]
    /\ IF InMqWait(w)
         THEN Ready(w) /\ WaitIrq(w, "ETIMEDOUT")
         ELSE UNCHANGED <<cur, state, waitVars, pterrno>>
    /\ UNCHANGED <<prio, lock, msglist, ntpid, poolVars, pc, pq, pmsg, pnt, panic, isrq>>

\* A signal, from a handler or from another task.
IsrSignal(w) ==
    /\ Interruptible
    /\ state[w] \in Blocked
    /\ Signal(w)
    /\ UNCHANGED <<prio, lock, msglist, ntpid, waitdog, poolVars, pc, pq, pmsg, pnt, panic, isrq>>

\* The system stays where an assertion failed.
Halted == panic /\ UNCHANGED vars

-----------------------------------------------------------------------------
(***************************************************************************)
(* task_terminate by the running task: mq_recover takes the victim out of  *)
(* the counts, and later, after interrupts, out of its list.               *)
(***************************************************************************)
MqRecover(w) ==
    /\ Running
    /\ InMqWait(w)
    /\ SchedLock
    /\ nwaitnotempty' = WaitCounts(nwaitnotempty, w, "WAIT_MQNOTEMPTY")
    /\ nwaitnotfull' = WaitCounts(nwaitnotfull, w, "WAIT_MQNOTFULL")
    /\ waitdog' = [waitdog EXCEPT ![w] = FALSE]
    /\ Goto("delete", NoQueue, NoMsg, w)
    /\ UNCHANGED <<cur, state, prio, msglist, msgwaitq, ntpid, pterrno, poolVars, panic, isrq>>

TaskRemove ==
    /\ At("delete")
    /\ Finish([state EXCEPT ![pnt[cur]] = "INVALID"], 1)
    /\ UNCHANGED <<prio, msglist, waitVars, ntpid, pterrno, waitdog, poolVars, panic, isrq>>

-----------------------------------------------------------------------------
Init ==
    /\ cur = Idle
    /\ state = [t \in Task |-> IF t = Idle THEN "READY" ELSE "WAIT_SIG"]
    /\ prio = Base
    /\ lock = [t \in Task |-> 0]
    /\ msglist = [q \in Queue |-> <<>>]
    /\ nwaitnotempty = [q \in Queue |-> 0]
    /\ nwaitnotfull = [q \in Queue |-> 0]
    /\ ntpid = [q \in Queue |-> NoTask]
    /\ msgwaitq = [t \in Task |-> NoQueue]
    /\ pterrno = [t \in Task |-> "OK"]
    /\ waitdog = [t \in Task |-> FALSE]
    /\ msgfree = NFixed
    /\ msgfreeirq = NIrq
    /\ pc = [t \in Task |-> "run"]
    /\ pq = [t \in Task |-> NoQueue]
    /\ pmsg = [t \in Task |-> NoMsg]
    /\ pnt = [t \in Task |-> NoTask]
    /\ panic = FALSE
    /\ isrq = NoQueue

\* A program calls.
Call ==
    \/ \E q \in Queue : MqReceive(q) \/ MqNotify(q) \/ \E p \in MsgPrio : MqSend(q, p)
    \/ Sleep

\* A call goes on.
Continue ==
    \/ SendResumes \/ Alloc \/ Insert \/ ReadNotify \/ SignalNotify \/ WakeReceiver
    \/ ReceiveResumes \/ Free \/ WakeSender \/ WakeSenderAsserts

Isr ==
    \/ \E q \in Queue, p \in MsgPrio : IsrSend(q, p)
    \/ IsrWake
    \/ \E w \in Task : Timeout(w) \/ IsrSignal(w)

Next == Call \/ Continue \/ Isr \/ Halted

\* The running task goes on inside the kernel, and a handler ends.
Fairness == WF_vars(Continue) /\ WF_vars(IsrWake)

Spec == Init /\ [][Next]_vars

FairSpec == Spec /\ Fairness

NextWithDelete == Next \/ TaskRemove \/ \E w \in Task : MqRecover(w)

SpecWithDelete == Init /\ [][NextWithDelete]_vars

-----------------------------------------------------------------------------
(***************************************************************************)
(* Properties.                                                             *)
(***************************************************************************)
TypeOK ==
    /\ cur \in Task
    /\ state \in [Task -> {"READY", "PENDING"} \cup Blocked]
    /\ prio = Base
    /\ lock \in [Task -> 0 .. 2]
    /\ msglist \in [Queue -> Seq(Message)]
    /\ nwaitnotempty \in [Queue -> Nat] /\ nwaitnotfull \in [Queue -> Nat]
    /\ ntpid \in [Queue -> Task \cup {NoTask}]
    /\ msgwaitq \in [Task -> Queue \cup {NoQueue}]
    /\ pterrno \in [Task -> {"OK", "EINTR", "ETIMEDOUT"}]
    /\ waitdog \in [Task -> BOOLEAN]
    /\ msgfree \in Nat /\ msgfreeirq \in Nat
    /\ pc \in [Task -> {"run", "waitsend", "alloc", "insert", "notify", "signal", "wake",
                        "waitrcv", "free", "wakesnd"}]
    /\ pq \in [Task -> Queue \cup {NoQueue}]
    /\ pmsg \in [Task -> Message \cup [prio : MsgPrio \cup {0}, type : {"NONE"}, isr : {FALSE}]]
    /\ pnt \in [Task -> Task \cup {NoTask}]
    /\ panic \in BOOLEAN
    /\ isrq \in Queue \cup {NoQueue}

(***************************************************************************)
(* The counts of waiting tasks are right at every interrupt: mq_dosend     *)
(* finds the receiver it looks for (the assertion of mq_sndinternal.c:424) *)
(* and mq_waitirq a count to take back (mq_waitirq.c:138 and 141).         *)
(***************************************************************************)
WaitCountsMatch ==
    \A q \in Queue :
       /\ nwaitnotempty[q] = Cardinality(Waiting(q, "WAIT_MQNOTEMPTY"))
       /\ nwaitnotfull[q] = Cardinality(Waiting(q, "WAIT_MQNOTFULL"))

InCall(q, where) == {t \in Task : pq[t] = q /\ pc[t] \in where}

\* Woken, and not yet running.
WokenFrom(q, where) ==
    {t \in InCall(q, {where}) : state[t] \in {"READY", "PENDING"} /\ pterrno[t] = "OK"}

(***************************************************************************)
(* No wake-up is lost: a receiver waits while a message is there only if,  *)
(* for each message, a receiver that was woken is about to take it or a    *)
(* sender is about to wake one; and a sender waits while there is room     *)
(* only if, for each place, a sender was woken or is under way, or a       *)
(* receiver is about to wake one (mq_sndinternal.c:412, mq_rcvinternal.c:  *)
(* 284).  Timeouts, signals, handlers that send and tasks that come first  *)
(* do not break this.                                                      *)
(***************************************************************************)
NoLostWakeup ==
    \A q \in Queue :
       /\ Waiting(q, "WAIT_MQNOTEMPTY") # {} =>
            Len(msglist[q]) <= Cardinality(WokenFrom(q, "waitrcv"))
                                 + Cardinality(InCall(q, {"notify", "signal", "wake"}))
                                 + (IF isrq = q THEN 1 ELSE 0)
       /\ Waiting(q, "WAIT_MQNOTFULL") # {} =>
            MaxMsgs - Len(msglist[q]) <= Cardinality(WokenFrom(q, "waitsend"))
                                           + Cardinality(InCall(q, {"alloc", "insert", "free", "wakesnd"}))

\* The places of a list with a message of S.
PlacesOf(list, S) == {i \in DOMAIN list : list[i] \in S}

(***************************************************************************)
(* Tasks respect the size of the queue, although they test it and insert   *)
(* in different critical sections; only handlers exceed it (mq_send.c:163).*)
(***************************************************************************)
SentByTask == {m \in Message : ~m.isr}

TasksRespectMaxMsgs ==
    \A q \in Queue : Cardinality(PlacesOf(msglist[q], SentByTask)) <= MaxMsgs

(***************************************************************************)
(* No message is lost: each preallocated message is in its pool, in a      *)
(* queue or in the hands of a task (mq_msgalloc, mq_msgfree), and all      *)
(* state has its type: no call nests sched_lock deeper than it unlocks.    *)
(***************************************************************************)
OfType(type) == {m \in Message : m.type = type}
Queued(type) == Cardinality(UNION {{q} \X PlacesOf(msglist[q], OfType(type)) : q \in Queue})
InHand(type) == Cardinality({t \in Task : pmsg[t].type = type})

MessagesConserved ==
    /\ TypeOK
    /\ msgfree + Queued("FIXED") + InHand("FIXED") = NFixed
    /\ msgfreeirq + Queued("IRQ") + InHand("IRQ") = NIrq

(***************************************************************************)
(* Each queue implements the abstract one: what is sent is received once,  *)
(* by priority, and in the order of sending among equals.  In the list the *)
(* messages of priority p lie behind the higher ones, before the lower.    *)
(***************************************************************************)
OfPrio(list, p) == SubSeq(list, AtLeast(list, p + 1) + 1, AtLeast(list, p))

ByPrio == [q \in Queue |-> [p \in MsgPrio |-> OfPrio(msglist[q], p)]]

Abs == INSTANCE MqueueAbs WITH queued <- ByPrio

ImplementsMqueueAbs == Abs!Spec

(***************************************************************************)
(* The receiver of the highest priority does not wait beside a message: it *)
(* returns, unless the message goes to another.                            *)
(***************************************************************************)
TopTasks == Highest(Task, Base)

TopReceiverReturns ==
    \A t \in TopTasks, q \in Queue :
       pc[t] = "waitrcv" /\ pq[t] = q /\ msglist[q] # <<>> ~> pc[t] # "waitrcv" \/ msglist[q] = <<>> \/ panic

(***************************************************************************)
(* The assertion of mq_doreceive, mq_rcvinternal.c:299: after the test of  *)
(* nwaitnotfull a waiting sender is found.                                 *)
(***************************************************************************)
SenderIsFound == ~panic

(***************************************************************************)
(* The assertions of mq_waitirq, mq_waitirq.c:138 and 141: a task that     *)
(* waits, and is not being deleted, is counted.                            *)
(***************************************************************************)
Victims == {pnt[t] : t \in {u \in Task : pc[u] = "delete"}}

WaiterIsCounted ==
    \A q \in Queue :
       /\ Waiting(q, "WAIT_MQNOTEMPTY") \ Victims # {} => nwaitnotempty[q] > 0
       /\ Waiting(q, "WAIT_MQNOTFULL") \ Victims # {} => nwaitnotfull[q] > 0
=============================================================================
