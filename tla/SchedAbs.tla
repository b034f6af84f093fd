------------------------------ MODULE SchedAbs ------------------------------
(***************************************************************************)
(* What the scheduler promises to the rest of the kernel: its operations   *)
(* on sets of tasks, in terms of the primitives of module Scheduling.      *)
(* Module Sched, which keeps the ordered lists, implements it.             *)
(***************************************************************************)
EXTENDS Scheduling

(***************************************************************************)
(* The operations.                                                         *)
(***************************************************************************)
Init ==
    /\ cur = Idle
    /\ state \in [Task -> {"READY", "INACTIVE"}]
    /\ {t \in Task : state[t] = "READY"} = {Idle}
    /\ prio \in [Task -> Prio]
    /\ prio[Idle] = 0 /\ \A t \in Task \ {Idle} : prio[t] > 0
    /\ lock = [t \in Task |-> 0]

Lock ==
    /\ lock[cur] < MaxLock
    /\ lock' = [lock EXCEPT ![cur] = @ + 1]
    /\ UNCHANGED <<cur, state, prio>>

Unlock ==
    /\ lock[cur] > 0
    /\ lock' = [lock EXCEPT ![cur] = @ - 1]
    /\ Switch(AfterUnlock(cur, state, prio, lock'))
    /\ UNCHANGED prio

Block ==
    /\ cur # Idle
    /\ \E b \in Blocked : Switch(AfterBlock([state EXCEPT ![cur] = b], prio))
    /\ UNCHANGED <<prio, lock>>

Unblock ==
    /\ \E t \in Task :
         /\ state[t] \in Blocked \cup {"INACTIVE"}
         /\ state' = AddReady(cur, state, prio, lock, t)
         /\ cur' = HeadAfterAdd(cur, prio, lock, t)
    /\ UNCHANGED <<prio, lock>>

SetPriority ==
    /\ \E t \in Task \ {Idle}, n \in 1 .. MaxPrio :
         /\ state[t] # "INVALID"
         /\ prio' = [prio EXCEPT ![t] = n]
         /\ Switch(AfterReprioritize(cur, state, prio', lock, {t}))
    /\ UNCHANGED lock

\* task_exit of the running task; the task that takes over keeps its lock count.
Exit ==
    /\ cur # Idle
    /\ Switch(AfterBlock([state EXCEPT ![cur] = "INVALID"], prio))
    /\ UNCHANGED <<prio, lock>>

\* task_terminate of another task, whatever list it is on.
Terminate ==
    /\ \E t \in Task \ {cur, Idle} :
         /\ state[t] # "INVALID"
         /\ state' = [state EXCEPT ![t] = "INVALID"]
    /\ UNCHANGED <<cur, prio, lock>>

\* A fresh TCB for a new task: priority chosen by the creator, no lock held.
Create ==
    /\ \E t \in Task \ {Idle}, n \in 1 .. MaxPrio :
         /\ state[t] = "INVALID"
         /\ state' = [state EXCEPT ![t] = "INACTIVE"]
         /\ prio' = [prio EXCEPT ![t] = n]
         /\ lock' = [lock EXCEPT ![t] = 0]
    /\ UNCHANGED cur

Next == Lock \/ Unlock \/ Block \/ Unblock \/ SetPriority \/ Exit \/ Terminate \/ Create

Spec == Init /\ [][Next]_schedVars
=============================================================================
