----------------------------- MODULE Scheduling -----------------------------
(***************************************************************************)
(* The scheduling primitives of os/kernel/sched and of the architecture's  *)
(* context-switch functions, with the task lists of g_tasklisttable        *)
(* reduced to sets.                                                        *)
(*                                                                         *)
(*   cur    the task at g_readytorun.head (the running task)               *)
(*   state  the list a task is on: "READY" is g_readytorun (the running    *)
(*          task included), "PENDING" is g_pendingtasks, the members of    *)
(*          Blocked are the blocked lists, "INACTIVE" the list of tasks    *)
(*          that were created and not activated, "INVALID" is no list      *)
(*   prio   tcb->sched_priority                                            *)
(*   lock   tcb->lockcount                                                 *)
(*                                                                         *)
(* The order of tasks of equal priority inside a list is not kept: where   *)
(* the lists take the first of several equals, this module takes any of    *)
(* them.  Module Sched keeps the lists and implements the specification    *)
(* that SchedAbs builds from these primitives; module Semaphore is built   *)
(* on them.                                                                *)
(***************************************************************************)
EXTENDS Integers

CONSTANTS
    Task,       \* the tasks, one TCB each
    Idle,       \* the idle task: never blocks, lowest priority
    Blocked,    \* the blocked task lists
    MaxPrio,    \* SCHED_PRIORITY_MAX of the instance
    MaxLock     \* bound on lockcount (MAX_LOCK_COUNT)

ASSUME SchedConstants ==
    /\ Idle \in Task
    /\ MaxPrio \in Nat \ {0}
    /\ MaxLock \in Nat \ {0}
    /\ Blocked \cap {"READY", "PENDING", "INACTIVE", "INVALID"} = {}

VARIABLES cur, state, prio, lock

schedVars == <<cur, state, prio, lock>>

Prio == 0 .. MaxPrio

(***************************************************************************)
(* The scheduling primitives, as operators on explicit scheduler values so *)
(* that an operation of the kernel can apply several in a row: c is the    *)
(* running task, st the states, p the priorities and l the lock counts.    *)
(***************************************************************************)
Runnable(st) == {t \in Task : st[t] \in {"READY", "PENDING"}}

Highest(S, p) == {t \in S : \A u \in S : p[u] <= p[t]}

\* sched_mergepending: the pending tasks join the ready-to-run list.
Merged(st) == [t \in Task |-> IF st[t] = "PENDING" THEN "READY" ELSE st[t]]

\* sched_addreadytorun: a task that would preempt a running task holding the
\* scheduler lock is kept in g_pendingtasks.
AddReady(c, st, p, l, t) ==
    [st EXCEPT ![t] = IF l[c] > 0 /\ p[c] < p[t] THEN "PENDING" ELSE "READY"]

HeadAfterAdd(c, p, l, t) == IF l[c] = 0 /\ p[c] < p[t] THEN t ELSE c

\* up_block_task of the running task, with its new state already in st: the
\* possible results <<running task, states>>.
AfterBlock(st, p) == {<<h, Merged(st)>> : h \in Highest(Runnable(st), p)}

\* Faulty: the pending tasks are not released.
UnlockKeepsPending(c, st, p, l) == {<<c, st>>}

\* The end of sched_unlock, with the decremented count already in l.
AfterUnlock(c, st, p, l) ==
    IF l[c] > 0 THEN {<<c, st>>}
    ELSE IF c \in Highest(Runnable(st), p) THEN {<<c, Merged(st)>>}
    ELSE AfterBlock(st, p)

\* sched_setpriority of the tasks of T, p being the priorities afterwards.  A
\* running task that comes down to the priority of another ready task gives
\* the CPU away, whatever its lock count.
Others(c, st) == {t \in Task : st[t] = "READY"} \ {c}

Yields(c, st, p, T) == c \in T /\ \E t \in Others(c, st) : p[c] <= p[t]

Raised(c, st, p, T) == {t \in Others(c, st) \cap T : p[c] < p[t]}

HeldOff(c, st, p, T) ==
    [t \in Task |-> IF t \in Raised(c, st, p, T) THEN "PENDING" ELSE st[t]]

AfterReprioritize(c, st, p, l, T) ==
    IF Yields(c, st, p, T)
      THEN {<<h, Merged(st)>> : h \in Highest(Runnable(st) \ {c}, p)}
      ELSE IF l[c] = 0 /\ Raised(c, st, p, T) # {}
        THEN AfterBlock(st, p)
        ELSE {<<c, HeldOff(c, st, p, T)>>}

\* The running task and the states become one of the results of R.
Switch(R) == \E r \in R : cur' = r[1] /\ state' = r[2]

(***************************************************************************)
(* Strict priority scheduling: no task of g_readytorun has a higher        *)
(* priority than the running task, and g_pendingtasks, where tasks of      *)
(* higher priority wait, is empty unless the running task holds the        *)
(* scheduler lock.  Every operation that changes a priority, blocks,       *)
(* unblocks or unlocks must restore it (sched_mergepending,                *)
(* sched_setpriority, sched_unlock).                                       *)
(***************************************************************************)
RunningIsHighest ==
    /\ state[cur] = "READY"
    /\ \A t \in Task : state[t] = "PENDING" => lock[cur] > 0
    /\ \A t \in Task : state[t] = "READY" => prio[t] <= prio[cur]
=============================================================================
