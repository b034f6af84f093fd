-------------------------- MODULE SchedulingLemmas --------------------------
(***************************************************************************)
(* What the scheduling primitives of module Scheduling preserve: the order *)
(* that RunningIsHighest states, and the lists of the tasks that they do   *)
(* not concern.  The proofs about SchedAbs and about Semaphore rest on     *)
(* these lemmas.                                                           *)
(***************************************************************************)
EXTENDS Scheduling, TLAPS

StateSet == {"READY", "PENDING", "INACTIVE", "INVALID"} \cup Blocked

(***************************************************************************)
(* What the results of the primitives have in common.                      *)
(***************************************************************************)
Ordered(c, st, p, l) ==
    /\ c \in Task
    /\ st \in [Task -> StateSet]
    /\ st[c] = "READY"
    /\ \A t \in Task : st[t] = "PENDING" => l[c] > 0
    /\ \A t \in Task : st[t] = "READY" => p[t] <= p[c]

\* A choice of the highest runnable task with the pending tasks merged leaves
\* the scheduler in order (sched_mergepending).
LEMMA MergedOrdered ==
    ASSUME NEW st \in [Task -> StateSet], NEW p, NEW l, NEW h \in Highest(Runnable(st), p)
    PROVE  Ordered(h, Merged(st), p, l)
<1>1. h \in Task /\ st[h] \in {"READY", "PENDING"}
  BY DEF Highest, Runnable
<1>2. Merged(st) \in [Task -> StateSet] /\ Merged(st)[h] = "READY"
  BY <1>1 DEF Merged, StateSet
<1>3. \A t \in Task : Merged(st)[t] # "PENDING"
  BY DEF Merged
<1>4. ASSUME NEW t \in Task, Merged(st)[t] = "READY" PROVE p[t] <= p[h]
  <2>1. t \in Runnable(st)
    BY <1>4 DEF Merged, Runnable
  <2> QED BY <2>1 DEF Highest
<1> QED BY <1>1, <1>2, <1>3, <1>4 DEF Ordered

\* up_block_task.
LEMMA AfterBlockOrdered ==
    ASSUME NEW st \in [Task -> StateSet], NEW p, NEW l, NEW r \in AfterBlock(st, p)
    PROVE  Ordered(r[1], r[2], p, l)
BY MergedOrdered DEF AfterBlock

\* sched_unlock, from a state in order under a positive lock count.
LEMMA AfterUnlockOrdered ==
    ASSUME NEW st \in [Task -> StateSet], NEW p, NEW l, NEW c,
           l[c] > 0 => Ordered(c, st, p, l),
           NEW r \in AfterUnlock(c, st, p, l)
    PROVE  Ordered(r[1], r[2], p, l)
<1>1. CASE l[c] > 0
  BY <1>1 DEF AfterUnlock
<1>2. CASE ~(l[c] > 0) /\ c \in Highest(Runnable(st), p)
  BY <1>2, MergedOrdered DEF AfterUnlock
<1>3. CASE ~(l[c] > 0) /\ c \notin Highest(Runnable(st), p)
  BY <1>3, AfterBlockOrdered DEF AfterUnlock
<1> QED BY <1>1, <1>2, <1>3

\* sched_setpriority of the tasks of T, which leaves the priorities q.
LEMMA AfterReprioritizeOrdered ==
    ASSUME NEW c, NEW st, NEW p, NEW q \in [Task -> Prio], NEW l \in [Task -> Nat],
           Ordered(c, st, p, l),
           NEW T \in SUBSET Task, \A t \in Task \ T : q[t] = p[t],
           NEW r \in AfterReprioritize(c, st, q, l, T)
    PROVE  Ordered(r[1], r[2], q, l)
<1> USE DEF Ordered
<1>t. \A t \in Task : q[t] \in Int
  <2>1. Prio \subseteq Int
    BY DEF Prio
  <2> QED BY <2>1
<1>1. CASE Yields(c, st, q, T)
  <2>1. PICK h \in Highest(Runnable(st) \ {c}, q) : r = <<h, Merged(st)>>
    BY <1>1 DEF AfterReprioritize
  <2>2. PICK u \in Others(c, st) : q[c] <= q[u]
    BY <1>1 DEF Yields
  <2>3. u \in Runnable(st) \ {c}
    BY <2>2 DEF Others, Runnable
  <2>4. h \in Task /\ u \in Task /\ q[u] <= q[h]
    BY <2>1, <2>3 DEF Highest, Runnable
  <2>5. q[c] <= q[h]
    BY <2>2, <2>4, <1>t
  <2>6. h \in Highest(Runnable(st), q)
    BY <2>1, <2>5 DEF Highest, Runnable
  <2> QED BY <2>1, <2>6, MergedOrdered
<1>2. CASE ~Yields(c, st, q, T) /\ l[c] = 0 /\ Raised(c, st, q, T) # {}
  BY <1>2, AfterBlockOrdered DEF AfterReprioritize
<1>3. CASE ~Yields(c, st, q, T) /\ ~(l[c] = 0 /\ Raised(c, st, q, T) # {})
  <2>1. r = <<c, HeldOff(c, st, q, T)>>
    BY <1>3 DEF AfterReprioritize
  <2>2. HeldOff(c, st, q, T) \in [Task -> StateSet] /\ HeldOff(c, st, q, T)[c] = "READY"
    BY DEF HeldOff, Raised, Others, StateSet
  <2>3. ASSUME NEW t \in Task, HeldOff(c, st, q, T)[t] = "PENDING" PROVE l[c] > 0
    <3>1. t \in Raised(c, st, q, T) \/ st[t] = "PENDING"
      BY <2>3 DEF HeldOff
    <3> QED BY <3>1, <1>3
  <2>4. ASSUME NEW t \in Task, HeldOff(c, st, q, T)[t] = "READY" PROVE q[t] <= q[c]
    <3>1. st[t] = "READY" /\ t \notin Raised(c, st, q, T)
      BY <2>4 DEF HeldOff
    <3>2. CASE t = c
      BY <3>2, <1>t
    <3>3. CASE t # c /\ t \in T
      BY <3>1, <3>3, <1>t DEF Raised, Others
    <3>4. CASE t # c /\ t \notin T /\ c \in T
      BY <3>1, <3>4, <1>3, <1>t DEF Yields, Others
    <3>5. CASE t # c /\ t \notin T /\ c \notin T
      BY <3>1, <3>5
    <3> QED BY <3>2, <3>3, <3>4, <3>5
  <2> QED BY <2>1, <2>2, <2>3, <2>4
<1> QED BY <1>1, <1>2, <1>3

(***************************************************************************)
(* sched_addreadytorun of a task that is on neither of the two lists.      *)
(***************************************************************************)
LEMMA AddReadyOrdered ==
    ASSUME NEW c, NEW st, NEW p \in [Task -> Prio], NEW l \in [Task -> Nat],
           Ordered(c, st, p, l),
           NEW t \in Task \ {c}
    PROVE  Ordered(HeadAfterAdd(c, p, l, t), AddReady(c, st, p, l, t), p, l)
<1> USE DEF Ordered
<1>t. \A u \in Task : p[u] \in Int /\ l[u] \in Nat
  <2>1. Prio \subseteq Int
    BY DEF Prio
  <2> QED BY <2>1
<1>1. CASE l[c] > 0 /\ p[c] < p[t]
  <2>1. /\ HeadAfterAdd(c, p, l, t) = c
        /\ AddReady(c, st, p, l, t) = [st EXCEPT ![t] = "PENDING"]
    BY <1>1, <1>t DEF AddReady, HeadAfterAdd
  <2> QED BY <1>1, <2>1 DEF StateSet
<1>2. CASE l[c] = 0 /\ p[c] < p[t]
  <2>1. /\ HeadAfterAdd(c, p, l, t) = t
        /\ AddReady(c, st, p, l, t) = [st EXCEPT ![t] = "READY"]
    BY <1>2 DEF AddReady, HeadAfterAdd
  <2>2. \A u \in Task : [st EXCEPT ![t] = "READY"][u] # "PENDING"
    BY <1>2
  <2>3. \A u \in Task : [st EXCEPT ![t] = "READY"][u] = "READY" => p[u] <= p[t]
    BY <1>2, <1>t
  <2> QED BY <2>1, <2>2, <2>3 DEF StateSet
<1>3. CASE ~(p[c] < p[t])
  <2>1. /\ HeadAfterAdd(c, p, l, t) = c
        /\ AddReady(c, st, p, l, t) = [st EXCEPT ![t] = "READY"]
    BY <1>3 DEF AddReady, HeadAfterAdd
  <2>2. p[t] <= p[c]
    BY <1>3, <1>t
  <2> QED BY <2>1, <2>2 DEF StateSet
<1> QED BY <1>1, <1>2, <1>3, <1>t

\* A change of priorities under the lock that does not take the CPU from the
\* running task.
LEMMA HeldOffOrdered ==
    ASSUME NEW c, NEW st, NEW p, NEW q \in [Task -> Prio], NEW l \in [Task -> Nat],
           Ordered(c, st, p, l), l[c] > 0,
           NEW T \in SUBSET Task, \A t \in Task \ T : q[t] = p[t],
           ~Yields(c, st, q, T)
    PROVE  Ordered(c, HeldOff(c, st, q, T), q, l)
<1> DEFINE r == <<c, HeldOff(c, st, q, T)>>
<1>1. r \in AfterReprioritize(c, st, q, l, T)
  BY DEF AfterReprioritize
<1>2. Ordered(r[1], r[2], q, l)
  BY <1>1, AfterReprioritizeOrdered
<1> QED BY <1>2

-----------------------------------------------------------------------------
(***************************************************************************)
(* Tasks move only between g_readytorun and g_pendingtasks.                *)
(***************************************************************************)
Kept(st, st2) ==
    \A t \in Task : st2[t] = st[t] \/ {st[t], st2[t]} \subseteq {"READY", "PENDING"}

\* The primitives move only ready and pending tasks.
LEMMA MergedKeeps == ASSUME NEW st PROVE Kept(st, Merged(st))
BY DEF Kept, Merged

LEMMA AfterBlockKeeps ==
    ASSUME NEW st, NEW p, NEW r \in AfterBlock(st, p)
    PROVE  Kept(st, r[2])
BY MergedKeeps DEF AfterBlock

LEMMA AfterUnlockKeeps ==
    ASSUME NEW st, NEW p, NEW l, NEW c, NEW r \in AfterUnlock(c, st, p, l)
    PROVE  Kept(st, r[2])
<1>1. Kept(st, st)
  BY DEF Kept
<1> QED BY <1>1, MergedKeeps, AfterBlockKeeps DEF AfterUnlock

LEMMA HeldOffKeeps ==
    ASSUME NEW c, NEW st, NEW p, NEW T
    PROVE  Kept(st, HeldOff(c, st, p, T))
BY DEF Kept, HeldOff, Raised, Others

LEMMA AfterReprioritizeKeeps ==
    ASSUME NEW c, NEW st, NEW p, NEW l, NEW T, NEW r \in AfterReprioritize(c, st, p, l, T)
    PROVE  Kept(st, r[2])
BY MergedKeeps, AfterBlockKeeps, HeldOffKeeps DEF AfterReprioritize

LEMMA KeptTrans ==
    ASSUME NEW st1, NEW st2, NEW st3, Kept(st1, st2), Kept(st2, st3)
    PROVE  Kept(st1, st3)
BY DEF Kept

-----------------------------------------------------------------------------
(***************************************************************************)
(* The scheduler of SchedAbs runs a task of the highest priority, for any  *)
(* set of tasks, any priorities and any bound on the lock count.           *)
(*                                                                         *)
(* RunningIsHighest with the types is inductive: the running task stays    *)
(* on g_readytorun, which AfterBlock and AfterReprioritize need to leave   *)
(* the others no higher than the task they choose.                         *)
(***************************************************************************)
Scheduler == INSTANCE SchedAbs

SchedulerTypes ==
    /\ cur \in Task
    /\ state \in [Task -> StateSet]
    /\ prio \in [Task -> Prio]
    /\ lock \in [Task -> Nat]

SchedulerInv == SchedulerTypes /\ RunningIsHighest

\* The primitives of the instance are the primitives of this module.
LEMMA SamePrimitives ==
    /\ \A st, p : Scheduler!AfterBlock(st, p) = AfterBlock(st, p)
    /\ \A c, st, p, l : Scheduler!AfterUnlock(c, st, p, l) = AfterUnlock(c, st, p, l)
    /\ \A c, st, p, l, T : Scheduler!AfterReprioritize(c, st, p, l, T) = AfterReprioritize(c, st, p, l, T)
    /\ \A c, st, p, l, t : Scheduler!AddReady(c, st, p, l, t) = AddReady(c, st, p, l, t)
    /\ \A c, p, l, t : Scheduler!HeadAfterAdd(c, p, l, t) = HeadAfterAdd(c, p, l, t)
<1>1. \A st : Scheduler!Merged(st) = Merged(st) /\ Scheduler!Runnable(st) = Runnable(st)
  BY DEF Scheduler!Merged, Merged, Scheduler!Runnable, Runnable
<1>2. \A S, p : Scheduler!Highest(S, p) = Highest(S, p)
  BY DEF Scheduler!Highest, Highest
<1>3. \A st, p : Scheduler!AfterBlock(st, p) = AfterBlock(st, p)
  BY <1>1, <1>2 DEF Scheduler!AfterBlock, AfterBlock
<1>4. \A c, st, p, l : Scheduler!AfterUnlock(c, st, p, l) = AfterUnlock(c, st, p, l)
  BY <1>1, <1>2, <1>3 DEF Scheduler!AfterUnlock, AfterUnlock
<1>5. \A c, st, p, T : /\ Scheduler!Yields(c, st, p, T) <=> Yields(c, st, p, T)
                      /\ Scheduler!Raised(c, st, p, T) = Raised(c, st, p, T)
  BY DEF Scheduler!Yields, Yields, Scheduler!Raised, Raised, Scheduler!Others, Others
<1>6. \A c, st, p, T : Scheduler!HeldOff(c, st, p, T) = HeldOff(c, st, p, T)
  BY <1>5 DEF Scheduler!HeldOff, HeldOff
<1>7. \A c, st, p, l, T : Scheduler!AfterReprioritize(c, st, p, l, T) = AfterReprioritize(c, st, p, l, T)
  <2> SUFFICES ASSUME NEW c, NEW st, NEW p, NEW l, NEW T
               PROVE  Scheduler!AfterReprioritize(c, st, p, l, T) = AfterReprioritize(c, st, p, l, T)
    OBVIOUS
  <2>1. Scheduler!Highest(Scheduler!Runnable(st) \ {c}, p) = Highest(Runnable(st) \ {c}, p)
    BY <1>1, <1>2
  <2>2. Scheduler!Merged(st) = Merged(st)
    BY <1>1
  <2>3. {<<h, Scheduler!Merged(st)>> : h \in Scheduler!Highest(Scheduler!Runnable(st) \ {c}, p)}
        = {<<h, Merged(st)>> : h \in Highest(Runnable(st) \ {c}, p)}
    BY <2>1, <2>2
  <2> QED BY <1>3, <1>5, <1>6, <2>3 DEF Scheduler!AfterReprioritize, AfterReprioritize
<1>8. \A c, st, p, l, t : Scheduler!AddReady(c, st, p, l, t) = AddReady(c, st, p, l, t)
  BY DEF Scheduler!AddReady, AddReady
<1>9. \A c, p, l, t : Scheduler!HeadAfterAdd(c, p, l, t) = HeadAfterAdd(c, p, l, t)
  BY DEF Scheduler!HeadAfterAdd, HeadAfterAdd
<1> QED BY <1>3, <1>4, <1>7, <1>8, <1>9

\* The invariant in the terms of the lemmas, before and after a step.
LEMMA InvIsOrdered ==
    SchedulerTypes => (RunningIsHighest <=> Ordered(cur, state, prio, lock))
BY DEF SchedulerTypes, RunningIsHighest, Ordered

LEMMA OrderedIsInv ==
    SchedulerTypes' => (RunningIsHighest' <=> Ordered(cur', state', prio', lock'))
BY DEF SchedulerTypes, RunningIsHighest, Ordered

\* Every operation of the scheduler preserves the invariant.
LEMMA AbstractStep == SchedulerInv /\ [Scheduler!Next]_schedVars => SchedulerInv'
<1> SUFFICES ASSUME SchedulerInv, [Scheduler!Next]_schedVars PROVE SchedulerInv'
  OBVIOUS
<1> USE DEF SchedulerInv, SchedulerTypes
<1>o. Ordered(cur, state, prio, lock)
  BY InvIsOrdered
<1>1. CASE Scheduler!Lock
  <2>1. lock' \in [Task -> Nat] /\ lock'[cur] > 0
    BY <1>1 DEF Scheduler!Lock
  <2> QED BY <1>1, <2>1 DEF Scheduler!Lock, RunningIsHighest
<1>2. CASE Scheduler!Unlock
  <2>1. lock' \in [Task -> Nat]
    BY <1>2 DEF Scheduler!Unlock
  <2>2. PICK r \in AfterUnlock(cur, state, prio, lock') : cur' = r[1] /\ state' = r[2]
    BY <1>2, SamePrimitives DEF Scheduler!Unlock, Scheduler!Switch
  <2>3. lock'[cur] > 0 => Ordered(cur, state, prio, lock')
    BY <1>o DEF Ordered
  <2>4. Ordered(cur', state', prio, lock')
    BY <2>2, <2>3, AfterUnlockOrdered
  <2> QED BY <1>2, <2>1, <2>4, OrderedIsInv DEF Scheduler!Unlock, Ordered
<1>3. CASE Scheduler!Block
  <2>1. PICK b \in Blocked : Scheduler!Switch(Scheduler!AfterBlock([state EXCEPT ![cur] = b], prio))
    BY <1>3 DEF Scheduler!Block
  <2>2. [state EXCEPT ![cur] = b] \in [Task -> StateSet]
    BY DEF StateSet
  <2>3. PICK r \in AfterBlock([state EXCEPT ![cur] = b], prio) : cur' = r[1] /\ state' = r[2]
    BY <2>1, SamePrimitives DEF Scheduler!Switch
  <2>4. Ordered(cur', state', prio, lock)
    BY <2>2, <2>3, AfterBlockOrdered
  <2> QED BY <1>3, <2>4, OrderedIsInv DEF Scheduler!Block, Ordered
<1>4. CASE Scheduler!Unblock
  <2>1. PICK t \in Task : /\ state[t] \in Blocked \cup {"INACTIVE"}
                          /\ state' = AddReady(cur, state, prio, lock, t)
                          /\ cur' = HeadAfterAdd(cur, prio, lock, t)
    BY <1>4, SamePrimitives DEF Scheduler!Unblock
  <2>2. t # cur
    BY <2>1, SchedConstants DEF RunningIsHighest
  <2>3. prio' = prio /\ lock' = lock
    BY <1>4 DEF Scheduler!Unblock
  <2>4. Ordered(cur', state', prio, lock)
    BY <1>o, <2>1, <2>2, AddReadyOrdered
  <2> QED BY <2>3, <2>4, OrderedIsInv DEF Ordered
<1>5. CASE Scheduler!SetPriority
  <2>1. PICK t \in Task \ {Idle}, n \in 1 .. MaxPrio :
               /\ prio' = [prio EXCEPT ![t] = n]
               /\ Scheduler!Switch(Scheduler!AfterReprioritize(cur, state, prio', lock, {t}))
    BY <1>5 DEF Scheduler!SetPriority
  <2>2. prio' \in [Task -> Prio] /\ lock' = lock
    BY <2>1, <1>5, SchedConstants DEF Scheduler!SetPriority, Prio
  <2>3. \A u \in Task \ {t} : prio'[u] = prio[u]
    BY <2>1
  <2>4. PICK r \in AfterReprioritize(cur, state, prio', lock, {t}) : cur' = r[1] /\ state' = r[2]
    BY <2>1, SamePrimitives DEF Scheduler!Switch
  <2>5. Ordered(cur', state', prio', lock)
    BY <1>o, <2>2, <2>3, <2>4, AfterReprioritizeOrdered
  <2> QED BY <2>2, <2>5, OrderedIsInv DEF Ordered
<1>6. CASE Scheduler!Exit
  <2>1. [state EXCEPT ![cur] = "INVALID"] \in [Task -> StateSet]
    BY DEF StateSet
  <2>2. PICK r \in AfterBlock([state EXCEPT ![cur] = "INVALID"], prio) : cur' = r[1] /\ state' = r[2]
    BY <1>6, SamePrimitives DEF Scheduler!Exit, Scheduler!Switch
  <2>3. Ordered(cur', state', prio, lock)
    BY <2>1, <2>2, AfterBlockOrdered
  <2> QED BY <1>6, <2>3, OrderedIsInv DEF Scheduler!Exit, Ordered
<1>7. CASE Scheduler!Terminate
  BY <1>7 DEF Scheduler!Terminate, RunningIsHighest, StateSet
<1>8. CASE Scheduler!Create
  <2>1. PICK t \in Task \ {Idle}, n \in 1 .. MaxPrio :
               /\ state[t] = "INVALID"
               /\ state' = [state EXCEPT ![t] = "INACTIVE"]
               /\ prio' = [prio EXCEPT ![t] = n]
               /\ lock' = [lock EXCEPT ![t] = 0]
    BY <1>8 DEF Scheduler!Create
  <2>2. t # cur /\ cur' = cur
    BY <2>1, <1>8 DEF Scheduler!Create, RunningIsHighest
  <2>3. SchedulerTypes'
    BY <2>1, <2>2, SchedConstants DEF StateSet, Prio
  <2> QED BY <2>1, <2>2, <2>3 DEF RunningIsHighest
<1>9. CASE UNCHANGED schedVars
  BY <1>9 DEF schedVars, RunningIsHighest
<1> QED BY <1>1, <1>2, <1>3, <1>4, <1>5, <1>6, <1>7, <1>8, <1>9 DEF Scheduler!Next

(***************************************************************************)
(* The scheduler runs a task of the highest priority: in every reachable   *)
(* state no task of g_readytorun has a higher priority than the running    *)
(* task, and tasks are held off in g_pendingtasks only under the           *)
(* scheduler lock of the running task.                                     *)
(***************************************************************************)
THEOREM HighestRuns == Scheduler!Spec => []RunningIsHighest
<1>1. Scheduler!Init => SchedulerInv
  BY SchedConstants DEF Scheduler!Init, Scheduler!Prio, SchedulerInv, SchedulerTypes, RunningIsHighest, StateSet, Prio
<1>2. SchedulerInv => RunningIsHighest
  BY DEF SchedulerInv
<1>3. SchedulerInv /\ [Scheduler!Next]_Scheduler!schedVars => SchedulerInv'
  BY AbstractStep DEF Scheduler!schedVars, schedVars
<1> QED BY <1>1, <1>2, <1>3, PTL DEF Scheduler!Spec
=============================================================================
