--------------------------- MODULE SemaphoreProof ---------------------------
(***************************************************************************)
(* The semaphores of module Semaphore, and the pthread functions of module *)
(* Pthread on them, proved for any number of tasks and semaphores, any     *)
(* priorities and any configuration.                                       *)
(***************************************************************************)
EXTENDS Pthread, SchedulingLemmas, FiniteSetTheorems, WellFoundedInduction

(***************************************************************************)
(* The inductive invariant.  A task waits for a semaphore exactly while it *)
(* is on g_waitingforsemaphore, it is then inside a wait of that semaphore *)
(* that has no result yet, and nobody waits for a mutex it has.            *)
(***************************************************************************)
WaitInv ==
    \A t \in Task :
       /\ waitsem[t] # NoSem <=> state[t] = "WAIT_SEM"
       /\ waitsem[t] # NoSem => pc[t] \in {"wait", "waitisr"} /\ psem[t] = waitsem[t] /\ pterrno[t] = "OK"
       /\ pc[t] \in {"wait", "waitisr"} => psem[t] \in Sem \ own[t]

\* A task that has left the CPU inside a call under sched_lock holds the lock.
LockInv == \A t \in Task : pc[t] \in {"wait", "post", "postbase"} => lock[t] > 0

\* CountMatchesWaiters for the counts sc and the waits ws.
CountInv(sc, ws) ==
    \A s \in Sem :
       /\ sc[s] < 0 => Cardinality({t \in Task : ws[t] = s}) + sc[s] = 0
       /\ sc[s] >= 0 => {t \in Task : ws[t] = s} = {}

SemInv ==
    /\ TypeOK
    /\ RunningIsHighest
    /\ WaitInv
    /\ LockInv
    /\ CountInv(semcount, waitsem)

-----------------------------------------------------------------------------
(***************************************************************************)
(* The count of a semaphore and the tasks that wait for it.                *)
(***************************************************************************)
LEMMA FiniteWaiters ==
    ASSUME NEW ws, NEW s
    PROVE  IsFiniteSet({t \in Task : ws[t] = s})
<1>1. {t \in Task : ws[t] = s} \in SUBSET Task /\ IsFiniteSet(Task)
  BY SemConstants
<1> QED BY <1>1, FS_Subset

\* sem_wait: one more task waits.
LEMMA WaitCounts ==
    ASSUME NEW sc \in [Sem -> Int], NEW ws \in [Task -> Sem \cup {NoSem}],
           CountInv(sc, ws), NEW t \in Task, ws[t] = NoSem, NEW s \in Sem, sc[s] <= 0
    PROVE  CountInv([sc EXCEPT ![s] = @ - 1], [ws EXCEPT ![t] = s])
<1> DEFINE ws2 == [ws EXCEPT ![t] = s]
           sc2 == [sc EXCEPT ![s] = @ - 1]
           W(u) == {v \in Task : ws[v] = u}
           W2(u) == {v \in Task : ws2[v] = u}
<1>1. NoSem \notin Sem
  BY SemConstants
<1>2. W2(s) = W(s) \cup {t} /\ t \notin W(s)
  BY <1>1
<1>3. IsFiniteSet(W(s))
  BY FiniteWaiters
<1>4. Cardinality(W2(s)) = Cardinality(W(s)) + 1
  BY <1>2, <1>3, FS_AddElement
<1>5. Cardinality(W(s)) + sc[s] = 0
  <2>1. CASE sc[s] < 0
    BY <2>1 DEF CountInv
  <2>2. CASE sc[s] = 0
    <3>1. W(s) = {}
      BY <2>2 DEF CountInv
    <3>2. Cardinality(W(s)) = 0
      BY <3>1, FS_EmptySet
    <3> QED BY <2>2, <3>2
  <2> QED BY <2>1, <2>2
<1>6. sc2[s] < 0 /\ Cardinality(W2(s)) + sc2[s] = 0
  <2>1. Cardinality(W(s)) \in Nat
    BY <1>3, FS_CardinalityType
  <2>2. sc2[s] = sc[s] - 1 /\ sc[s] \in Int
    OBVIOUS
  <2> HIDE DEF W, W2, sc2
  <2> QED BY <1>4, <1>5, <2>1, <2>2
<1>7. ASSUME NEW u \in Sem, u # s PROVE W2(u) = W(u) /\ sc2[u] = sc[u]
  BY <1>1, <1>7
<1>8. ASSUME NEW u \in Sem
      PROVE  /\ sc2[u] < 0 => Cardinality(W2(u)) + sc2[u] = 0
             /\ sc2[u] >= 0 => W2(u) = {}
  <2>1. CASE u = s
    BY <1>6, <2>1
  <2>2. CASE u # s
    BY <1>7, <2>2 DEF CountInv
  <2> QED BY <2>1, <2>2
<1> QED BY <1>8 DEF CountInv

\* sem_post that wakes a task, and sem_waitirq: one task less waits, and the
\* count was negative.
LEMMA WakeCounts ==
    ASSUME NEW sc \in [Sem -> Int], NEW ws \in [Task -> Sem \cup {NoSem}],
           CountInv(sc, ws), NEW t \in Task, NEW s \in Sem, ws[t] = s
    PROVE  sc[s] < 0 /\ CountInv([sc EXCEPT ![s] = @ + 1], [ws EXCEPT ![t] = NoSem])
<1> DEFINE ws2 == [ws EXCEPT ![t] = NoSem]
           sc2 == [sc EXCEPT ![s] = @ + 1]
           W(u) == {v \in Task : ws[v] = u}
           W2(u) == {v \in Task : ws2[v] = u}
<1>1. NoSem \notin Sem
  BY SemConstants
<1>2. t \in W(s)
  OBVIOUS
<1>3. sc[s] < 0 /\ Cardinality(W(s)) + sc[s] = 0
  <2>1. sc[s] >= 0 => W(s) = {}
    BY DEF CountInv
  <2>2. sc[s] < 0 => Cardinality(W(s)) + sc[s] = 0
    BY DEF CountInv
  <2>3. sc[s] \in Int
    OBVIOUS
  <2> HIDE DEF W
  <2> QED BY <1>2, <2>1, <2>2, <2>3
<1>4. W2(s) = W(s) \ {t}
  BY <1>1
<1>5. IsFiniteSet(W(s)) /\ IsFiniteSet(W2(s))
  <2>1. IsFiniteSet(W(s))
    BY FiniteWaiters
  <2>2. W2(s) \in SUBSET W(s)
    BY <1>4
  <2> HIDE DEF W, W2
  <2> QED BY <2>1, <2>2, FS_Subset
<1>6. Cardinality(W2(s)) = Cardinality(W(s)) - 1
  BY <1>2, <1>4, <1>5, FS_RemoveElement
<1>7. Cardinality(W2(s)) + sc2[s] = 0
  <2>1. Cardinality(W(s)) \in Nat
    BY <1>5, FS_CardinalityType
  <2>2. sc2[s] = sc[s] + 1 /\ sc[s] \in Int
    OBVIOUS
  <2> HIDE DEF W, W2, sc2
  <2> QED BY <1>3, <1>6, <2>1, <2>2
<1>8. sc2[s] = 0 => W2(s) = {}
  <2>1. Cardinality(W2(s)) \in Nat
    BY <1>5, FS_CardinalityType
  <2> HIDE DEF W2, sc2
  <2> QED BY <1>5, <1>7, <2>1, FS_EmptySet
<1>9. ASSUME NEW u \in Sem, u # s PROVE W2(u) = W(u) /\ sc2[u] = sc[u]
  BY <1>1, <1>9
<1>10. ASSUME NEW u \in Sem
       PROVE  /\ sc2[u] < 0 => Cardinality(W2(u)) + sc2[u] = 0
              /\ sc2[u] >= 0 => W2(u) = {}
  <2>1. CASE u = s
    BY <1>3, <1>7, <1>8, <2>1
  <2>2. CASE u # s
    BY <1>9, <2>2 DEF CountInv
  <2> QED BY <2>1, <2>2
<1> QED BY <1>3, <1>10 DEF CountInv

\* The other calls, which leave the count on the same side of 0.
LEMMA SameCounts ==
    ASSUME NEW sc \in [Sem -> Int], NEW ws, CountInv(sc, ws),
           NEW s \in Sem, sc[s] >= 0, NEW n \in Nat
    PROVE  CountInv([sc EXCEPT ![s] = n], ws)
<1> DEFINE sc2 == [sc EXCEPT ![s] = n]
           W(u) == {t \in Task : ws[t] = u}
<1>1. sc2[s] = n /\ n >= 0 /\ ~(n < 0)
  OBVIOUS
<1>2. W(s) = {}
  BY DEF CountInv
<1>3. ASSUME NEW u \in Sem
      PROVE  /\ sc2[u] < 0 => Cardinality(W(u)) + sc2[u] = 0
             /\ sc2[u] >= 0 => W(u) = {}
  <2>1. CASE u = s
    BY <1>1, <1>2, <2>1
  <2>2. CASE u # s
    BY <2>2 DEF CountInv
  <2> QED BY <2>1, <2>2
<1> QED BY <1>3 DEF CountInv

-----------------------------------------------------------------------------
(***************************************************************************)
(* Priority inheritance: the boosts and the restores keep priorities and   *)
(* pending priorities in their types, and a restore changes the priority   *)
(* of no task that it does not reprioritize.                               *)
(***************************************************************************)
LEMMA MaxOfPrios ==
    ASSUME NEW S \in SUBSET Prio, S # {}
    PROVE  Max(S) \in S
<1> DEFINE T == {MaxPrio - n : n \in S}
           R == OpToRel(<, Nat)
<1>0. MaxPrio \in Nat
  BY SchedConstants
<1>1. T \subseteq Nat /\ T # {}
  <2>1. \A n \in S : MaxPrio - n \in Nat
    BY <1>0 DEF Prio
  <2>2. T \subseteq Nat
    BY <2>1
  <2>3. PICK n \in S : TRUE
    OBVIOUS
  <2>4. MaxPrio - n \in T
    OBVIOUS
  <2> QED BY <2>2, <2>4
<1>2. \E x \in T : \A y \in T : ~ (<<y, x>> \in R)
  <2>1. IsWellFoundedOn(R, Nat)
     BY NatLessThanWellFounded
  <2> HIDE DEF T, R
  <2> QED BY <1>1, <2>1, WFMin
<1>3. \A x, y \in Nat : <<y, x>> \in R <=> y < x
  BY DEF OpToRel
<1>4. \E x \in S : \A y \in S : y <= x
  <2>1. PICK x \in T : \A y \in T : ~(y < x)
    BY <1>1, <1>2, <1>3
  <2>2. PICK n \in S : x = MaxPrio - n
    BY <2>1
  <2>3. ASSUME NEW k \in S PROVE k <= n
    <3>1. ~(MaxPrio - k < MaxPrio - n)
      BY <2>1, <2>2
    <3>2. k \in Int /\ n \in Int
      BY DEF Prio
    <3> QED BY <3>1, <3>2, <1>0
  <2> QED BY <2>3
<1>5. \E x \in S : \A y \in S : x >= y
  BY <1>4 DEF Prio
<1> QED BY <1>5 DEF Max

\* A boost leaves priorities and pending priorities of their types.
LEMMA BoostTypes ==
    ASSUME TypeOK, NEW h \in Task, NEW n \in Prio
    PROVE  BoostedPrio(h, n) \in Prio /\ BoostedPend(h, n) \in [Prio -> Nat]
<1>1. prio[h] \in Prio /\ pend[h] \in [Prio -> Nat]
  BY DEF TypeOK
<1>2. \A k \in Prio : [pend[h] EXCEPT ![k] = @ + 1] \in [Prio -> Nat]
  BY <1>1
<1>3. Base[h] \in Int /\ prio[h] \in Int /\ n \in Int
  BY <1>1, SemConstants DEF Prio
<1>4. BoostedPrio(h, n) \in Prio
  BY <1>1 DEF BoostedPrio
<1>5. n <= Base[h] \/ (n > Base[h] /\ n <= prio[h]) \/ (n > Base[h] /\ n > prio[h])
  BY <1>3
<1>6. BoostedPend(h, n) \in {pend[h], [pend[h] EXCEPT ![n] = @ + 1], [pend[h] EXCEPT ![prio[h]] = @ + 1]}
  <2>1. CASE n <= Base[h]
    <3>1. ~(n > Base[h])
      BY <1>3, <2>1
    <3> QED BY <2>1, <3>1 DEF BoostedPend
  <2>2. CASE n > Base[h] /\ n <= prio[h]
    <3>1. ~(n <= Base[h]) /\ ~(n > prio[h])
      BY <1>3, <2>2
    <3> QED BY <2>2, <3>1 DEF BoostedPend
  <2>3. CASE n > Base[h] /\ n > prio[h]
    <3>1. ~(n <= Base[h]) /\ ~(n <= prio[h])
      BY <1>3, <2>3
    <3> QED BY <2>3, <3>1 DEF BoostedPend
  <2> QED BY <1>5, <2>1, <2>2, <2>3
<1> QED BY <1>1, <1>2, <1>4, <1>6

\* So does the restore of one holder.
LEMMA RestoreTypes ==
    ASSUME TypeOK, NEW h \in Task, NEW n \in Prio
    PROVE  /\ RestoredPrio(h, n) \in Prio
           /\ RestoredPend(h, n) \in [Prio -> Nat]
           /\ ~IsReset(h, n) => RestoredPrio(h, n) = prio[h]
<1>1. prio[h] \in Prio /\ pend[h] \in [Prio -> Nat] /\ Base[h] \in Prio
  BY SemConstants DEF TypeOK
<1>2. ASSUME pend[h] # NoPend
      PROVE  MaxPending(h) \in Prio /\ pend[h][MaxPending(h)] > 0
  <2> DEFINE S == {k \in Prio : pend[h][k] > 0}
  <2>1. S # {}
    BY <1>1, <1>2 DEF NoPend
  <2>2. Max(S) \in S
    BY <2>1, MaxOfPrios
  <2> QED BY <2>2 DEF MaxPending
<1>3. RestoredPrio(h, n) \in Prio
  BY <1>1, <1>2 DEF RestoredPrio
<1>4. RestoredPend(h, n) \in [Prio -> Nat]
  <2>1. [pend[h] EXCEPT ![n] = IF @ > 0 THEN @ - 1 ELSE @] \in [Prio -> Nat]
    BY <1>1
  <2>2. ASSUME pend[h] # NoPend
        PROVE  [pend[h] EXCEPT ![MaxPending(h)] = @ - 1] \in [Prio -> Nat]
    BY <1>1, <1>2, <2>2
  <2> QED BY <1>1, <2>1, <2>2 DEF RestoredPend
<1>5. ~IsReset(h, n) => RestoredPrio(h, n) = prio[h]
  BY DEF IsReset, RestoredPrio
<1> QED BY <1>3, <1>4, <1>5

\* The priorities a restore compares with are priorities.
LEMMA ComparedTypes ==
    ASSUME TypeOK, NEW w \in Task, NEW s, NEW H
    PROVE  OwnRestored(H, w) \in Prio /\ Compared(H, w, s) \subseteq Prio
<1>1. prio[w] \in Prio
  BY DEF TypeOK
<1>2. OwnRestored(H, w) \in Prio
  BY <1>1, RestoreTypes DEF OwnRestored
<1> QED BY <1>1, <1>2 DEF Compared

\* The restores of all holders keep the types, and change only the tasks that come down.
LEMMA RestoredTypes ==
    ASSUME TypeOK, NEW H, \A t \in H : t \in Task,
           NEW w \in Task, NEW n \in Prio, NEW n1 \in Prio
    PROVE  /\ Restored(H, w, n, n1) \in [Task -> Prio]
           /\ RestoredPends(H, w, n, n1) \in [Task -> [Prio -> Nat]]
           /\ Resets(H, w, n, n1) \in SUBSET Task
           /\ \A t \in Task \ Resets(H, w, n, n1) : Restored(H, w, n, n1)[t] = prio[t]
<1>1. prio \in [Task -> Prio] /\ pend \in [Task -> [Prio -> Nat]]
  BY DEF TypeOK
<1>2. \A t \in Task : AgainstOf(t, w, n, n1) \in Prio
  BY <1>1 DEF AgainstOf
<1>3. ASSUME NEW t \in Task
      PROVE  /\ Restored(H, w, n, n1)[t] \in Prio
             /\ RestoredPends(H, w, n, n1)[t] \in [Prio -> Nat]
  BY <1>1, <1>2, RestoreTypes DEF Restored, RestoredPends
<1>4. ASSUME NEW t \in Task, t \notin Resets(H, w, n, n1)
      PROVE  Restored(H, w, n, n1)[t] = prio[t]
  BY <1>2, <1>4, RestoreTypes DEF Restored, Resets
<1>5. /\ Restored(H, w, n, n1) = [t \in Task |-> Restored(H, w, n, n1)[t]]
      /\ RestoredPends(H, w, n, n1) = [t \in Task |-> RestoredPends(H, w, n, n1)[t]]
  BY DEF Restored, RestoredPends
<1>6. Resets(H, w, n, n1) \in SUBSET Task
  BY DEF Resets
<1> QED BY <1>3, <1>4, <1>5, <1>6

\* Tasks that join, move in and leave g_waitingforsemaphore.
LEMMA QueueTypes ==
    ASSUME NEW ah \in [Task -> SUBSET Task], NEW T, NEW w
    PROVE  /\ Enqueue(ah, T) \in [Task -> SUBSET Task]
           /\ Requeue(ah, T) \in [Task -> SUBSET Task]
           /\ Dequeue(ah, w) \in [Task -> SUBSET Task]
BY DEF Enqueue, Requeue, Dequeue

-----------------------------------------------------------------------------
(***************************************************************************)
(* Every action preserves the invariant.                                   *)
(***************************************************************************)
TaskStates == {"READY", "PENDING"} \cup Blocked

\* The scheduler after a step in which st was the effect of the call on the
\* states of the tasks, before the primitives moved any.
Moved(st) ==
    /\ cur' \in Task
    /\ state' \in [Task -> TaskStates]
    /\ RunningIsHighest'
    /\ \A t \in Task : state'[t] = "WAIT_SEM" <=> st[t] = "WAIT_SEM"

\* What the scheduling primitives do to the states is a move.
LEMMA MovedBy ==
    ASSUME NEW st \in [Task -> TaskStates], Kept(st, state'), Ordered(cur', state', prio', lock')
    PROVE  Moved(st)
<1>1. cur' \in Task /\ state' \in [Task -> StateSet] /\ RunningIsHighest'
  BY DEF Ordered, RunningIsHighest
<1>2. \A t \in Task : state'[t] \in TaskStates
  BY DEF Kept, TaskStates
<1>3. \A t \in Task : state'[t] = "WAIT_SEM" <=> st[t] = "WAIT_SEM"
  BY DEF Kept
<1> QED BY <1>1, <1>2, <1>3 DEF Moved

\* The running task is ready, and does not wait.
LEMMA CurFacts ==
    ASSUME SemInv
    PROVE  /\ cur \in Task /\ state \in [Task -> TaskStates] /\ state[cur] = "READY"
           /\ Ordered(cur, state, prio, lock)
           /\ waitsem[cur] = NoSem
           /\ TaskStates \subseteq StateSet
<1>1. cur \in Task /\ state \in [Task -> TaskStates] /\ state[cur] = "READY"
  BY DEF SemInv, TypeOK, RunningIsHighest, TaskStates
<1>2. TaskStates \subseteq StateSet
  BY DEF TaskStates, StateSet
<1>3. state \in [Task -> StateSet]
  BY <1>1, <1>2
<1>4. Ordered(cur, state, prio, lock)
  BY <1>1, <1>3 DEF SemInv, RunningIsHighest, Ordered
<1> QED BY <1>1, <1>2, <1>4 DEF SemInv, WaitInv

\* A scheduler call that leaves the semaphores alone.
LEMMA SchedulerStep ==
    ASSUME SemInv, Moved(state), prio' \in [Task -> Prio], lock' \in [Task -> Nat], UNCHANGED semVars,
           \A t \in Task : pc[t] # "run" => lock'[t] = lock[t]
    PROVE  SemInv'
<1>1. TypeOK'
  BY DEF SemInv, TypeOK, semVars, Moved, TaskStates
<1>2. WaitInv'
  BY DEF SemInv, WaitInv, semVars, Moved
<1>3. CountInv(semcount, waitsem)'
  BY DEF SemInv, CountInv, semVars
<1>4. LockInv'
  BY DEF SemInv, LockInv, semVars
<1> QED BY <1>1, <1>2, <1>3, <1>4 DEF SemInv, Moved

LEMMA StepSchedLock == ASSUME SemInv, SchedLock PROVE SemInv'
<1>1. lock' \in [Task -> Nat] /\ lock'[cur] > 0
  BY DEF SchedLock, SemInv, TypeOK
<1>2. Ordered(cur', state', prio', lock')
  BY <1>1, CurFacts DEF SchedLock, Ordered
<1>3. Kept(state, state')
  BY DEF SchedLock, Kept
<1>4. Moved(state)
  BY <1>2, <1>3, MovedBy, CurFacts
<1>5. \A t \in Task : pc[t] # "run" => lock'[t] = lock[t]
  BY DEF SchedLock, Running, SemInv, TypeOK
<1> QED BY <1>1, <1>4, <1>5, SchedulerStep DEF SchedLock, SemInv, TypeOK

\* sched_unlock, or the one at the end of a semaphore call.
LEMMA UnlockMoves ==
    ASSUME SemInv, NEW st \in [Task -> TaskStates], NEW q \in [Task -> Prio], prio' = q,
           NEW l \in [Task -> Nat], lock' = l,
           l[cur] > 0 => Ordered(cur, st, q, l), Switch(AfterUnlock(cur, st, q, l))
    PROVE  Moved(st)
<1>1. PICK r \in AfterUnlock(cur, st, q, l) : cur' = r[1] /\ state' = r[2]
  BY DEF Switch
<1>2. st \in [Task -> StateSet]
  BY CurFacts
<1>3. Ordered(r[1], r[2], q, l) /\ Kept(st, r[2])
  BY <1>1, <1>2, AfterUnlockOrdered, AfterUnlockKeeps
<1> QED BY <1>1, <1>3, MovedBy

\* The running task blocks.
LEMMA BlockMoves ==
    ASSUME SemInv, NEW st \in [Task -> TaskStates], NEW q \in [Task -> Prio], prio' = q,
           Switch(AfterBlock(st, q))
    PROVE  Moved(st)
<1>1. PICK r \in AfterBlock(st, q) : cur' = r[1] /\ state' = r[2]
  BY DEF Switch
<1>2. st \in [Task -> StateSet]
  BY CurFacts
<1>3. Ordered(r[1], r[2], q, lock') /\ Kept(st, r[2])
  BY <1>1, <1>2, AfterBlockOrdered, AfterBlockKeeps
<1> QED BY <1>1, <1>3, MovedBy

LEMMA StepSchedUnlock == ASSUME SemInv, SchedUnlock PROVE SemInv'
<1>1. lock' \in [Task -> Nat] /\ prio' = prio /\ prio \in [Task -> Prio]
  BY DEF SchedUnlock, SemInv, TypeOK
<1>2. lock'[cur] > 0 => Ordered(cur, state, prio, lock')
  BY CurFacts DEF Ordered
<1>3. Moved(state)
  BY <1>1, <1>2, UnlockMoves, CurFacts DEF SchedUnlock
<1>4. \A t \in Task : pc[t] # "run" => lock'[t] = lock[t]
  BY DEF SchedUnlock, Running, SemInv, TypeOK
<1> QED BY <1>1, <1>3, <1>4, SchedulerStep DEF SchedUnlock

LEMMA StepSchedYield == ASSUME SemInv, SchedYield PROVE SemInv'
<1>1. lock' = lock /\ prio' = prio /\ prio \in [Task -> Prio] /\ lock \in [Task -> Nat]
  BY DEF SchedYield, SemInv, TypeOK
<1>2. PICK r \in AfterReprioritize(cur, state, prio, lock, {cur}) : cur' = r[1] /\ state' = r[2]
  BY DEF SchedYield, Switch
<1>3. Ordered(cur', state', prio', lock') /\ Kept(state, state')
  BY <1>1, <1>2, CurFacts, AfterReprioritizeOrdered, AfterReprioritizeKeeps
<1>4. Moved(state)
  BY <1>3, MovedBy, CurFacts
<1> QED BY <1>1, <1>4, SchedulerStep DEF SchedYield

LEMMA StepSleep == ASSUME SemInv, Sleep PROVE SemInv'
<1> DEFINE st == [state EXCEPT ![cur] = "WAIT_SIG"]
<1>1. lock' = lock /\ lock \in [Task -> Nat] /\ prio' = prio /\ prio \in [Task -> Prio]
  BY DEF Sleep, SemInv, TypeOK
<1>2. st \in [Task -> TaskStates]
  BY CurFacts, SemConstants DEF TaskStates
<1>3. Moved(st)
  BY <1>1, <1>2, BlockMoves DEF Sleep
<1>4. \A t \in Task : st[t] = "WAIT_SEM" <=> state[t] = "WAIT_SEM"
  BY CurFacts
<1>5. Moved(state)
  BY <1>3, <1>4 DEF Moved
<1> QED BY <1>1, <1>5, SchedulerStep DEF Sleep

LEMMA AddReadyMoves ==
    ASSUME SemInv, NEW w \in Task, state[w] \in Blocked,
           state' = AddReady(cur, state, prio, lock, w), cur' = HeadAfterAdd(cur, prio, lock, w),
           UNCHANGED <<prio, lock>>
    PROVE  Moved([state EXCEPT ![w] = "READY"])
<1>1. w # cur
  BY CurFacts, SemConstants
<1>2. Ordered(cur', state', prio', lock')
  BY <1>1, CurFacts, AddReadyOrdered DEF SemInv, TypeOK
<1>3. Kept([state EXCEPT ![w] = "READY"], state')
  BY CurFacts DEF Kept, AddReady
<1>4. [state EXCEPT ![w] = "READY"] \in [Task -> TaskStates]
  BY CurFacts DEF TaskStates
<1> QED BY <1>2, <1>3, <1>4, MovedBy

LEMMA StepWake == ASSUME SemInv, NEW t \in Task, Wake(t) PROVE SemInv'
<1>1. Moved([state EXCEPT ![t] = "READY"])
  BY AddReadyMoves, SemConstants DEF Wake
<1>2. Moved(state)
  BY <1>1, CurFacts DEF Moved, Wake
<1> QED BY <1>2, SchedulerStep DEF Wake, SemInv, TypeOK

\* A count is there: sem_trywait and the other waits that do not block.
LEMMA StepSemTryWait == ASSUME SemInv, NEW s \in Sem, SemTryWait(s) PROVE SemInv'
<1> USE DEF SemTryWait, TakeCount
<1>1. TypeOK'
  <2>1. cur \in Task /\ semcount' \in [Sem -> Int] /\ own' \in [Task -> SUBSET Mutex]
    BY DEF SemInv, TypeOK
  <2>2. holders' \in [Sem -> SUBSET Task]
    BY <2>1 DEF SemInv, TypeOK, AddHolder
  <2>3. counts' \in [Sem -> [Task -> Nat]]
    BY <2>1 DEF SemInv, TypeOK, AddCount
  <2> QED BY <2>1, <2>2, <2>3 DEF SemInv, TypeOK, schedVars
<1>2. RunningIsHighest'
  BY DEF SemInv, RunningIsHighest, schedVars
<1>3. WaitInv'
  <2>1. pc[cur] = "run" /\ \A t \in Task \ {cur} : own'[t] = own[t]
    BY DEF SemInv, TypeOK, MayWait, Running
  <2> QED BY <2>1 DEF SemInv, WaitInv, schedVars
<1>4. CountInv(semcount', waitsem')
  <2>1. semcount \in [Sem -> Int] /\ semcount[s] >= 0 /\ semcount[s] - 1 \in Nat
    BY DEF SemInv, TypeOK
  <2>2. CountInv([semcount EXCEPT ![s] = semcount[s] - 1], waitsem)
    BY <2>1, SameCounts DEF SemInv
  <2> QED BY <2>2
<1>5. LockInv'
  BY DEF SemInv, LockInv, schedVars
<1> QED BY <1>1, <1>2, <1>3, <1>4, <1>5 DEF SemInv

\* The running task joins the waiters of s; what is common to the two blocking waits.
LEMMA BlocksOn ==
    ASSUME SemInv, NEW s \in Sem, s \notin own[cur], semcount[s] <= 0,
           NEW k \in {"wait", "waitisr"},
           semcount' = [semcount EXCEPT ![s] = @ - 1],
           waitsem' = [waitsem EXCEPT ![cur] = s],
           pterrno' = [pterrno EXCEPT ![cur] = "OK"],
           pc' = [pc EXCEPT ![cur] = k],
           psem' = [psem EXCEPT ![cur] = s],
           own' = own,
           Moved([state EXCEPT ![cur] = "WAIT_SEM"])
    PROVE  WaitInv' /\ CountInv(semcount', waitsem')
<1>1. CountInv(semcount', waitsem')
  BY WaitCounts, CurFacts DEF SemInv, TypeOK
<1>2. s # NoSem
  BY SemConstants
<1>3. WaitInv'
  <2>1. ASSUME NEW t \in Task
        PROVE  /\ waitsem'[t] # NoSem <=> state'[t] = "WAIT_SEM"
               /\ waitsem'[t] # NoSem =>
                    pc'[t] \in {"wait", "waitisr"} /\ psem'[t] = waitsem'[t] /\ pterrno'[t] = "OK"
               /\ pc'[t] \in {"wait", "waitisr"} => psem'[t] \in Sem \ own'[t]
    <3>1. CASE t = cur
      BY <1>2, <3>1, CurFacts DEF SemInv, TypeOK, Moved
    <3>2. CASE t # cur
      BY <3>2, CurFacts DEF SemInv, TypeOK, WaitInv, Moved
    <3> QED BY <3>1, <3>2
  <2> QED BY <2>1 DEF WaitInv
<1> QED BY <1>1, <1>3

\* The running task may come to wait.
LEMMA BlockedStates ==
    ASSUME SemInv
    PROVE  [state EXCEPT ![cur] = "WAIT_SEM"] \in [Task -> TaskStates]
BY CurFacts, SemConstants DEF TaskStates

LEMMA StepSemBlock ==
    ASSUME SemInv, NEW s \in Sem, NEW timed \in BOOLEAN, SemBlock(s, timed)
    PROVE  SemInv'
<1> USE DEF SemBlock
<1>1. cur \in Task /\ prio[cur] \in Prio
  BY DEF SemInv, TypeOK
<1>2. prio' \in [Task -> Prio] /\ pend' \in [Task -> [Prio -> Nat]]
  <2>1. \A t \in Task : /\ BoostedPrio(t, prio[cur]) \in Prio
                         /\ BoostedPend(t, prio[cur]) \in [Prio -> Nat]
    BY <1>1, BoostTypes DEF SemInv
  <2> QED BY <2>1 DEF SemInv, TypeOK
<1>3. Moved([state EXCEPT ![cur] = "WAIT_SEM"])
  BY <1>2, BlockMoves, BlockedStates
<1>4. TypeOK'
  <2>1. ahead' \in [Task -> SUBSET Task]
    BY QueueTypes DEF SemInv, TypeOK
  <2>2. /\ semcount' \in [Sem -> Int] /\ waitsem' \in [Task -> Sem \cup {NoSem}]
        /\ lock' \in [Task -> Nat] /\ psem' \in [Task -> Sem \cup {NoSem}]
    BY <1>1 DEF SemInv, TypeOK
  <2>3. /\ pterrno' \in [Task -> {"OK", "EINTR", "ETIMEDOUT"}]
        /\ waitdog' \in [Task -> BOOLEAN] /\ pc' \in [Task -> PC]
    BY <1>1 DEF SemInv, TypeOK, PC
  <2> QED BY <1>2, <1>3, <2>1, <2>2, <2>3 DEF SemInv, TypeOK, Moved, TaskStates
<1>5. WaitInv' /\ CountInv(semcount', waitsem')
  BY <1>3, BlocksOn DEF MayWait
<1>6. LockInv'
  <2>1. lock'[cur] > 0 /\ \A t \in Task \ {cur} : lock'[t] = lock[t] /\ pc'[t] = pc[t]
    BY <1>1 DEF SemInv, TypeOK
  <2> QED BY <2>1 DEF SemInv, LockInv
<1> QED BY <1>3, <1>4, <1>5, <1>6 DEF SemInv, Moved

LEMMA StepSemWaitForIsr == ASSUME SemInv, NEW s \in Sem, SemWaitForIsr(s) PROVE SemInv'
<1> USE DEF SemWaitForIsr
<1>0. cur \in Task /\ semcount \in [Sem -> Int] /\ semcount' \in [Sem -> Int]
  BY DEF SemInv, TypeOK
<1>1. CASE semcount[s] > 0
  <2>1. TypeOK' /\ RunningIsHighest'
    BY <1>0, <1>1 DEF SemInv, TypeOK, RunningIsHighest, schedVars
  <2>2. WaitInv'
    BY <1>1 DEF SemInv, WaitInv, schedVars
  <2>3. semcount[s] >= 0 /\ semcount[s] - 1 \in Nat
    BY <1>0, <1>1
  <2>4. CountInv([semcount EXCEPT ![s] = semcount[s] - 1], waitsem)
    BY <1>0, <2>3, SameCounts DEF SemInv
  <2>5. LockInv'
    BY <1>1 DEF SemInv, LockInv, schedVars
  <2> QED BY <1>1, <2>1, <2>2, <2>4, <2>5 DEF SemInv
<1>2. CASE ~(semcount[s] > 0)
  <2>0. /\ waitsem' = [waitsem EXCEPT ![cur] = s] /\ psem' = [psem EXCEPT ![cur] = s]
        /\ pterrno' = [pterrno EXCEPT ![cur] = "OK"] /\ pc' = [pc EXCEPT ![cur] = "waitisr"]
        /\ ahead' = Enqueue(ahead, {cur}) /\ UNCHANGED <<prio, lock>>
    BY <1>2
  <2>1. semcount[s] <= 0
    BY <1>0, <1>2
  <2>2. prio' = prio /\ prio \in [Task -> Prio]
    BY <2>0 DEF SemInv, TypeOK
  <2>3. Moved([state EXCEPT ![cur] = "WAIT_SEM"])
    BY <1>2, <2>2, BlockMoves, BlockedStates
  <2>4. TypeOK'
    <3>1. ahead' \in [Task -> SUBSET Task]
      BY <2>0, QueueTypes DEF SemInv, TypeOK
    <3>2. /\ waitsem' \in [Task -> Sem \cup {NoSem}] /\ psem' \in [Task -> Sem \cup {NoSem}]
          /\ pterrno' \in [Task -> {"OK", "EINTR", "ETIMEDOUT"}] /\ pc' \in [Task -> PC]
      BY <1>0, <2>0 DEF SemInv, TypeOK, PC
    <3>3. cur' \in Task /\ state' \in [Task -> {"READY", "PENDING"} \cup Blocked]
      BY <2>3 DEF Moved, TaskStates
    <3>4. /\ lock' \in [Task -> Nat] /\ holders' \in [Sem -> SUBSET Task]
          /\ counts' \in [Sem -> [Task -> Nat]] /\ pend' \in [Task -> [Prio -> Nat]]
          /\ waitdog' \in [Task -> BOOLEAN] /\ own' \in [Task -> SUBSET Mutex]
      BY <2>0 DEF SemInv, TypeOK
    <3> HIDE DEF SemWaitForIsr
    <3> QED BY <1>0, <2>2, <3>1, <3>2, <3>3, <3>4 DEF TypeOK
  <2>5. WaitInv' /\ CountInv(semcount', waitsem')
    BY <2>0, <2>1, <2>3, BlocksOn DEF MayWait
  <2>6. LockInv'
    BY <1>0, <2>0 DEF SemInv, TypeOK, LockInv
  <2> QED BY <2>3, <2>4, <2>5, <2>6 DEF SemInv, Moved
<1> QED BY <1>1, <1>2

LEMMA StepWaitReturn == ASSUME SemInv, WaitReturn PROVE SemInv'
<1> USE DEF WaitReturn
<1>0. lock' \in [Task -> Nat]
  <2>1. CASE pc[cur] = "wait"
    <3>1. lock' = [lock EXCEPT ![cur] = @ - 1]
      BY <2>1
    <3>2. lock[cur] > 0
      BY <2>1 DEF SemInv, TypeOK, LockInv
    <3> QED BY <3>1, <3>2 DEF SemInv, TypeOK
  <2>2. CASE pc[cur] # "wait"
    BY <2>2 DEF SemInv, TypeOK
  <2> QED BY <2>1, <2>2
<1>1. /\ cur \in Task /\ prio \in [Task -> Prio] /\ lock' \in [Task -> Nat]
      /\ waitdog' \in [Task -> BOOLEAN]
  BY <1>0 DEF SemInv, TypeOK
<1>2. Moved(state)
  <2>1. CASE pc[cur] = "wait"
    <3>1. lock'[cur] > 0 => Ordered(cur, state, prio, lock')
      BY CurFacts DEF Ordered
    <3> QED BY <1>1, <2>1, <3>1, UnlockMoves, CurFacts
  <2>2. CASE pc[cur] # "wait"
    BY <2>2, CurFacts DEF Moved, SemInv, RunningIsHighest
  <2> QED BY <2>1, <2>2
<1>3. TypeOK'
  <2>1. pc' \in [Task -> PC] /\ psem' \in [Task -> Sem \cup {NoSem}]
    BY DEF SemInv, TypeOK, PC
  <2>2. own' \in [Task -> SUBSET Mutex]
    BY DEF SemInv, TypeOK
  <2> QED BY <1>1, <1>2, <2>1, <2>2 DEF SemInv, TypeOK, Moved, TaskStates
<1>4. WaitInv'
  <2>1. pc'[cur] \in {"run", "timed"} /\ \A t \in Task \ {cur} : pc'[t] = pc[t] /\ psem'[t] = psem[t] /\ own'[t] = own[t]
    BY DEF SemInv, TypeOK
  <2> QED BY <1>2, <2>1, CurFacts DEF SemInv, WaitInv, Moved
<1>5. CountInv(semcount', waitsem')
  BY DEF SemInv
<1>6. LockInv'
  <2>1. pc'[cur] \in {"run", "timed"} /\ \A t \in Task \ {cur} : pc'[t] = pc[t] /\ lock'[t] = lock[t]
    BY DEF SemInv, TypeOK
  <2> QED BY <2>1 DEF SemInv, LockInv
<1> QED BY <1>2, <1>3, <1>4, <1>5, <1>6 DEF SemInv, Moved

LEMMA StepTimedReturn == ASSUME SemInv, TimedReturn PROVE SemInv'
<1> USE DEF TimedReturn
<1>1. pc'[cur] = "run" /\ \A t \in Task \ {cur} : pc'[t] = pc[t]
  BY DEF SemInv, TypeOK
<1>2. TypeOK'
  <2>1. pc' \in [Task -> PC] /\ waitdog' \in [Task -> BOOLEAN]
    BY DEF SemInv, TypeOK, PC, WdCancel
  <2> QED BY <2>1 DEF SemInv, TypeOK, schedVars
<1>3. RunningIsHighest' /\ CountInv(semcount', waitsem')
  BY DEF SemInv, RunningIsHighest, schedVars
<1>4. WaitInv'
  BY <1>1, CurFacts DEF SemInv, WaitInv, schedVars
<1>5. LockInv'
  BY <1>1 DEF SemInv, LockInv, schedVars
<1> QED BY <1>2, <1>3, <1>4, <1>5 DEF SemInv

\* An entry that is freed leaves a set of holders.
LEMMA FreeEntryType ==
    ASSUME NEW hs \in [Sem -> SUBSET Task], NEW cnt, NEW t, NEW s
    PROVE  FreeEntry(hs, cnt, t, s) \in [Sem -> SUBSET Task]
BY DEF FreeEntry

LEMMA StepPostReturn == ASSUME SemInv, PostReturn PROVE SemInv'
<1> USE DEF PostReturn
<1>1. cur \in Task /\ prio \in [Task -> Prio] /\ lock' \in [Task -> Nat]
  <2>1. lock[cur] > 0
    BY DEF SemInv, TypeOK, LockInv
  <2> QED BY <2>1 DEF SemInv, TypeOK
<1>2. Moved(state)
  <2>1. lock'[cur] > 0 => Ordered(cur, state, prio, lock')
    BY CurFacts DEF Ordered
  <2> QED BY <1>1, <2>1, UnlockMoves, CurFacts
<1>3. TypeOK'
  <2>1. pc' \in [Task -> PC] /\ psem' \in [Task -> Sem \cup {NoSem}]
    BY DEF SemInv, TypeOK, PC
  <2>2. pend' \in [Task -> [Prio -> Nat]]
    BY DEF SemInv, TypeOK, NoPend
  <2>3. holders' \in [Sem -> SUBSET Task]
    BY FreeEntryType DEF SemInv, TypeOK
  <2> QED BY <1>1, <1>2, <2>1, <2>2, <2>3 DEF SemInv, TypeOK, Moved, TaskStates
<1>4. WaitInv'
  <2>1. pc'[cur] = "run" /\ \A t \in Task \ {cur} : pc'[t] = pc[t] /\ psem'[t] = psem[t]
    BY DEF SemInv, TypeOK
  <2> QED BY <1>2, <2>1, CurFacts DEF SemInv, WaitInv, Moved
<1>5. CountInv(semcount', waitsem')
  BY DEF SemInv
<1>6. LockInv'
  <2>1. pc'[cur] = "run" /\ \A t \in Task \ {cur} : pc'[t] = pc[t] /\ lock'[t] = lock[t]
    BY DEF SemInv, TypeOK
  <2> QED BY <2>1 DEF SemInv, LockInv
<1> QED BY <1>2, <1>3, <1>4, <1>5, <1>6 DEF SemInv, Moved

-----------------------------------------------------------------------------
(***************************************************************************)
(* A wait of w for s ends, by a post or by a cancellation.                 *)
(***************************************************************************)
LEMMA MovedKept ==
    ASSUME NEW st, NEW st2, Kept(st, st2), Moved(st2)
    PROVE  Moved(st)
<1>1. \A t \in Task : st2[t] = "WAIT_SEM" <=> st[t] = "WAIT_SEM"
  BY DEF Kept
<1> QED BY <1>1 DEF Moved

\* What is known of a task that waits for a semaphore.
LEMMA WaiterFacts ==
    ASSUME SemInv, NEW w \in Task, waitsem[w] # NoSem
    PROVE  /\ w # cur /\ state[w] = "WAIT_SEM" /\ state[w] \in Blocked /\ waitsem[w] \in Sem
           /\ [state EXCEPT ![w] = "READY"] \in [Task -> TaskStates]
           /\ semcount[waitsem[w]] < 0
<1>1. w # cur /\ state[w] = "WAIT_SEM" /\ waitsem[w] \in Sem
  BY CurFacts DEF SemInv, TypeOK, WaitInv
<1>2. state[w] \in Blocked
  BY <1>1, SemConstants
<1>3. [state EXCEPT ![w] = "READY"] \in [Task -> TaskStates]
  BY CurFacts DEF TaskStates
<1>4. semcount[waitsem[w]] < 0
  BY <1>1, WakeCounts DEF SemInv, TypeOK
<1> QED BY <1>1, <1>2, <1>3, <1>4

\* A wait that ends, by a post or a cancellation, keeps waits and counts in agreement.
LEMMA WaitEnds ==
    ASSUME SemInv, NEW w \in Task, NEW s \in Sem, waitsem[w] = s,
           semcount' = [semcount EXCEPT ![s] = @ + 1],
           waitsem' = [waitsem EXCEPT ![w] = NoSem],
           \A t \in Task \ {w} : pterrno'[t] = pterrno[t],
           \A t \in Task : own'[t] \subseteq own[t],
           \A t \in Task : (pc'[t] = pc[t] /\ psem'[t] = psem[t])
                           \/ (t = cur /\ pc'[t] \notin {"wait", "waitisr"}),
           Moved([state EXCEPT ![w] = "READY"])
    PROVE  WaitInv' /\ CountInv(semcount', waitsem')
<1>1. CountInv(semcount', waitsem')
  BY WakeCounts DEF SemInv, TypeOK
<1>2. s # NoSem
  BY SemConstants
<1>3. ASSUME NEW t \in Task
      PROVE  /\ waitsem'[t] # NoSem <=> state'[t] = "WAIT_SEM"
             /\ waitsem'[t] # NoSem =>
                  pc'[t] \in {"wait", "waitisr"} /\ psem'[t] = waitsem'[t] /\ pterrno'[t] = "OK"
             /\ pc'[t] \in {"wait", "waitisr"} => psem'[t] \in Sem \ own'[t]
  <2>1. pc'[t] \in {"wait", "waitisr"} => psem'[t] \in Sem \ own'[t]
    BY DEF SemInv, WaitInv
  <2>2. CASE t = w
    <3>1. waitsem'[t] = NoSem /\ state'[t] # "WAIT_SEM"
      BY <2>2, CurFacts DEF SemInv, TypeOK, Moved
    <3> QED BY <2>1, <3>1
  <2>3. CASE t # w
    <3>1. waitsem'[t] = waitsem[t] /\ (state'[t] = "WAIT_SEM" <=> state[t] = "WAIT_SEM")
      BY <2>3, CurFacts DEF SemInv, TypeOK, Moved
    <3>2. waitsem[t] # NoSem => t # cur
      BY CurFacts
    <3> QED BY <2>1, <2>3, <3>1, <3>2 DEF SemInv, WaitInv
  <2> QED BY <2>2, <2>3
<1>4. WaitInv'
  BY <1>3 DEF WaitInv
<1> QED BY <1>1, <1>4

\* The task woken under the lock of the running task does not preempt it.
LEMMA LockedAdd ==
    ASSUME NEW st \in [Task -> TaskStates], NEW p \in [Task -> Prio], NEW l \in [Task -> Nat],
           Ordered(cur, st, p, l), l[cur] > 0, NEW w \in Task \ {cur}
    PROVE  LET st1 == AddReady(cur, st, p, l, w)
           IN /\ Ordered(cur, st1, p, l)
              /\ Kept([st EXCEPT ![w] = "READY"], st1)
              /\ st1 \in [Task -> TaskStates]
<1>1. HeadAfterAdd(cur, p, l, w) = cur
  BY DEF HeadAfterAdd, Ordered
<1>2. Ordered(cur, AddReady(cur, st, p, l, w), p, l)
  BY <1>1, AddReadyOrdered
<1>3. Kept([st EXCEPT ![w] = "READY"], AddReady(cur, st, p, l, w))
  BY DEF Kept, AddReady
<1>4. AddReady(cur, st, p, l, w) \in [Task -> TaskStates]
  BY DEF AddReady, TaskStates
<1> QED BY <1>2, <1>3, <1>4

\* The lock counts inside a call that has locked the scheduler once more.
LEMMA LockedOrdered ==
    ASSUME SemInv, NEW l, l = [lock EXCEPT ![cur] = @ + 1]
    PROVE  /\ l \in [Task -> Nat] /\ l[cur] > 0
           /\ Ordered(cur, state, prio, l)
<1>1. l \in [Task -> Nat] /\ l[cur] > 0
  BY DEF SemInv, TypeOK
<1> QED BY <1>1, CurFacts DEF Ordered

\* Tasks that are held off keep their types.
LEMMA HeldOffType ==
    ASSUME NEW st \in [Task -> TaskStates], NEW p, NEW T
    PROVE  HeldOff(cur, st, p, T) \in [Task -> TaskStates]
BY DEF HeldOff, TaskStates

\* The holder lists and counts keep their types.
LEMMA HolderTypes ==
    ASSUME SemInv, NEW w \in Task, NEW s \in Sem
    PROVE  /\ AddHolder(w, s) \in [Sem -> SUBSET Task]
           /\ ReleaseCount(s) \in [Sem -> [Task -> Nat]]
           /\ AddCount(ReleaseCount(s), w, s) \in [Sem -> [Task -> Nat]]
<1>1. AddHolder(w, s) \in [Sem -> SUBSET Task]
  BY DEF SemInv, TypeOK, AddHolder
<1>2. ReleaseCount(s) \in [Sem -> [Task -> Nat]]
  BY DEF SemInv, TypeOK, ReleaseCount
<1>3. AddCount(ReleaseCount(s), w, s) \in [Sem -> [Task -> Nat]]
  BY <1>2 DEF AddCount
<1> QED BY <1>1, <1>2, <1>3

\* The priorities of the tasks of T change, and the running task may yield.
LEMMA ReprioritizeMoves ==
    ASSUME NEW c, NEW st \in [Task -> TaskStates], NEW p, NEW q \in [Task -> Prio], prio' = q,
           NEW l \in [Task -> Nat], lock' = l, Ordered(c, st, p, l),
           NEW T \in SUBSET Task, \A t \in Task \ T : q[t] = p[t],
           Switch(AfterReprioritize(c, st, q, l, T))
    PROVE  Moved(st)
<1>1. PICK r \in AfterReprioritize(c, st, q, l, T) : cur' = r[1] /\ state' = r[2]
  BY DEF Switch
<1>2. Ordered(r[1], r[2], q, l)
  BY <1>1, AfterReprioritizeOrdered
<1>3. Kept(st, r[2])
  BY <1>1, AfterReprioritizeKeeps
<1> QED BY <1>1, <1>2, <1>3, MovedBy

\* So is what a poster that comes down does.
LEMMA YieldMoves ==
    ASSUME NEW st \in [Task -> TaskStates], NEW p, NEW q \in [Task -> Prio], prio' = q,
           NEW l \in [Task -> Nat], lock' = l, Ordered(cur, st, p, l),
           \A t \in Task : t = cur \/ q[t] = p[t],
           Switch(AfterReprioritize(cur, st, q, l, {cur}))
    PROVE  Moved(st)
<1> DEFINE T == {cur}
<1>1. T \in SUBSET Task
  BY DEF Ordered
<1>2. \A t \in Task \ T : q[t] = p[t]
  OBVIOUS
<1>3. Switch(AfterReprioritize(cur, st, q, l, T))
  OBVIOUS
<1> HIDE DEF T
<1> QED BY <1>1, <1>2, <1>3, ReprioritizeMoves

\* The scheduler at the end of PostTo: w was made ready under the lock, the
\* other holders came down, then the poster.
LEMMA PostMoves ==
    ASSUME SemInv, NEW w \in Task, waitsem[w] # NoSem,
           NEW l, l = [lock EXCEPT ![cur] = @ + 1],
           NEW q \in [Task -> Prio], NEW reset \in SUBSET Task,
           \A t \in Task \ reset : q[t] = prio[t],
           NEW st2, st2 = HeldOff(cur, AddReady(cur, state, prio, l, w),
                                  [q EXCEPT ![cur] = prio[cur]], reset \ {cur}),
           prio' = q,
           \/ /\ Yields(cur, st2, q, reset)
              /\ lock' = l /\ Switch(AfterReprioritize(cur, st2, q, l, {cur}))
           \/ /\ ~Yields(cur, st2, q, reset)
              /\ lock' = lock /\ Switch(AfterUnlock(cur, st2, q, lock))
    PROVE  Moved([state EXCEPT ![w] = "READY"])
<1> DEFINE stw == [state EXCEPT ![w] = "READY"]
           st1 == AddReady(cur, state, prio, l, w)
           q1 == [q EXCEPT ![cur] = prio[cur]]
           T1 == reset \ {cur}
<1>1. prio \in [Task -> Prio] /\ lock \in [Task -> Nat] /\ cur \in Task
  BY DEF SemInv, TypeOK
<1>2. l \in [Task -> Nat] /\ l[cur] > 0 /\ Ordered(cur, state, prio, l)
  BY LockedOrdered
<1>3. Ordered(cur, st1, prio, l) /\ Kept(stw, st1) /\ st1 \in [Task -> TaskStates]
  BY <1>1, <1>2, CurFacts, WaiterFacts, LockedAdd
<1>4. q1 \in [Task -> Prio] /\ \A t \in Task \ T1 : q1[t] = prio[t]
  BY <1>1
<1>5. ~Yields(cur, st1, q1, T1)
  BY DEF Yields
<1>6. Ordered(cur, st2, q1, l)
  <2> HIDE DEF st1, q1, T1
  <2>1. T1 \in SUBSET Task
    BY DEF T1
  <2>2. Ordered(cur, HeldOff(cur, st1, q1, T1), q1, l)
    BY <1>2, <1>3, <1>4, <1>5, <2>1, HeldOffOrdered
  <2> QED BY <2>2 DEF st1, q1, T1
<1>7. Kept(stw, st2) /\ st2 \in [Task -> TaskStates]
  <2>1. Kept(st1, st2) /\ st2 \in [Task -> TaskStates]
    BY <1>3, HeldOffKeeps, HeldOffType
  <2> QED BY <1>3, <2>1, KeptTrans
<1>8. \A t \in Task \ {cur} : q[t] = q1[t]
  OBVIOUS
<1>9. stw \in [Task -> TaskStates]
  BY WaiterFacts
<1> HIDE DEF stw, st1, q1, T1
<1>10. CASE Yields(cur, st2, q, reset)
  <2>1. lock' = l /\ Switch(AfterReprioritize(cur, st2, q, l, {cur}))
    BY <1>10
  <2>2. \A t \in Task : t = cur \/ q[t] = q1[t]
    BY <1>8
  <2>3. Moved(st2)
    BY <1>2, <1>6, <1>7, <2>1, <2>2, YieldMoves
  <2> QED BY <1>7, <2>3, MovedKept DEF stw
<1>11. CASE ~Yields(cur, st2, q, reset)
  <2>1. Ordered(cur, st2, q, l)
    <3>1. CASE cur \in reset
      <4>1. ~Yields(cur, st2, q, {cur})
        BY <1>11, <3>1 DEF Yields
      <4>2. Ordered(cur, HeldOff(cur, st2, q, {cur}), q, l)
        BY <1>1, <1>2, <1>6, <1>8, <4>1, HeldOffOrdered
      <4>3. HeldOff(cur, st2, q, {cur}) = st2
        BY <1>7 DEF HeldOff, Raised, Others
      <4> QED BY <4>2, <4>3
    <3>2. CASE cur \notin reset
      <4>1. q[cur] = q1[cur]
        BY <1>1, <3>2 DEF q1
      <4>2. \A t \in Task : q[t] = q1[t]
        BY <1>8, <4>1
      <4> QED BY <1>6, <4>2 DEF Ordered
    <3> QED BY <3>1, <3>2
  <2>2. lock[cur] > 0 => Ordered(cur, st2, q, lock)
    BY <2>1 DEF Ordered
  <2>3. lock' = lock /\ Switch(AfterUnlock(cur, st2, q, lock))
    BY <1>11
  <2>4. Moved(st2)
    BY <1>1, <1>7, <2>2, <2>3, UnlockMoves
  <2> QED BY <1>7, <2>4, MovedKept DEF stw
<1> QED BY <1>10, <1>11

\* The restores of a wait that ends, over the entries of H.
LEMMA RestoringTypes ==
    ASSUME SemInv, NEW w \in Task, NEW s, NEW H, \A t \in H : t \in Task,
           NEW n \in Compared(H, w, s), NEW n1, n1 \in {n, OwnRestored(H, w)}
    PROVE  /\ Restored(H, w, n, n1) \in [Task -> Prio]
           /\ RestoredPends(H, w, n, n1) \in [Task -> [Prio -> Nat]]
           /\ Resets(H, w, n, n1) \in SUBSET Task
           /\ \A t \in Task \ Resets(H, w, n, n1) : Restored(H, w, n, n1)[t] = prio[t]
<1>1. TypeOK
  BY DEF SemInv
<1>2. n \in Prio /\ n1 \in Prio
  BY <1>1, ComparedTypes
<1>3. w \in Task /\ \A t \in H : t \in Task
  OBVIOUS
<1>4. Restored(H, w, n, n1) \in [Task -> Prio]
  BY ONLY <1>1, <1>2, <1>3, RestoredTypes
<1>5. RestoredPends(H, w, n, n1) \in [Task -> [Prio -> Nat]]
  BY ONLY <1>1, <1>2, <1>3, RestoredTypes
<1>6. Resets(H, w, n, n1) \in SUBSET Task
  BY ONLY <1>1, <1>2, <1>3, RestoredTypes
<1>7. \A t \in Task \ Resets(H, w, n, n1) : Restored(H, w, n, n1)[t] = prio[t]
  BY ONLY <1>1, <1>2, <1>3, RestoredTypes
<1> QED BY <1>4, <1>5, <1>6, <1>7

LEMMA StepSemPost == ASSUME SemInv, NEW s \in Sem, SemPost(s) PROVE SemInv'
<1> USE DEF SemPost
<1>0. /\ cur \in Task /\ semcount \in [Sem -> Int] /\ semcount' \in [Sem -> Int]
      /\ own' \in [Task -> SUBSET Mutex] /\ \A t \in Task : own'[t] \subseteq own[t]
      /\ pc[cur] = "run"
  BY DEF SemInv, TypeOK, Running
<1>1. CASE ~WakesWaiter(s)
  <2>0. PostCount(s)
    BY <1>1
  <2>1. TypeOK'
    <3>1. counts' \in [Sem -> [Task -> Nat]] /\ holders' \in [Sem -> SUBSET Task]
      BY <1>0, <2>0, HolderTypes, FreeEntryType DEF PostCount, SemInv, TypeOK
    <3> QED BY <1>0, <2>0, <3>1 DEF SemInv, TypeOK, PostCount, schedVars
  <2>2. RunningIsHighest' /\ LockInv'
    BY <2>0 DEF PostCount, SemInv, RunningIsHighest, LockInv, schedVars
  <2>3. WaitInv'
    BY <1>0, <2>0 DEF PostCount, SemInv, WaitInv, schedVars
  <2>4. CountInv(semcount', waitsem')
    <3>1. semcount[s] >= 0 /\ semcount[s] + 1 \in Nat
      BY <1>0, <1>1 DEF WakesWaiter
    <3>2. CountInv([semcount EXCEPT ![s] = semcount[s] + 1], waitsem)
      BY <1>0, <3>1, SameCounts DEF SemInv
    <3> QED BY <2>0, <3>2 DEF PostCount
  <2> QED BY <2>1, <2>2, <2>3, <2>4 DEF SemInv
<1>2. CASE WakesWaiter(s)
  <2> DEFINE l == [lock EXCEPT ![cur] = @ + 1]
  <2>0. PICK w \in FirstWaiter(s) : PostTo(w, s)
    BY <1>2
  <2>1. w \in Task /\ waitsem[w] = s /\ waitsem[w] # NoSem
    BY SemConstants DEF FirstWaiter, Highest, Waiters
  <2>2. AddHolder(w, s) \in [Sem -> SUBSET Task] /\ AddHolder(w, s)[s] \in SUBSET Task
    BY <2>1, HolderTypes
  <2>3. PICK n \in Compared(AddHolder(w, s)[s], w, s) :
          LET p2 == Restored(AddHolder(w, s)[s], w, n, OwnRestored(AddHolder(w, s)[s], w))
              reset == Resets(AddHolder(w, s)[s], w, n, OwnRestored(AddHolder(w, s)[s], w))
              st2 == HeldOff(cur, AddReady(cur, state, prio, l, w),
                             [p2 EXCEPT ![cur] = prio[cur]], reset \ {cur})
          IN /\ waitsem' = [waitsem EXCEPT ![w] = NoSem]
             /\ ahead' = Requeue(Dequeue(ahead, w), reset \ {w})
             /\ counts' = AddCount(ReleaseCount(s), w, s)
             /\ prio' = p2
             /\ pend' = RestoredPends(AddHolder(w, s)[s], w, n, OwnRestored(AddHolder(w, s)[s], w))
             /\ \/ /\ Yields(cur, st2, p2, reset)
                   /\ holders' = AddHolder(w, s) /\ lock' = l
                   /\ pc' = [pc EXCEPT ![cur] = IF pend[cur] = NoPend THEN "postbase" ELSE "post"]
                   /\ psem' = [psem EXCEPT ![cur] = s]
                   /\ Switch(AfterReprioritize(cur, st2, p2, l, {cur}))
                \/ /\ ~Yields(cur, st2, p2, reset)
                   /\ holders' = FreeEntry(AddHolder(w, s), counts', cur, s)
                   /\ Switch(AfterUnlock(cur, st2, p2, lock))
                   /\ UNCHANGED <<lock, pc, psem>>
    BY <2>0 DEF PostTo
  <2> DEFINE n1 == OwnRestored(AddHolder(w, s)[s], w)
             p2 == Restored(AddHolder(w, s)[s], w, n, n1)
             reset == Resets(AddHolder(w, s)[s], w, n, n1)
             st2 == HeldOff(cur, AddReady(cur, state, prio, l, w),
                            [p2 EXCEPT ![cur] = prio[cur]], reset \ {cur})
  <2>5. /\ p2 \in [Task -> Prio] /\ reset \in SUBSET Task
        /\ \A t \in Task \ reset : p2[t] = prio[t]
        /\ RestoredPends(AddHolder(w, s)[s], w, n, n1) \in [Task -> [Prio -> Nat]]
    <3> DEFINE H == AddHolder(w, s)[s]
    <3>1. \A t \in H : t \in Task
      BY <2>2
    <3>2. n \in Compared(H, w, s) /\ n1 \in {n, OwnRestored(H, w)}
      BY <2>3
    <3> HIDE DEF n1, H
    <3>3. /\ Restored(H, w, n, n1) \in [Task -> Prio]
          /\ RestoredPends(H, w, n, n1) \in [Task -> [Prio -> Nat]]
          /\ Resets(H, w, n, n1) \in SUBSET Task
          /\ \A t \in Task \ Resets(H, w, n, n1) : Restored(H, w, n, n1)[t] = prio[t]
      BY <2>1, <3>1, <3>2, RestoringTypes
    <3> QED BY <3>3 DEF H
  <2>6. /\ prio' = p2
        /\ \/ Yields(cur, st2, p2, reset) /\ lock' = l /\ Switch(AfterReprioritize(cur, st2, p2, l, {cur}))
           \/ ~Yields(cur, st2, p2, reset) /\ lock' = lock /\ Switch(AfterUnlock(cur, st2, p2, lock))
    BY <2>3
  <2>c. \/ UNCHANGED <<lock, pc, psem>>
        \/ /\ lock' = l /\ psem' = [psem EXCEPT ![cur] = s]
           /\ \E k \in {"post", "postbase"} : pc' = [pc EXCEPT ![cur] = k]
    BY <2>3
  <2>7. /\ lock' \in [Task -> Nat] /\ holders' \in [Sem -> SUBSET Task]
        /\ pc' \in [Task -> PC] /\ psem' \in [Task -> Sem \cup {NoSem}]
    <3>1. lock \in [Task -> Nat] /\ l \in [Task -> Nat]
      BY DEF SemInv, TypeOK
    <3>2. lock' \in {l, lock}
      BY <2>6
    <3>3. holders' \in [Sem -> SUBSET Task]
      BY <2>2, <2>3, FreeEntryType
    <3>4. pc' \in [Task -> PC] /\ psem' \in [Task -> Sem \cup {NoSem}]
      <4>1. pc \in [Task -> PC] /\ psem \in [Task -> Sem \cup {NoSem}]
        BY DEF SemInv, TypeOK
      <4>2. \A k \in {"post", "postbase"} : [pc EXCEPT ![cur] = k] \in [Task -> PC]
        BY <4>1 DEF PC
      <4>3. [psem EXCEPT ![cur] = s] \in [Task -> Sem \cup {NoSem}]
        BY <4>1
      <4> QED BY <2>c, <4>1, <4>2, <4>3
    <3> QED BY <3>1, <3>2, <3>3, <3>4
  <2>8. \A t \in Task : (pc'[t] = pc[t] /\ psem'[t] = psem[t] /\ lock'[t] = lock[t])
                       \/ (t = cur /\ pc'[t] \in {"post", "postbase"} /\ lock'[t] > 0)
    <3>1. CASE UNCHANGED <<lock, pc, psem>>
      BY <3>1
    <3>2. CASE lock' = l /\ \E k \in {"post", "postbase"} : pc' = [pc EXCEPT ![cur] = k]
               /\ psem' = [psem EXCEPT ![cur] = s]
      BY <1>0, <3>2 DEF SemInv, TypeOK
    <3> QED BY <2>c, <3>1, <3>2
  <2>9. /\ waitsem' = [waitsem EXCEPT ![w] = NoSem]
        /\ ahead' = Requeue(Dequeue(ahead, w), reset \ {w})
        /\ counts' = AddCount(ReleaseCount(s), w, s)
        /\ pend' = RestoredPends(AddHolder(w, s)[s], w, n, n1)
    BY <2>3
  <2> HIDE DEF p2, reset, st2, n1
  <2>10. Moved([state EXCEPT ![w] = "READY"])
    BY <2>1, <2>5, <2>6, PostMoves DEF st2
  <2> HIDE DEF l
  <2>11. TypeOK'
    <3>1. ahead' \in [Task -> SUBSET Task]
      BY <2>9, QueueTypes DEF SemInv, TypeOK
    <3>2. counts' \in [Sem -> [Task -> Nat]] /\ pend' \in [Task -> [Prio -> Nat]]
      BY <2>1, <2>5, <2>9, HolderTypes
    <3>3. waitsem' \in [Task -> Sem \cup {NoSem}]
      BY <2>9 DEF SemInv, TypeOK
    <3> QED BY <1>0, <2>5, <2>6, <2>7, <2>10, <3>1, <3>2, <3>3 DEF SemInv, TypeOK, Moved, TaskStates
  <2>12. WaitInv' /\ CountInv(semcount', waitsem')
    BY <1>0, <2>1, <2>8, <2>9, <2>10, WaitEnds
  <2>13. LockInv'
    BY <2>8 DEF SemInv, LockInv
  <2> QED BY <2>10, <2>11, <2>12, <2>13 DEF SemInv, Moved
<1> QED BY <1>1, <1>2

\* A handler makes w ready; the priorities of the tasks of T change after it.
LEMMA HandlerAdds ==
    ASSUME SemInv, NEW w \in Task, waitsem[w] # NoSem
    PROVE  LET c1 == HeadAfterAdd(cur, prio, lock, w)
               st1 == AddReady(cur, state, prio, lock, w)
           IN /\ Ordered(c1, st1, prio, lock)
              /\ Kept([state EXCEPT ![w] = "READY"], st1)
              /\ st1 \in [Task -> TaskStates]
<1>1. w \in Task \ {cur}
  BY WaiterFacts
<1>2. Ordered(HeadAfterAdd(cur, prio, lock, w), AddReady(cur, state, prio, lock, w), prio, lock)
  BY <1>1, CurFacts, AddReadyOrdered DEF SemInv, TypeOK
<1>3. Kept([state EXCEPT ![w] = "READY"], AddReady(cur, state, prio, lock, w))
  BY CurFacts DEF Kept, AddReady
<1>4. AddReady(cur, state, prio, lock, w) \in [Task -> TaskStates]
  BY CurFacts DEF AddReady, TaskStates
<1> QED BY <1>2, <1>3, <1>4

LEMMA IsrPostMoves ==
    ASSUME SemInv, NEW w \in Task, waitsem[w] # NoSem,
           NEW q \in [Task -> Prio], NEW T \in SUBSET Task, \A t \in Task \ T : q[t] = prio[t],
           prio' = q, lock' = lock,
           Switch(AfterReprioritize(HeadAfterAdd(cur, prio, lock, w),
                                    AddReady(cur, state, prio, lock, w), q, lock, T))
    PROVE  Moved([state EXCEPT ![w] = "READY"])
<1> DEFINE c1 == HeadAfterAdd(cur, prio, lock, w)
           st1 == AddReady(cur, state, prio, lock, w)
           stw == [state EXCEPT ![w] = "READY"]
<1>1. Ordered(c1, st1, prio, lock) /\ Kept(stw, st1) /\ st1 \in [Task -> TaskStates]
  BY HandlerAdds
<1>2. lock \in [Task -> Nat]
  BY DEF SemInv, TypeOK
<1> HIDE DEF c1, st1, stw
<1>3. Switch(AfterReprioritize(c1, st1, q, lock, T))
  BY DEF c1, st1
<1>4. Moved(st1)
  BY <1>1, <1>2, <1>3, ReprioritizeMoves
<1> QED BY <1>1, <1>4, MovedKept DEF stw

LEMMA StepIsrPost == ASSUME SemInv, NEW s \in Sem, IsrPost(s) PROVE SemInv'
<1>0. /\ cur \in Task /\ semcount \in [Sem -> Int] /\ semcount' \in [Sem -> Int]
      /\ semcount' = [semcount EXCEPT ![s] = @ + 1]
      /\ UNCHANGED <<pterrno, waitdog, pc, psem, own>>
  BY DEF SemInv, TypeOK, IsrPost
<1>1. CASE ~WakesWaiter(s)
  <2>0. counts' = ReleaseCount(s) /\ UNCHANGED <<schedVars, waitsem, ahead, holders, pend>>
    BY <1>1 DEF IsrPost
  <2>1. TypeOK'
    <3>1. counts' \in [Sem -> [Task -> Nat]]
      BY <1>0, <2>0, HolderTypes
    <3> QED BY <1>0, <2>0, <3>1 DEF SemInv, TypeOK, schedVars
  <2>2. RunningIsHighest' /\ LockInv'
    BY <1>0, <2>0 DEF SemInv, RunningIsHighest, LockInv, schedVars
  <2>3. WaitInv'
    BY <1>0, <2>0 DEF SemInv, WaitInv, schedVars
  <2>4. CountInv(semcount', waitsem')
    <3>1. semcount[s] >= 0 /\ semcount[s] + 1 \in Nat
      BY <1>0, <1>1 DEF WakesWaiter
    <3>2. CountInv([semcount EXCEPT ![s] = semcount[s] + 1], waitsem)
      BY <1>0, <3>1, SameCounts DEF SemInv
    <3> QED BY <1>0, <2>0, <3>2
  <2> QED BY <2>1, <2>2, <2>3, <2>4 DEF SemInv
<1>2. CASE WakesWaiter(s)
  <2>0. PICK w \in FirstWaiter(s) : IsrPostTo(w, s)
    BY <1>2 DEF IsrPost
  <2>1. w \in Task /\ waitsem[w] = s /\ waitsem[w] # NoSem
    BY SemConstants DEF FirstWaiter, Highest, Waiters
  <2>2. AddHolder(w, s) \in [Sem -> SUBSET Task]
    BY <2>1, HolderTypes
  <2> DEFINE H == AddHolder(w, s)[s]
  <2>3. PICK n \in Compared(H, w, s) :
          /\ waitsem' = [waitsem EXCEPT ![w] = NoSem]
          /\ ahead' = Requeue(Dequeue(ahead, w), Resets(H, w, n, n) \ {w})
          /\ holders' = AddHolder(w, s)
          /\ counts' = AddCount(ReleaseCount(s), w, s)
          /\ prio' = Restored(H, w, n, n)
          /\ pend' = RestoredPends(H, w, n, n)
          /\ Switch(AfterReprioritize(HeadAfterAdd(cur, prio, lock, w),
                                      AddReady(cur, state, prio, lock, w), prio', lock, Resets(H, w, n, n)))
          /\ lock' = lock
    BY <2>0 DEF IsrPostTo
  <2>4. \A t \in H : t \in Task
    BY <2>2
  <2> HIDE DEF H
  <2> DEFINE q == Restored(H, w, n, n)
             T == Resets(H, w, n, n)
  <2>5. /\ q \in [Task -> Prio] /\ T \in SUBSET Task /\ \A t \in Task \ T : q[t] = prio[t]
        /\ pend' \in [Task -> [Prio -> Nat]]
    BY <2>1, <2>3, <2>4, RestoringTypes
  <2>6. prio' = q /\ Switch(AfterReprioritize(HeadAfterAdd(cur, prio, lock, w),
                              AddReady(cur, state, prio, lock, w), q, lock, T))
    BY <2>3
  <2> HIDE DEF q, T
  <2>10. Moved([state EXCEPT ![w] = "READY"])
    BY <2>1, <2>3, <2>5, <2>6, IsrPostMoves
  <2>11. TypeOK'
    <3>1. ahead' \in [Task -> SUBSET Task]
      BY <2>3, QueueTypes DEF SemInv, TypeOK
    <3>2. counts' \in [Sem -> [Task -> Nat]]
      BY <2>1, <2>3, HolderTypes
    <3>3. waitsem' \in [Task -> Sem \cup {NoSem}] /\ holders' \in [Sem -> SUBSET Task]
          /\ lock' \in [Task -> Nat]
      BY <2>2, <2>3 DEF SemInv, TypeOK
    <3> QED BY <1>0, <2>5, <2>6, <2>10, <3>1, <3>2, <3>3 DEF SemInv, TypeOK, Moved, TaskStates
  <2>12. WaitInv' /\ CountInv(semcount', waitsem')
    BY <1>0, <2>1, <2>3, <2>10, WaitEnds
  <2>13. LockInv'
    BY <1>0, <2>3 DEF SemInv, LockInv
  <2> QED BY <2>10, <2>11, <2>12, <2>13 DEF SemInv, Moved
<1> QED BY <1>1, <1>2

LEMMA StepSemPostFromIsr == ASSUME SemInv, NEW s \in Sem, SemPostFromIsr(s) PROVE SemInv'
<1>0. /\ cur \in Task /\ semcount \in [Sem -> Int] /\ semcount' \in [Sem -> Int]
      /\ semcount' = [semcount EXCEPT ![s] = @ + 1]
      /\ UNCHANGED <<prio, lock, holders, counts, pend, pterrno, waitdog, pc, psem, own>>
  BY DEF SemInv, TypeOK, SemPostFromIsr
<1>1. CASE ~WakesWaiter(s)
  <2>0. UNCHANGED <<cur, state, waitsem, ahead>>
    BY <1>1 DEF SemPostFromIsr
  <2>1. TypeOK'
    BY <1>0, <2>0 DEF SemInv, TypeOK
  <2>2. RunningIsHighest' /\ LockInv' /\ WaitInv'
    BY <1>0, <2>0 DEF SemInv, RunningIsHighest, LockInv, WaitInv
  <2>4. CountInv(semcount', waitsem')
    <3>1. semcount[s] >= 0 /\ semcount[s] + 1 \in Nat
      BY <1>0, <1>1 DEF WakesWaiter
    <3>2. CountInv([semcount EXCEPT ![s] = semcount[s] + 1], waitsem)
      BY <1>0, <3>1, SameCounts DEF SemInv
    <3> QED BY <1>0, <2>0, <3>2
  <2> QED BY <2>1, <2>2, <2>4 DEF SemInv
<1>2. CASE WakesWaiter(s)
  <2>0. PICK w \in FirstWaiter(s) :
          /\ waitsem' = [waitsem EXCEPT ![w] = NoSem]
          /\ ahead' = Dequeue(ahead, w)
          /\ state' = AddReady(cur, state, prio, lock, w)
          /\ cur' = HeadAfterAdd(cur, prio, lock, w)
    BY <1>2 DEF SemPostFromIsr
  <2>1. w \in Task /\ waitsem[w] = s /\ waitsem[w] # NoSem
    BY SemConstants DEF FirstWaiter, Highest, Waiters
  <2>2. Moved([state EXCEPT ![w] = "READY"])
    BY <1>0, <2>0, <2>1, WaiterFacts, AddReadyMoves
  <2>3. TypeOK'
    <3>1. ahead' \in [Task -> SUBSET Task]
      BY <2>0, QueueTypes DEF SemInv, TypeOK
    <3>2. waitsem' \in [Task -> Sem \cup {NoSem}]
      BY <2>0 DEF SemInv, TypeOK
    <3> QED BY <1>0, <2>2, <3>1, <3>2 DEF SemInv, TypeOK, Moved, TaskStates
  <2>4. WaitInv' /\ CountInv(semcount', waitsem')
    BY <1>0, <2>0, <2>1, <2>2, WaitEnds
  <2>5. LockInv'
    BY <1>0 DEF SemInv, LockInv
  <2> QED BY <2>2, <2>3, <2>4, <2>5 DEF SemInv, Moved
<1> QED BY <1>1, <1>2

\* A handler cancels the wait of w: the holders come down, then w is woken.
LEMMA CancelMoves ==
    ASSUME SemInv, NEW w \in Task, state[w] = "WAIT_SEM",
           NEW q \in [Task -> Prio], NEW T \in SUBSET Task, \A t \in Task \ T : q[t] = prio[t],
           prio' = q, lock' = lock,
           NEW r \in AfterReprioritize(cur, state, q, lock, T),
           state' = AddReady(r[1], r[2], q, lock, w), cur' = HeadAfterAdd(r[1], q, lock, w)
    PROVE  Moved([state EXCEPT ![w] = "READY"])
<1> DEFINE c == r[1]
           st == r[2]
           stw == [state EXCEPT ![w] = "READY"]
<1>0. lock \in [Task -> Nat] /\ stw \in [Task -> TaskStates]
  BY CurFacts DEF SemInv, TypeOK, TaskStates
<1>1. Ordered(c, st, q, lock)
  BY <1>0, CurFacts, AfterReprioritizeOrdered
<1>2. Kept(state, st)
  BY AfterReprioritizeKeeps
<1> HIDE DEF c, st
<1>3. st[w] = "WAIT_SEM" /\ w \in Task \ {c}
  BY <1>1, <1>2 DEF Kept, Ordered
<1>4. state' = AddReady(c, st, q, lock, w) /\ cur' = HeadAfterAdd(c, q, lock, w)
  BY DEF c, st
<1>5. Ordered(cur', state', prio', lock')
  BY <1>0, <1>1, <1>3, <1>4, AddReadyOrdered
<1>6. Kept(stw, state')
  <2>1. \A t \in Task : t # w => state'[t] = st[t] /\ stw[t] = state[t]
    BY <1>1, <1>4 DEF AddReady, Ordered
  <2>2. stw[w] = "READY" /\ state'[w] \in {"READY", "PENDING"}
    BY <1>1, <1>4, CurFacts DEF AddReady, Ordered
  <2> HIDE DEF stw
  <2> QED BY <1>2, <2>1, <2>2 DEF Kept
<1> QED BY <1>0, <1>5, <1>6, MovedBy

\* What the three ways to cancel a wait have in common.
LEMMA CancelTypes ==
    ASSUME SemInv, NEW w \in Task, NEW s \in Sem, waitsem[w] = s,
           Moved([state EXCEPT ![w] = "READY"]),
           prio' \in [Task -> Prio], pend' \in [Task -> [Prio -> Nat]],
           ahead' \in [Task -> SUBSET Task], waitdog' \in [Task -> BOOLEAN],
           semcount' = [semcount EXCEPT ![s] = @ + 1],
           waitsem' = [waitsem EXCEPT ![w] = NoSem],
           NEW err \in {"EINTR", "ETIMEDOUT"}, pterrno' = [pterrno EXCEPT ![w] = err],
           UNCHANGED <<lock, holders, counts, pc, psem, own>>
    PROVE  SemInv'
<1>1. TypeOK'
  <2>1. semcount' \in [Sem -> Int] /\ waitsem' \in [Task -> Sem \cup {NoSem}]
    BY DEF SemInv, TypeOK
  <2>2. pterrno' \in [Task -> {"OK", "EINTR", "ETIMEDOUT"}]
    BY DEF SemInv, TypeOK
  <2> QED BY <2>1, <2>2 DEF SemInv, TypeOK, Moved, TaskStates
<1>2. \A t \in Task \ {w} : pterrno'[t] = pterrno[t]
  BY DEF SemInv, TypeOK
<1>3. WaitInv' /\ CountInv(semcount', waitsem')
  BY <1>2, WaitEnds
<1>4. LockInv'
  BY DEF SemInv, LockInv
<1> QED BY <1>1, <1>3, <1>4 DEF SemInv, Moved

LEMMA StepIsrCancel ==
    ASSUME SemInv, NEW w \in Task, NEW err \in {"EINTR", "ETIMEDOUT"}, IsrCancel(w, err),
           waitdog' \in [Task -> BOOLEAN]
    PROVE  SemInv'
<1> DEFINE s == waitsem[w]
           H == holders[s]
<1>0. /\ state[w] = "WAIT_SEM"
      /\ semcount' = [semcount EXCEPT ![s] = @ + 1]
      /\ waitsem' = [waitsem EXCEPT ![w] = NoSem]
      /\ pterrno' = [pterrno EXCEPT ![w] = err]
      /\ UNCHANGED <<lock, holders, counts, pc, psem, own>>
  BY DEF IsrCancel
<1>1. PICK n \in Compared(H, w, s) :
        /\ prio' = Restored(H, w, n, n)
        /\ pend' = RestoredPends(H, w, n, n)
        /\ ahead' = Dequeue(Requeue(ahead, Resets(H, w, n, n)), w)
        /\ \E r \in AfterReprioritize(cur, state, prio', lock, Resets(H, w, n, n)) :
             /\ state' = AddReady(r[1], r[2], prio', lock, w)
             /\ cur' = HeadAfterAdd(r[1], prio', lock, w)
  BY DEF IsrCancel
<1>2. s \in Sem /\ \A t \in H : t \in Task
  BY <1>0 DEF SemInv, WaitInv, TypeOK
<1> HIDE DEF s, H
<1> DEFINE q == Restored(H, w, n, n)
           T == Resets(H, w, n, n)
<1>3. /\ q \in [Task -> Prio] /\ T \in SUBSET Task /\ \A t \in Task \ T : q[t] = prio[t]
      /\ pend' \in [Task -> [Prio -> Nat]]
  BY <1>1, <1>2, RestoringTypes
<1>4. prio' = q
  BY <1>1
<1>5. PICK r \in AfterReprioritize(cur, state, q, lock, T) :
        state' = AddReady(r[1], r[2], q, lock, w) /\ cur' = HeadAfterAdd(r[1], q, lock, w)
  BY <1>1
<1> HIDE DEF q, T
<1>6. Moved([state EXCEPT ![w] = "READY"])
  BY <1>0, <1>3, <1>4, <1>5, CancelMoves
<1>7. ahead' \in [Task -> SUBSET Task]
  BY <1>1, QueueTypes DEF SemInv, TypeOK
<1> QED BY <1>0, <1>2, <1>3, <1>4, <1>6, <1>7, CancelTypes DEF s

LEMMA StepTimeout == ASSUME SemInv, NEW w \in Task, Timeout(w) PROVE SemInv'
<1>1. waitdog' \in [Task -> BOOLEAN]
  BY DEF Timeout, SemInv, TypeOK
<1>2. CASE state[w] = "WAIT_SEM"
  BY <1>1, <1>2, StepIsrCancel DEF Timeout
<1>3. CASE state[w] # "WAIT_SEM"
  <2>1. UNCHANGED <<schedVars, semcount, waitsem, ahead, holders, counts, pend, pterrno, pc, psem, own>>
    BY <1>3 DEF Timeout
  <2>2. TypeOK'
    BY <1>1, <2>1 DEF SemInv, TypeOK, schedVars
  <2>3. RunningIsHighest' /\ WaitInv' /\ LockInv' /\ CountInv(semcount', waitsem')
    BY <2>1 DEF SemInv, RunningIsHighest, WaitInv, LockInv, schedVars
  <2> QED BY <2>2, <2>3 DEF SemInv
<1> QED BY <1>2, <1>3

LEMMA StepIsrSignal == ASSUME SemInv, NEW w \in Task, IsrSignal(w) PROVE SemInv'
<1>1. waitdog' \in [Task -> BOOLEAN]
  BY DEF IsrSignal, SemInv, TypeOK
<1> QED BY <1>1, StepIsrCancel DEF IsrSignal

\* The running task cancels the wait of w under its lock.
LEMMA KillMoves ==
    ASSUME SemInv, NEW w \in Task, state[w] = "WAIT_SEM",
           NEW l, l = [lock EXCEPT ![cur] = @ + 1],
           NEW q \in [Task -> Prio], NEW T \in SUBSET Task, \A t \in Task \ T : q[t] = prio[t],
           prio' = q, lock' = lock, ~Yields(cur, state, q, T),
           Switch(AfterUnlock(cur, AddReady(cur, HeldOff(cur, state, q, T), q, l, w), q, lock))
    PROVE  Moved([state EXCEPT ![w] = "READY"])
<1> DEFINE st1 == HeldOff(cur, state, q, T)
           st2 == AddReady(cur, st1, q, l, w)
           stw == [state EXCEPT ![w] = "READY"]
<1>0. lock \in [Task -> Nat] /\ w \in Task \ {cur}
  BY CurFacts DEF SemInv, TypeOK
<1>1. l \in [Task -> Nat] /\ l[cur] > 0 /\ Ordered(cur, state, prio, l)
  BY LockedOrdered
<1>2. Ordered(cur, st1, q, l)
  BY <1>1, HeldOffOrdered
<1>3. st1 \in [Task -> TaskStates] /\ Kept(state, st1)
  BY CurFacts, HeldOffType, HeldOffKeeps
<1> HIDE DEF st1
<1>4. Ordered(cur, st2, q, l) /\ Kept([st1 EXCEPT ![w] = "READY"], st2) /\ st2 \in [Task -> TaskStates]
  BY <1>0, <1>1, <1>2, <1>3, LockedAdd
<1>5. Kept(stw, [st1 EXCEPT ![w] = "READY"])
  <2>1. \A t \in Task : t # w => stw[t] = state[t] /\ [st1 EXCEPT ![w] = "READY"][t] = st1[t]
    BY <1>3, CurFacts
  <2>2. stw[w] = "READY" /\ [st1 EXCEPT ![w] = "READY"][w] = "READY"
    BY <1>3, CurFacts
  <2> QED BY <1>3, <2>1, <2>2 DEF Kept
<1>6. Switch(AfterUnlock(cur, st2, q, lock))
  BY DEF st1
<1> HIDE DEF st2, stw
<1>7. Kept(stw, st2)
  BY <1>4, <1>5, KeptTrans
<1>8. lock[cur] > 0 => Ordered(cur, st2, q, lock)
  BY <1>4 DEF Ordered
<1>9. Moved(st2)
  BY <1>0, <1>4, <1>6, <1>8, UnlockMoves
<1> QED BY <1>7, <1>9, MovedKept DEF stw

LEMMA StepSigKill == ASSUME SemInv, NEW w \in Task, SigKill(w) PROVE SemInv'
<1> DEFINE s == waitsem[w]
           H == holders[s]
           l == [lock EXCEPT ![cur] = @ + 1]
<1>0. /\ state[w] = "WAIT_SEM"
      /\ semcount' = [semcount EXCEPT ![s] = @ + 1]
      /\ waitsem' = [waitsem EXCEPT ![w] = NoSem]
      /\ pterrno' = [pterrno EXCEPT ![w] = "EINTR"]
      /\ UNCHANGED <<lock, holders, counts, waitdog, pc, psem, own>>
  BY DEF SigKill, Unwait
<1>1. PICK n \in Compared(H, w, s) :
        /\ prio' = Restored(H, w, n, n)
        /\ ~Yields(cur, state, prio', Resets(H, w, n, n))
        /\ ahead' = Dequeue(Requeue(ahead, Resets(H, w, n, n)), w)
        /\ pend' = RestoredPends(H, w, n, n)
        /\ Switch(AfterUnlock(cur, AddReady(cur, HeldOff(cur, state, prio', Resets(H, w, n, n)), prio', l, w),
                              prio', lock))
  BY DEF SigKill
<1>2. s \in Sem /\ \A t \in H : t \in Task
  BY <1>0 DEF SemInv, WaitInv, TypeOK
<1> HIDE DEF s, H
<1> DEFINE q == Restored(H, w, n, n)
           T == Resets(H, w, n, n)
<1>3. /\ q \in [Task -> Prio] /\ T \in SUBSET Task /\ \A t \in Task \ T : q[t] = prio[t]
      /\ pend' \in [Task -> [Prio -> Nat]]
  BY <1>1, <1>2, RestoringTypes
<1>4. prio' = q /\ ~Yields(cur, state, q, T)
  BY <1>1
<1>5. Switch(AfterUnlock(cur, AddReady(cur, HeldOff(cur, state, q, T), q, l, w), q, lock))
  BY <1>1
<1> HIDE DEF q, T
<1>6. Moved([state EXCEPT ![w] = "READY"])
  BY <1>0, <1>3, <1>4, <1>5, KillMoves
<1>7. ahead' \in [Task -> SUBSET Task] /\ waitdog' \in [Task -> BOOLEAN]
  BY <1>0, <1>1, QueueTypes DEF SemInv, TypeOK
<1> QED BY <1>0, <1>2, <1>3, <1>4, <1>6, <1>7, CancelTypes DEF s

-----------------------------------------------------------------------------
LEMMA SemInvInit == Init => SemInv
<1> SUFFICES ASSUME Init PROVE SemInv
  OBVIOUS
<1> USE DEF Init
<1>1. TypeOK
  <2>1. Idle \in Task /\ Base \in [Task -> Prio] /\ Blocked = {"WAIT_SEM", "WAIT_SIG"}
    BY SchedConstants, SemConstants
  <2>2. NoPend \in [Prio -> Nat]
    BY DEF NoPend
  <2> QED BY <2>1, <2>2 DEF TypeOK, PC
<1>2. RunningIsHighest
  <2>1. Base[Idle] = 0 /\ Idle \in Task
    BY SchedConstants, SemConstants
  <2> QED BY <2>1 DEF RunningIsHighest
<1>3. WaitInv /\ LockInv
  BY DEF WaitInv, LockInv
<1>4. CountInv(semcount, waitsem)
  <2>1. NoSem \notin Sem
    BY SemConstants
  <2> QED BY <2>1 DEF CountInv
<1> QED BY <1>1, <1>2, <1>3, <1>4 DEF SemInv

LEMMA SemInvStep == SemInv /\ [Next]_vars => SemInv'
<1> SUFFICES ASSUME SemInv, [Next]_vars PROVE SemInv'
  OBVIOUS
<1>1. CASE TaskStep
  BY <1>1, StepSchedLock, StepSchedUnlock, StepSchedYield, StepSleep, StepSemTryWait, StepSemBlock,
     StepSemWaitForIsr, StepSemPost, StepWaitReturn, StepTimedReturn, StepPostReturn
  DEF TaskStep
<1>2. CASE IsrStep
  BY <1>2, StepWake, StepIsrPost, StepSemPostFromIsr DEF IsrStep
<1>3. CASE CancelStep
  BY <1>3, StepTimeout, StepIsrSignal, StepSigKill DEF CancelStep
<1>4. CASE UNCHANGED vars
  BY <1>4 DEF vars, schedVars, semVars, SemInv, TypeOK, RunningIsHighest, WaitInv, LockInv
<1> QED BY <1>1, <1>2, <1>3, <1>4 DEF Next

(***************************************************************************)
(* SemInv holds in every reachable state: whatever waits, posts, timeouts, *)
(* signals and handlers do, the scheduling order, the wait states of the   *)
(* tasks, the lock counts of switched-out calls and the semaphore counts   *)
(* stay in agreement.  The theorems below are its consequences.            *)
(***************************************************************************)
THEOREM SemInvariant == Spec => []SemInv
<1> QED BY SemInvInit, SemInvStep, PTL DEF Spec

\* The type invariant of the semaphores (MCSemMutex checks TypeOK).
THEOREM TypeCorrect == Spec => []TypeOK
<1>1. SemInv => TypeOK
  BY DEF SemInv
<1> QED BY <1>1, SemInvariant, PTL

(***************************************************************************)
(* Strict priority scheduling under every boost, restore and cancellation: *)
(* RunningIsHighest, for any set of tasks, semaphores and priorities.      *)
(***************************************************************************)
THEOREM HighestRunsUnderInheritance == Spec => []RunningIsHighest
<1>1. SemInv => RunningIsHighest
  BY DEF SemInv
<1> QED BY <1>1, SemInvariant, PTL

(***************************************************************************)
(* The count of a semaphore and the tasks that wait for it always agree:   *)
(* CountMatchesWaiters.                                                    *)
(***************************************************************************)
THEOREM CountsAgree == Spec => []CountMatchesWaiters
<1>1. SemInv => CountMatchesWaiters
  <2> SUFFICES ASSUME SemInv, NEW s \in Sem
               PROVE  /\ semcount[s] < 0 => Cardinality(Waiters(s)) = -semcount[s]
                      /\ semcount[s] >= 0 => Waiters(s) = {}
                      /\ \A t \in Waiters(s) : state[t] = "WAIT_SEM"
    BY DEF CountMatchesWaiters
  <2>1. s # NoSem /\ semcount[s] \in Int
    BY SemConstants DEF SemInv, TypeOK
  <2>2. \A t \in Waiters(s) : state[t] = "WAIT_SEM"
    BY <2>1 DEF SemInv, WaitInv, Waiters
  <2>3. semcount[s] >= 0 => Waiters(s) = {}
    BY DEF SemInv, CountInv, Waiters
  <2>4. semcount[s] < 0 => Cardinality(Waiters(s)) = -semcount[s]
    <3>1. Cardinality(Waiters(s)) \in Nat
      BY FiniteWaiters, FS_CardinalityType DEF Waiters
    <3>2. semcount[s] < 0 => Cardinality(Waiters(s)) + semcount[s] = 0
      BY DEF SemInv, CountInv, Waiters
    <3> QED BY <2>1, <3>1, <3>2
  <2> QED BY <2>2, <2>3, <2>4
<1> QED BY <1>1, SemInvariant, PTL

-----------------------------------------------------------------------------
(***************************************************************************)
(* The semaphores implement those of module SemAbs, and mutexes exclude.   *)
(*                                                                         *)
(* How the calls change the available counts: only a count that nobody     *)
(* waits for changes what can be taken.                                    *)
(***************************************************************************)
LEMMA AvailSame ==
    ASSUME TypeOK, NEW s \in Sem,
           \/ semcount' = semcount
           \/ semcount[s] <= 0 /\ semcount' = [semcount EXCEPT ![s] = @ - 1]
           \/ semcount[s] < 0 /\ semcount' = [semcount EXCEPT ![s] = @ + 1]
    PROVE  Avail' = Avail
<1>1. ASSUME NEW u \in Sem
      PROVE  (IF semcount'[u] > 0 THEN semcount'[u] ELSE 0) = (IF semcount[u] > 0 THEN semcount[u] ELSE 0)
  BY DEF TypeOK
<1> QED BY <1>1 DEF Avail

\* A count that is taken is one less available.
LEMMA AvailTaken ==
    ASSUME TypeOK, NEW s \in Sem, semcount[s] > 0, semcount' = [semcount EXCEPT ![s] = @ - 1]
    PROVE  Avail[s] > 0 /\ Avail' = [Avail EXCEPT ![s] = @ - 1]
<1>1. semcount \in [Sem -> Int]
  BY DEF TypeOK
<1>2. Avail[s] = semcount[s]
  BY <1>1 DEF Avail
<1>3. ASSUME NEW u \in Sem PROVE Avail'[u] = [Avail EXCEPT ![s] = @ - 1][u]
  <2>1. CASE u = s
    <3>1. Avail'[s] = semcount[s] - 1
      BY <1>1 DEF Avail
    <3>2. [Avail EXCEPT ![s] = @ - 1][s] = semcount[s] - 1
      BY <1>2 DEF Avail
    <3> QED BY <2>1, <3>1, <3>2
  <2>2. CASE u # s
    BY <1>1, <2>2 DEF Avail
  <2> QED BY <2>1, <2>2
<1> QED BY <1>1, <1>2, <1>3 DEF Avail

\* A count that is posted with nobody waiting is one more available.
LEMMA AvailGiven ==
    ASSUME TypeOK, NEW s \in Sem, semcount[s] >= 0, semcount' = [semcount EXCEPT ![s] = @ + 1]
    PROVE  Avail' = [Avail EXCEPT ![s] = @ + 1]
<1>1. semcount \in [Sem -> Int]
  BY DEF TypeOK
<1>2. Avail[s] = semcount[s]
  BY <1>1 DEF Avail
<1>3. ASSUME NEW u \in Sem PROVE Avail'[u] = [Avail EXCEPT ![s] = @ + 1][u]
  <2>1. CASE u = s
    <3>1. Avail'[s] = semcount[s] + 1
      BY <1>1 DEF Avail
    <3>2. [Avail EXCEPT ![s] = @ + 1][s] = semcount[s] + 1
      BY <1>2 DEF Avail
    <3> QED BY <2>1, <3>1, <3>2
  <2>2. CASE u # s
    BY <1>1, <2>2 DEF Avail
  <2> QED BY <2>1, <2>2
<1> QED BY <1>1, <1>3 DEF Avail

(***************************************************************************)
(* The tasks that were given a count and have not seen it.                 *)
(***************************************************************************)
LEMMA GivenSame ==
    ASSUME \A t \in Task : \/ /\ pc'[t] = pc[t] /\ psem'[t] = psem[t]
                              /\ waitsem'[t] = waitsem[t] /\ pterrno'[t] = pterrno[t]
                           \/ ~Granted(t, psem[t]) /\ ~Granted(t, psem[t])'
    PROVE  Given' = Given
<1>1. ASSUME NEW t \in Task PROVE (IF Granted(t, psem[t]) THEN psem[t] ELSE NoSem)'
                                  = (IF Granted(t, psem[t]) THEN psem[t] ELSE NoSem)
  BY DEF Granted
<1> QED BY <1>1 DEF Given

\* Only the entry of w changes.
LEMMA GivenChanges ==
    ASSUME NEW w \in Task,
           \A t \in Task \ {w} : \/ /\ pc'[t] = pc[t] /\ psem'[t] = psem[t]
                                    /\ waitsem'[t] = waitsem[t] /\ pterrno'[t] = pterrno[t]
                                 \/ ~Granted(t, psem[t]) /\ ~Granted(t, psem[t])'
    PROVE  Given' = [Given EXCEPT ![w] = Given'[w]]
<1>1. ASSUME NEW t \in Task \ {w} PROVE (IF Granted(t, psem[t]) THEN psem[t] ELSE NoSem)'
                                        = (IF Granted(t, psem[t]) THEN psem[t] ELSE NoSem)
  BY DEF Granted
<1> QED BY <1>1 DEF Given

\* A step that leaves counts, waits and calls alone is none of the abstract semaphores.
LEMMA Stutters ==
    ASSUME TypeOK, semcount' = semcount, waitsem' = waitsem, Given' = Given, own' = own
    PROVE  UNCHANGED Abs!absVars
<1>1. Avail' = Avail
  BY DEF Avail
<1> QED BY <1>1 DEF Abs!absVars

\* Steps of the scheduler are such steps.
LEMMA SchedulerStutters ==
    ASSUME TypeOK, UNCHANGED semVars
    PROVE  UNCHANGED Abs!absVars
<1>1. Given' = Given
  BY DEF Given, Granted, semVars
<1> QED BY <1>1, Stutters DEF semVars

LEMMA RefTryWait == ASSUME SemInv, NEW s \in Sem, SemTryWait(s) PROVE Abs!Next
<1> USE DEF SemTryWait, TakeCount
<1>1. cur \in Task /\ TypeOK
  BY DEF SemInv, TypeOK
<1>2. Avail[s] > 0 /\ Avail' = [Avail EXCEPT ![s] = @ - 1]
  BY <1>1, AvailTaken
<1>3. Given' = Given
  BY DEF Given, Granted
<1>4. Abs!Take(cur, s)
  BY <1>2, <1>3 DEF Abs!Take, Abs!Owning, MayWait
<1> QED BY <1>1, <1>4 DEF Abs!Next

\* The running task starts to wait.
LEMMA RefWait ==
    ASSUME SemInv, NEW s \in Sem, MayWait(s), semcount[s] <= 0,
           semcount' = [semcount EXCEPT ![s] = @ - 1],
           waitsem' = [waitsem EXCEPT ![cur] = s], own' = own,
           \A t \in Task \ {cur} : pc'[t] = pc[t] /\ psem'[t] = psem[t] /\ pterrno'[t] = pterrno[t]
    PROVE  Abs!Next
<1>1. cur \in Task /\ TypeOK /\ waitsem[cur] = NoSem /\ s # NoSem /\ pc[cur] = "run" /\ s \notin own[cur]
  BY CurFacts, SemConstants DEF SemInv, MayWait, Running
<1>2. Avail' = Avail /\ Avail[s] = 0
  <2>1. Avail' = Avail
    BY <1>1, AvailSame
  <2>2. ~(semcount[s] > 0)
    BY <1>1 DEF TypeOK
  <2> QED BY <2>1, <2>2 DEF Avail
<1>3. waitsem'[cur] = s /\ \A t \in Task \ {cur} : waitsem'[t] = waitsem[t]
  BY <1>1 DEF TypeOK
<1>4. \A t \in Task : t = cur => ~Granted(t, psem[t]) /\ ~Granted(t, psem[t])'
  BY <1>1, <1>3 DEF Granted
<1>5. Given' = Given /\ Given[cur] = NoSem
  <2>1. Given' = Given
    BY <1>3, <1>4, GivenSame
  <2> QED BY <1>1, <1>4, <2>1 DEF Given
<1>6. Abs!Wait(cur, s)
  BY <1>1, <1>2, <1>5 DEF Abs!Wait
<1> QED BY <1>1, <1>6 DEF Abs!Next

LEMMA RefSemBlock == ASSUME SemInv, NEW s \in Sem, NEW timed, SemBlock(s, timed) PROVE Abs!Next
<1>1. \A t \in Task \ {cur} : pc'[t] = pc[t] /\ psem'[t] = psem[t] /\ pterrno'[t] = pterrno[t]
  BY DEF SemBlock, SemInv, TypeOK
<1> QED BY <1>1, RefWait DEF SemBlock

LEMMA RefSemWaitForIsr == ASSUME SemInv, NEW s \in Sem, SemWaitForIsr(s) PROVE Abs!Next
<1> USE DEF SemWaitForIsr
<1>0. cur \in Task /\ TypeOK
  BY DEF SemInv, TypeOK
<1>1. CASE semcount[s] > 0
  <2>1. Avail[s] > 0 /\ Avail' = [Avail EXCEPT ![s] = @ - 1]
    BY <1>0, <1>1, AvailTaken
  <2>2. Given' = Given
    BY <1>1 DEF Given, Granted
  <2>3. Abs!Take(cur, s)
    BY <1>1, <2>1, <2>2 DEF Abs!Take, Abs!Owning, MayWait
  <2> QED BY <1>0, <2>3 DEF Abs!Next
<1>2. CASE ~(semcount[s] > 0)
  <2>1. semcount[s] <= 0
    BY <1>0, <1>2 DEF TypeOK
  <2>2. \A t \in Task \ {cur} : pc'[t] = pc[t] /\ psem'[t] = psem[t] /\ pterrno'[t] = pterrno[t]
    BY <1>2 DEF SemInv, TypeOK
  <2> QED BY <1>2, <2>1, <2>2, RefWait
<1> QED BY <1>1, <1>2

LEMMA RefWaitReturn == ASSUME SemInv, WaitReturn PROVE [Abs!Next]_(Abs!absVars)
<1> USE DEF WaitReturn
<1>1. /\ cur \in Task /\ TypeOK /\ waitsem[cur] = NoSem
      /\ psem[cur] \in Sem /\ psem[cur] # NoSem
  BY CurFacts, SemConstants DEF SemInv, WaitInv
<1>2. pc'[cur] \in {"run", "timed"} /\ \A t \in Task \ {cur} : pc'[t] = pc[t] /\ psem'[t] = psem[t]
  BY <1>1 DEF TypeOK
<1>3. \A t \in Task : t = cur => ~Granted(t, psem[t])'
  BY <1>2 DEF Granted
<1>4. CASE GotCount
  <2>1. Given[cur] = psem[cur]
    BY <1>1, <1>4 DEF Given, Granted, GotCount
  <2>2. Given' = [Given EXCEPT ![cur] = NoSem]
    <3>1. Given' = [Given EXCEPT ![cur] = Given'[cur]]
      BY <1>1, <1>2, GivenChanges
    <3>2. Given'[cur] = NoSem
      BY <1>1, <1>3 DEF Given
    <3> QED BY <3>1, <3>2
  <2>3. Avail' = Avail
    BY DEF Avail
  <2>4. Abs!Return(cur)
    BY <1>1, <1>3, <1>4, <2>1, <2>2, <2>3 DEF Abs!Return, Abs!Owning
  <2> QED BY <1>1, <2>4 DEF Abs!Next
<1>5. CASE ~GotCount
  <2>1. ~Granted(cur, psem[cur])
    BY <1>5 DEF Granted, GotCount
  <2>2. Given' = Given
    BY <1>2, <1>3, <2>1, GivenSame
  <2> QED BY <1>1, <1>5, <2>2, Stutters
<1> QED BY <1>4, <1>5

LEMMA RefTimedReturn == ASSUME SemInv, TimedReturn PROVE UNCHANGED Abs!absVars
<1> USE DEF TimedReturn
<1>1. cur \in Task /\ TypeOK
  BY DEF SemInv, TypeOK
<1>2. pc'[cur] = "run" /\ \A t \in Task \ {cur} : pc'[t] = pc[t]
  BY <1>1 DEF TypeOK
<1>3. \A t \in Task : t = cur => ~Granted(t, psem[t]) /\ ~Granted(t, psem[t])'
  BY <1>2 DEF Granted
<1>4. Given' = Given
  BY <1>2, <1>3, GivenSame
<1> QED BY <1>1, <1>4, Stutters

LEMMA RefPostReturn == ASSUME SemInv, PostReturn PROVE UNCHANGED Abs!absVars
<1> USE DEF PostReturn
<1>1. cur \in Task /\ TypeOK
  BY DEF SemInv, TypeOK
<1>2. pc'[cur] = "run" /\ \A t \in Task \ {cur} : pc'[t] = pc[t] /\ psem'[t] = psem[t]
  BY <1>1 DEF TypeOK
<1>3. \A t \in Task : t = cur => ~Granted(t, psem[t]) /\ ~Granted(t, psem[t])'
  BY <1>2 DEF Granted
<1>4. Given' = Given
  BY <1>2, <1>3, GivenSame
<1> QED BY <1>1, <1>4, Stutters

\* A post hands its count to w.
LEMMA RefHandOver ==
    ASSUME SemInv, NEW w \in Task, NEW s \in Sem, waitsem[w] = s,
           semcount' = [semcount EXCEPT ![s] = @ + 1],
           waitsem' = [waitsem EXCEPT ![w] = NoSem], pterrno' = pterrno,
           \A t \in Task : (pc'[t] = pc[t] /\ psem'[t] = psem[t])
                           \/ (t = cur /\ pc[t] = "run" /\ pc'[t] \notin {"wait", "waitisr"})
    PROVE  Abs!GiveBack(s)
<1>1. TypeOK /\ s # NoSem /\ w # cur /\ semcount[s] < 0
  BY SemConstants, WaiterFacts DEF SemInv
<1>2. Avail' = Avail
  BY <1>1, AvailSame
<1>3. pc[w] \in {"wait", "waitisr"} /\ psem[w] = s /\ pterrno[w] = "OK"
  BY <1>1 DEF SemInv, WaitInv
<1>4. Granted(w, psem[w])' /\ psem'[w] = s
  BY <1>1, <1>3 DEF Granted, TypeOK
<1>5. \A t \in Task \ {w} : waitsem'[t] = waitsem[t]
  BY <1>1 DEF TypeOK
<1>6. Given' = [Given EXCEPT ![w] = Given'[w]]
  <2>1. ASSUME NEW t \in Task \ {w}
        PROVE  \/ /\ pc'[t] = pc[t] /\ psem'[t] = psem[t]
                  /\ waitsem'[t] = waitsem[t] /\ pterrno'[t] = pterrno[t]
               \/ ~Granted(t, psem[t]) /\ ~Granted(t, psem[t])'
    BY <1>5 DEF Granted
  <2> QED BY <2>1, GivenChanges
<1>7. Given'[w] = s
  BY <1>4 DEF Given
<1> QED BY <1>2, <1>6, <1>7 DEF Abs!GiveBack

\* A post that nobody waits for.
LEMMA RefPostCount ==
    ASSUME SemInv, NEW s \in Sem, ~WakesWaiter(s),
           semcount' = [semcount EXCEPT ![s] = @ + 1], UNCHANGED <<waitsem, pterrno, pc, psem>>
    PROVE  Abs!GiveBack(s)
<1>1. TypeOK /\ semcount[s] >= 0
  BY DEF SemInv, TypeOK, WakesWaiter
<1>2. \A w \in Task : waitsem[w] # s
  BY <1>1 DEF SemInv, CountInv
<1>3. Avail' = [Avail EXCEPT ![s] = @ + 1]
  BY <1>1, AvailGiven
<1>4. Given' = Given
  BY DEF Given, Granted
<1> QED BY <1>2, <1>3, <1>4 DEF Abs!GiveBack

LEMMA RefSemPost == ASSUME SemInv, NEW s \in Sem, SemPost(s) PROVE Abs!Next
<1>0. /\ cur \in Task /\ pc[cur] = "run"
      /\ semcount' = [semcount EXCEPT ![s] = @ + 1]
      /\ s \in Mutex => s \in own[cur]
      /\ own' = [own EXCEPT ![cur] = @ \ {s}]
      /\ pterrno' = pterrno
  BY DEF SemInv, TypeOK, SemPost, Running
<1>1. CASE ~WakesWaiter(s)
  <2>1. Abs!GiveBack(s)
    BY <1>0, <1>1, RefPostCount DEF SemPost, PostCount
  <2>2. Abs!Post(cur, s)
    BY <1>0, <2>1 DEF Abs!Post
  <2> QED BY <1>0, <2>2 DEF Abs!Next
<1>2. CASE WakesWaiter(s)
  <2>1. PICK w \in FirstWaiter(s) : PostTo(w, s)
    BY <1>2 DEF SemPost
  <2>2. w \in Task /\ waitsem[w] = s
    BY DEF FirstWaiter, Highest, Waiters
  <2>3. /\ waitsem' = [waitsem EXCEPT ![w] = NoSem]
        /\ \/ UNCHANGED <<pc, psem>>
           \/ /\ psem' = [psem EXCEPT ![cur] = s]
              /\ \E k \in {"post", "postbase"} : pc' = [pc EXCEPT ![cur] = k]
    BY <2>1 DEF PostTo
  <2>4. \A t \in Task : (pc'[t] = pc[t] /\ psem'[t] = psem[t])
                        \/ (t = cur /\ pc[t] = "run" /\ pc'[t] \notin {"wait", "waitisr"})
    BY <1>0, <2>3 DEF SemInv, TypeOK
  <2>5. Abs!GiveBack(s)
    BY <1>0, <2>2, <2>3, <2>4, RefHandOver
  <2>6. Abs!Post(cur, s)
    BY <1>0, <2>5 DEF Abs!Post
  <2> QED BY <1>0, <2>6 DEF Abs!Next
<1> QED BY <1>1, <1>2

LEMMA RefIsrPost == ASSUME SemInv, NEW s \in Sem, IsrPost(s) \/ SemPostFromIsr(s) PROVE Abs!Next
<1>0. /\ s \notin Mutex /\ semcount' = [semcount EXCEPT ![s] = @ + 1]
      /\ UNCHANGED <<pterrno, pc, psem, own>>
  BY DEF IsrPost, SemPostFromIsr
<1>1. CASE ~WakesWaiter(s)
  <2>1. waitsem' = waitsem
    BY <1>1 DEF IsrPost, SemPostFromIsr
  <2>2. Abs!GiveBack(s)
    BY <1>0, <1>1, <2>1, RefPostCount
  <2> QED BY <1>0, <2>2 DEF Abs!PostByHandler, Abs!Next
<1>2. CASE WakesWaiter(s)
  <2>1. PICK w \in FirstWaiter(s) : waitsem' = [waitsem EXCEPT ![w] = NoSem]
    BY <1>2 DEF IsrPost, IsrPostTo, SemPostFromIsr
  <2>2. w \in Task /\ waitsem[w] = s
    BY DEF FirstWaiter, Highest, Waiters
  <2>3. Abs!GiveBack(s)
    BY <1>0, <2>1, <2>2, RefHandOver
  <2> QED BY <1>0, <2>3 DEF Abs!PostByHandler, Abs!Next
<1> QED BY <1>1, <1>2

\* A wait that ends without a count.
LEMMA RefCancel ==
    ASSUME SemInv, NEW w \in Task, state[w] = "WAIT_SEM",
           semcount' = [semcount EXCEPT ![waitsem[w]] = @ + 1],
           waitsem' = [waitsem EXCEPT ![w] = NoSem],
           NEW err \in {"EINTR", "ETIMEDOUT"}, pterrno' = [pterrno EXCEPT ![w] = err],
           UNCHANGED <<pc, psem, own>>
    PROVE  Abs!Next
<1>1. waitsem[w] # NoSem /\ TypeOK
  BY DEF SemInv, WaitInv
<1>2. waitsem[w] \in Sem /\ semcount[waitsem[w]] < 0
  BY <1>1, WaiterFacts
<1>3. Avail' = Avail
  BY <1>1, <1>2, AvailSame
<1>4. /\ pterrno'[w] = err /\ err # "OK"
      /\ \A t \in Task \ {w} : pterrno'[t] = pterrno[t] /\ waitsem'[t] = waitsem[t]
  BY <1>1 DEF TypeOK
<1>5. ~Granted(w, psem[w]) /\ ~Granted(w, psem[w])'
  BY <1>1, <1>4 DEF Granted
<1>6. Given' = Given
  BY <1>4, <1>5, GivenSame
<1>7. Abs!Cancel(w)
  BY <1>1, <1>3, <1>6 DEF Abs!Cancel
<1> QED BY <1>7 DEF Abs!Next

LEMMA RefTimeout == ASSUME SemInv, NEW w \in Task, Timeout(w) PROVE [Abs!Next]_(Abs!absVars)
<1>1. CASE state[w] = "WAIT_SEM"
  BY <1>1, RefCancel DEF Timeout, IsrCancel
<1>2. CASE state[w] # "WAIT_SEM"
  <2>1. UNCHANGED <<semcount, waitsem, pterrno, pc, psem, own>>
    BY <1>2 DEF Timeout
  <2>2. Given' = Given
    BY <2>1 DEF Given, Granted
  <2> QED BY <2>1, <2>2, Stutters DEF SemInv
<1> QED BY <1>1, <1>2

\* Every step is one of the abstract semaphores, or none.
LEMMA RefStep == SemInv /\ [Next]_vars => [Abs!Next]_(Abs!absVars)
<1> SUFFICES ASSUME SemInv, [Next]_vars PROVE [Abs!Next]_(Abs!absVars)
  OBVIOUS
<1>0. TypeOK
  BY DEF SemInv
<1>1. CASE SchedLock \/ SchedUnlock \/ SchedYield \/ Sleep \/ (\E t \in Task : Wake(t))
  <2>1. UNCHANGED semVars
    BY <1>1 DEF SchedLock, SchedUnlock, SchedYield, Sleep, Wake
  <2> QED BY <1>0, <2>1, SchedulerStutters
<1>2. ASSUME NEW s \in Sem, SemTryWait(s) \/ (\E timed \in BOOLEAN : SemBlock(s, timed))
                            \/ SemWaitForIsr(s) \/ SemPost(s)
      PROVE  Abs!Next
  BY <1>2, RefTryWait, RefSemBlock, RefSemWaitForIsr, RefSemPost
<1>3. CASE WaitReturn \/ TimedReturn \/ PostReturn
  BY <1>3, RefWaitReturn, RefTimedReturn, RefPostReturn
<1>4. CASE TaskStep
  BY <1>1, <1>2, <1>3, <1>4 DEF TaskStep
<1>5. CASE IsrStep
  BY <1>1, <1>5, RefIsrPost DEF IsrStep
<1>6. ASSUME NEW w \in Task, IsrSignal(w) \/ SigKill(w) PROVE Abs!Next
  BY <1>6, RefCancel DEF IsrSignal, IsrCancel, SigKill, Unwait
<1>7. CASE CancelStep
  BY <1>6, <1>7, RefTimeout DEF CancelStep
<1>8. CASE UNCHANGED vars
  BY <1>0, <1>8, SchedulerStutters DEF vars
<1> QED BY <1>4, <1>5, <1>7, <1>8 DEF Next

LEMMA RefInit == Init => Abs!Init
<1> SUFFICES ASSUME Init PROVE Abs!Init
  OBVIOUS
<1>1. Avail = [s \in Sem |-> IF s \in Mutex THEN 1 ELSE 0]
  BY DEF Init, Avail
<1>2. Given = [t \in Task |-> NoSem]
  BY DEF Init, Given, Granted
<1> QED BY <1>1, <1>2 DEF Init, Abs!Init

(***************************************************************************)
(* The semaphores implement the abstract ones: ImplementsSemAbs.           *)
(***************************************************************************)
THEOREM Implementation == Spec => ImplementsSemAbs
<1>1. Abs!Spec <=> Abs!Init /\ [][Abs!Next]_(Abs!absVars)
  BY DEF Abs!Spec
<1> QED BY <1>1, RefInit, RefStep, SemInvariant, PTL DEF Spec, ImplementsSemAbs

-----------------------------------------------------------------------------
(***************************************************************************)
(* Mutual exclusion is a matter of the abstract steps: at most one task    *)
(* owns a mutex or was given it, and one count is available or none.       *)
(***************************************************************************)
AbsUsers(s) == {t \in Task : s \in own[t] \/ Given[t] = s}

Exclusion ==
    \A s \in Mutex :
       /\ Avail[s] \in {0, 1}
       /\ \A t, u \in AbsUsers(s) : t = u
       /\ Avail[s] = 1 <=> AbsUsers(s) = {}

\* The abstract state has its types.
LEMMA AbsTypes ==
    ASSUME SemInv
    PROVE  /\ Avail \in [Sem -> Nat] /\ own \in [Task -> SUBSET Mutex]
           /\ Given \in [Task -> Sem \cup {NoSem}] /\ waitsem \in [Task -> Sem \cup {NoSem}]
           /\ \A t \in Task : waitsem[t] # NoSem => Given[t] = NoSem
           /\ NoSem \notin Sem /\ Mutex \subseteq Sem
<1>1. Avail \in [Sem -> Nat]
  BY DEF SemInv, TypeOK, Avail
<1>2. Given \in [Task -> Sem \cup {NoSem}]
  BY DEF SemInv, TypeOK, Given
<1>3. \A t \in Task : waitsem[t] # NoSem => Given[t] = NoSem
  BY DEF Given, Granted
<1> QED BY <1>1, <1>2, <1>3, SemConstants DEF SemInv, TypeOK

\* The users and the available count of m stay.
LEMMA ExclusionSame ==
    ASSUME Exclusion, NEW m \in Mutex, Avail'[m] = Avail[m],
           \A t \in Task : (m \in own'[t] \/ Given'[t] = m) <=> (m \in own[t] \/ Given[t] = m)
    PROVE  /\ Avail'[m] \in {0, 1}
           /\ \A t, u \in AbsUsers(m)' : t = u
           /\ Avail'[m] = 1 <=> AbsUsers(m)' = {}
<1>1. AbsUsers(m)' = AbsUsers(m)
  BY DEF AbsUsers
<1> QED BY <1>1 DEF Exclusion

\* A task is not given a mutex that it owns: it does not wait for one.
LEMMA GivenNotOwned ==
    ASSUME SemInv, NEW t \in Task, NEW s \in Sem, s \in own[t]
    PROVE  Given[t] # s
<1>1. s # NoSem
  BY SemConstants
<1> QED BY <1>1 DEF SemInv, WaitInv, Given, Granted

\* Every step of the abstract semaphores keeps the exclusion.
LEMMA ExclusionStep == SemInv /\ Exclusion /\ [Abs!Next]_(Abs!absVars) => Exclusion'
<1> SUFFICES ASSUME SemInv, Exclusion, [Abs!Next]_(Abs!absVars), NEW m \in Mutex
             PROVE  /\ Avail'[m] \in {0, 1}
                    /\ \A t, u \in AbsUsers(m)' : t = u
                    /\ Avail'[m] = 1 <=> AbsUsers(m)' = {}
  BY DEF Exclusion
<1> DEFINE Goal == /\ Avail'[m] \in {0, 1}
                   /\ \A t, u \in AbsUsers(m)' : t = u
                   /\ Avail'[m] = 1 <=> AbsUsers(m)' = {}
<1>0. /\ Avail \in [Sem -> Nat] /\ own \in [Task -> SUBSET Mutex]
      /\ Given \in [Task -> Sem \cup {NoSem}] /\ waitsem \in [Task -> Sem \cup {NoSem}]
      /\ \A t \in Task : waitsem[t] # NoSem => Given[t] = NoSem
      /\ NoSem \notin Sem /\ m \in Sem /\ m # NoSem
  BY AbsTypes
<1>e. /\ Avail[m] \in {0, 1}
      /\ \A t, u \in AbsUsers(m) : t = u
      /\ Avail[m] = 1 <=> AbsUsers(m) = {}
  BY DEF Exclusion
<1>1. ASSUME NEW t \in Task, NEW s \in Sem, Abs!Take(t, s) PROVE Goal
  <2>1. CASE s = m
    <3>1. Avail[m] = 1 /\ Avail'[m] = 0
      BY <1>0, <1>e, <1>1, <2>1 DEF Abs!Take
    <3>2. AbsUsers(m) = {}
      BY <1>e, <3>1
    <3>3. AbsUsers(m)' = {t}
      <4>1. own' = [own EXCEPT ![t] = @ \cup {m}] /\ Given' = Given
        BY <1>1, <2>1 DEF Abs!Take, Abs!Owning
      <4> QED BY <1>0, <3>2, <4>1 DEF AbsUsers
    <3> QED BY <3>1, <3>3
  <2>2. CASE s # m
    <3>1. Avail'[m] = Avail[m] /\ Given' = Given
      BY <1>0, <1>1, <2>2 DEF Abs!Take
    <3>2. \A u \in Task : m \in own'[u] <=> m \in own[u]
      BY <1>0, <1>1, <2>2 DEF Abs!Take, Abs!Owning
    <3> QED BY <3>1, <3>2, ExclusionSame
  <2> QED BY <2>1, <2>2
<1>2. ASSUME NEW s \in Sem, Abs!GiveBack(s), s # m, \A t \in Task : m \in own'[t] <=> m \in own[t]
      PROVE  Goal
  <2>1. Avail'[m] = Avail[m]
    BY <1>0, <1>2 DEF Abs!GiveBack
  <2>2. ASSUME NEW t \in Task PROVE Given'[t] = m <=> Given[t] = m
    BY <1>0, <1>2 DEF Abs!GiveBack
  <2> QED BY <1>2, <2>1, <2>2, ExclusionSame
<1>3. ASSUME NEW t \in Task, NEW s \in Sem, Abs!Post(t, s) PROVE Goal
  <2>0. own' = [own EXCEPT ![t] = @ \ {s}]
    BY <1>3 DEF Abs!Post
  <2>1. CASE s # m
    <3>1. \A u \in Task : m \in own'[u] <=> m \in own[u]
      BY <1>0, <2>0, <2>1
    <3> QED BY <1>2, <1>3, <2>1, <3>1 DEF Abs!Post
  <2>2. CASE s = m
    <3>1. t \in AbsUsers(m)
      BY <1>3, <2>2 DEF Abs!Post, AbsUsers
    <3>2. Avail[m] = 0 /\ \A u \in Task : m \in own[u] \/ Given[u] = m => u = t
      BY <1>e, <3>1 DEF AbsUsers
    <3>3. ASSUME NEW u \in Task PROVE m \notin own'[u]
      BY <1>0, <2>0, <2>2, <3>2
    <3>4. ASSUME NEW w \in Task, waitsem[w] = m, Given' = [Given EXCEPT ![w] = m], Avail' = Avail
          PROVE  Goal
      <4>1. Given[t] # m
        <5>1. m \in own[t]
          BY <1>3, <2>2 DEF Abs!Post
        <5> QED BY <5>1, <1>0, GivenNotOwned
      <4>2. AbsUsers(m)' = {w}
        BY <1>0, <3>2, <3>3, <3>4, <4>1 DEF AbsUsers
      <4> QED BY <3>2, <3>4, <4>2
    <3>5. ASSUME Avail' = [Avail EXCEPT ![m] = @ + 1], Given' = Given
          PROVE  Goal
      <4>1. Given[t] # m
        <5>1. m \in own[t]
          BY <1>3, <2>2 DEF Abs!Post
        <5> QED BY <5>1, <1>0, GivenNotOwned
      <4>2. AbsUsers(m)' = {}
        BY <3>2, <3>3, <3>5, <4>1 DEF AbsUsers
      <4>3. Avail'[m] = 1
        BY <1>0, <3>2, <3>5
      <4> QED BY <4>2, <4>3
    <3> QED BY <1>3, <2>2, <3>4, <3>5 DEF Abs!Post, Abs!GiveBack
  <2> QED BY <2>1, <2>2
<1>4. ASSUME NEW s \in Sem, Abs!PostByHandler(s) PROVE Goal
  BY <1>2, <1>4 DEF Abs!PostByHandler
<1>5. ASSUME NEW t \in Task, Abs!Return(t) PROVE Goal
  <2>1. Avail' = Avail /\ Given' = [Given EXCEPT ![t] = NoSem] /\ own' = Abs!Owning(t, Given[t])
    BY <1>5 DEF Abs!Return
  <2>2. ASSUME NEW u \in Task
        PROVE  (m \in own'[u] \/ Given'[u] = m) <=> (m \in own[u] \/ Given[u] = m)
    BY <1>0, <2>1 DEF Abs!Owning
  <2> QED BY <2>1, <2>2, ExclusionSame
<1>6. ASSUME UNCHANGED <<Avail, Given, own>> PROVE Goal
  BY <1>6, ExclusionSame
<1>7. ASSUME NEW t \in Task, NEW s \in Sem, Abs!Wait(t, s) PROVE Goal
  BY <1>6, <1>7 DEF Abs!Wait
<1>8. ASSUME NEW t \in Task, Abs!Cancel(t) PROVE Goal
  BY <1>6, <1>8 DEF Abs!Cancel
<1>9. CASE Abs!Next
  <2> HIDE DEF Goal
  <2>1. Goal
    BY <1>1, <1>3, <1>4, <1>5, <1>7, <1>8, <1>9 DEF Abs!Next
  <2> QED BY <2>1 DEF Goal
<1>10. CASE UNCHANGED Abs!absVars
  BY <1>6, <1>10 DEF Abs!absVars
<1> QED BY <1>9, <1>10

LEMMA ExclusionInit == Init => Exclusion
<1> SUFFICES ASSUME Init, NEW s \in Mutex
             PROVE  Avail[s] = 1 /\ AbsUsers(s) = {}
  BY DEF Exclusion
<1>1. s \in Sem /\ s # NoSem
  BY SemConstants
<1>2. Avail[s] = 1
  BY <1>1 DEF Init, Avail
<1>3. AbsUsers(s) = {}
  BY <1>1 DEF Init, AbsUsers, Given, Granted
<1> QED BY <1>2, <1>3

(***************************************************************************)
(* A mutex excludes, and its count is neither lost nor doubled:            *)
(* MutualExclusion, for any number of tasks and semaphores.                *)
(***************************************************************************)
THEOREM MutexesExclude == Spec => []MutualExclusion
<1>1. SemInv /\ Exclusion => MutualExclusion
  <2> SUFFICES ASSUME SemInv, Exclusion, NEW s \in Mutex
               PROVE  /\ \A t, u \in Users(s) : t = u
                      /\ semcount[s] <= 1
                      /\ semcount[s] = 1 <=> Users(s) = {}
    BY DEF MutualExclusion
  <2>1. s \in Sem /\ s # NoSem /\ semcount[s] \in Int
    BY SemConstants DEF SemInv, TypeOK
  <2>2. Users(s) = AbsUsers(s)
    BY <2>1 DEF Users, AbsUsers, Given, Granted
  <2>3. Avail[s] = IF semcount[s] > 0 THEN semcount[s] ELSE 0
    BY <2>1 DEF Avail
  <2>4. semcount[s] <= 1 /\ (semcount[s] = 1 <=> Avail[s] = 1)
    BY <2>1, <2>3 DEF Exclusion
  <2> QED BY <2>2, <2>4 DEF Exclusion
<1>2. SemInv /\ Exclusion /\ [Next]_vars => Exclusion'
  BY RefStep, ExclusionStep
<1> QED BY <1>1, <1>2, ExclusionInit, SemInvariant, PTL DEF Spec

-----------------------------------------------------------------------------
(***************************************************************************)
(* The watchdog of a timed wait.                                           *)
(***************************************************************************)
\* A step that leaves the watchdog of t alone, and t in its call or out of one.
LEMMA DogSame ==
    ASSUME TimeoutOnlyInTimedWait, NEW t \in Task, waitdog'[t] => waitdog[t],
           pc'[t] = pc[t] \/ pc[t] \notin {"wait", "timed"} \/ pc'[t] \in {"wait", "timed"},
           pterrno'[t] = pterrno[t] \/ pterrno'[t] # "ETIMEDOUT" \/ ~waitdog'[t]
    PROVE  waitdog'[t] => pc'[t] \in {"wait", "timed"} /\ pterrno'[t] # "ETIMEDOUT"
BY DEF TimeoutOnlyInTimedWait

\* Every step keeps watchdogs in their waits.
LEMMA DogStep == SemInv /\ TimeoutOnlyInTimedWait /\ [Next]_vars => TimeoutOnlyInTimedWait'
<1> SUFFICES ASSUME SemInv, TimeoutOnlyInTimedWait, [Next]_vars, NEW t \in Task
             PROVE  waitdog'[t] => pc'[t] \in {"wait", "timed"} /\ pterrno'[t] # "ETIMEDOUT"
  BY DEF TimeoutOnlyInTimedWait
<1>0. /\ cur \in Task /\ waitdog \in [Task -> BOOLEAN] /\ pc \in [Task -> PC]
      /\ pterrno \in [Task -> {"OK", "EINTR", "ETIMEDOUT"}]
  BY DEF SemInv, TypeOK
<1>1. CASE UNCHANGED semVars
  BY <1>1, DogSame DEF semVars
<1>2. CASE SchedLock \/ SchedUnlock \/ SchedYield \/ Sleep \/ (\E u \in Task : Wake(u)) \/ UNCHANGED vars
  BY <1>1, <1>2 DEF SchedLock, SchedUnlock, SchedYield, Sleep, Wake, vars
<1>3. ASSUME NEW s \in Sem, SemTryWait(s) \/ IsrPost(s) \/ SemPostFromIsr(s) PROVE UNCHANGED <<waitdog, pc, pterrno>>
  BY <1>3 DEF SemTryWait, TakeCount, IsrPost, SemPostFromIsr
<1>4. ASSUME NEW s \in Sem, NEW timed \in BOOLEAN, SemBlock(s, timed)
      PROVE  waitdog'[t] => pc'[t] \in {"wait", "timed"} /\ pterrno'[t] # "ETIMEDOUT"
  <2>1. CASE t = cur
    <3>1. pc'[t] = "wait" /\ pterrno'[t] = "OK"
      BY <1>0, <1>4, <2>1 DEF SemBlock
    <3> QED BY <3>1
  <2>2. CASE t # cur
    <3>1. pc'[t] = pc[t] /\ pterrno'[t] = pterrno[t] /\ waitdog'[t] = waitdog[t]
      BY <1>0, <1>4, <2>2 DEF SemBlock
    <3> QED BY <3>1, DogSame
  <2> QED BY <2>1, <2>2
<1>5. ASSUME NEW s \in Sem, SemWaitForIsr(s)
      PROVE  waitdog'[t] => pc'[t] \in {"wait", "timed"} /\ pterrno'[t] # "ETIMEDOUT"
  <2>1. pc[cur] = "run" /\ waitdog' = waitdog
    BY <1>5 DEF SemWaitForIsr, MayWait, Running
  <2>2. pc[cur] \notin {"wait", "timed"}
    BY <2>1
  <2>3. t # cur => pc'[t] = pc[t] /\ pterrno'[t] = pterrno[t]
    BY <1>0, <1>5 DEF SemWaitForIsr
  <2>4. t = cur => ~waitdog'[t]
    BY <2>1, <2>2 DEF TimeoutOnlyInTimedWait
  <2> QED BY <2>1, <2>3, <2>4, DogSame
<1>6. ASSUME NEW s \in Sem, SemPost(s)
      PROVE  waitdog'[t] => pc'[t] \in {"wait", "timed"} /\ pterrno'[t] # "ETIMEDOUT"
  <2>1. pc[cur] = "run" /\ waitdog' = waitdog /\ pterrno' = pterrno
    BY <1>6 DEF SemPost, Running
  <2>2. t # cur => pc'[t] = pc[t]
    <3>1. \/ pc' = pc
          \/ \E k \in {"post", "postbase"} : pc' = [pc EXCEPT ![cur] = k]
      <4>1. CASE PostCount(s)
        BY <4>1 DEF PostCount
      <4>2. ASSUME NEW w, PostTo(w, s)
            PROVE  pc' = pc \/ \E k \in {"post", "postbase"} : pc' = [pc EXCEPT ![cur] = k]
        BY <4>2 DEF PostTo
      <4> QED BY <1>6, <4>1, <4>2 DEF SemPost
    <3> QED BY <1>0, <3>1
  <2>3. t = cur => pc[t] \notin {"wait", "timed"}
    BY <2>1
  <2> QED BY <2>1, <2>2, <2>3, DogSame
<1>7. ASSUME WaitReturn
      PROVE  waitdog'[t] => pc'[t] \in {"wait", "timed"} /\ pterrno'[t] # "ETIMEDOUT"
  <2>1. waitdog' = waitdog /\ pterrno' = pterrno
    BY <1>7 DEF WaitReturn
  <2>2. waitdog[t] => pc'[t] = pc[t] \/ pc'[t] = "timed"
    BY <1>0, <1>7 DEF WaitReturn
  <2> QED BY <2>1, <2>2 DEF TimeoutOnlyInTimedWait
<1>8. ASSUME TimedReturn \/ PostReturn
      PROVE  waitdog'[t] => pc'[t] \in {"wait", "timed"} /\ pterrno'[t] # "ETIMEDOUT"
  <2>1. pterrno' = pterrno /\ (t # cur => waitdog'[t] = waitdog[t] /\ pc'[t] = pc[t])
    BY <1>0, <1>8 DEF TimedReturn, PostReturn, WdCancel
  <2>2. t = cur => ~waitdog'[t]
    <3>1. CASE TimedReturn
      BY <1>0, <3>1 DEF TimedReturn, WdCancel
    <3>2. CASE PostReturn
      <4>1. waitdog' = waitdog /\ pc[cur] \notin {"wait", "timed"}
        BY <3>2 DEF PostReturn
      <4> QED BY <4>1 DEF TimeoutOnlyInTimedWait
    <3> QED BY <1>8, <3>1, <3>2
  <2> QED BY <2>1, <2>2, DogSame
<1>9. ASSUME NEW w \in Task, Timeout(w)
      PROVE  waitdog'[t] => pc'[t] \in {"wait", "timed"} /\ pterrno'[t] # "ETIMEDOUT"
  <2>1. pc' = pc /\ waitdog' = [waitdog EXCEPT ![w] = FALSE]
        /\ (pterrno' = pterrno \/ pterrno' = [pterrno EXCEPT ![w] = "ETIMEDOUT"])
    BY <1>9 DEF Timeout, IsrCancel
  <2>2. t = w => ~waitdog'[t]
    BY <1>0, <2>1
  <2>3. t # w => waitdog'[t] = waitdog[t] /\ pterrno'[t] = pterrno[t]
    BY <1>0, <2>1
  <2> QED BY <2>1, <2>2, <2>3, DogSame
<1>10. ASSUME NEW w \in Task, IsrSignal(w) \/ SigKill(w)
       PROVE  waitdog'[t] => pc'[t] \in {"wait", "timed"} /\ pterrno'[t] # "ETIMEDOUT"
  <2>1. pc' = pc /\ waitdog' = waitdog /\ pterrno' = [pterrno EXCEPT ![w] = "EINTR"]
    BY <1>10 DEF IsrSignal, IsrCancel, SigKill, Unwait
  <2>2. pterrno'[t] = pterrno[t] \/ pterrno'[t] = "EINTR"
    BY <1>0, <2>1
  <2> QED BY <2>1, <2>2, DogSame
<1> QED BY <1>2, <1>3, <1>4, <1>5, <1>6, <1>7, <1>8, <1>9, <1>10, DogSame
  DEF Next, TaskStep, IsrStep, CancelStep

(***************************************************************************)
(* A watchdog that runs belongs to the timed wait its task is in:          *)
(* TimeoutOnlyInTimedWait.                                                 *)
(***************************************************************************)
THEOREM DogsInTheirWait == Spec => []TimeoutOnlyInTimedWait
<1>1. Init => TimeoutOnlyInTimedWait
  BY DEF Init, TimeoutOnlyInTimedWait
<1> QED BY <1>1, DogStep, SemInvariant, PTL DEF Spec

-----------------------------------------------------------------------------
(***************************************************************************)
(* Boosts and restores stay above the base priority.                       *)
(***************************************************************************)
Above(h, n, p) == n >= Base[h] /\ \A k \in Prio : p[k] > 0 => k > Base[h]

\* Priorities are numbers.
LEMMA PrioTypes ==
    ASSUME TypeOK, NEW h \in Task
    PROVE  /\ prio[h] \in Prio /\ Base[h] \in Prio /\ pend[h] \in [Prio -> Nat]
           /\ \A k \in Prio : k \in Int
<1>1. prio[h] \in Prio /\ Base[h] \in Prio /\ pend[h] \in [Prio -> Nat]
  BY SemConstants DEF TypeOK
<1>2. \A k \in Prio : k \in Int
  BY SchedConstants DEF Prio
<1> QED BY <1>1, <1>2

\* A boost keeps the priority, and the pending ones, at the base priority or above.
LEMMA BoostAbove ==
    ASSUME TypeOK, NeverBelowBase, NEW h \in Task, NEW n \in Prio
    PROVE  Above(h, BoostedPrio(h, n), BoostedPend(h, n))
<1>1. prio[h] \in Int /\ Base[h] \in Int /\ n \in Int /\ pend[h] \in [Prio -> Nat] /\ prio[h] \in Prio
  BY PrioTypes
<1>2. prio[h] >= Base[h] /\ \A k \in Prio : pend[h][k] > 0 => k > Base[h]
  BY DEF NeverBelowBase
<1>3. BoostedPrio(h, n) >= Base[h]
  BY <1>1, <1>2 DEF BoostedPrio
<1>4. ASSUME NEW j \in Prio, j > Base[h], NEW k \in Prio, [pend[h] EXCEPT ![j] = @ + 1][k] > 0
      PROVE  k > Base[h]
  BY <1>1, <1>2, <1>4
<1>5. \/ BoostedPend(h, n) = pend[h]
      \/ \E j \in Prio : j > Base[h] /\ BoostedPend(h, n) = [pend[h] EXCEPT ![j] = @ + 1]
  <2>1. CASE n <= Base[h]
    <3>1. ~(n > Base[h])
      BY <1>1, <2>1
    <3> QED BY <2>1, <3>1 DEF BoostedPend
  <2>2. CASE n > Base[h] /\ n <= prio[h]
    <3>1. ~(n <= Base[h]) /\ ~(n > prio[h])
      BY <1>1, <2>2
    <3> QED BY <2>2, <3>1 DEF BoostedPend
  <2>3. CASE n > Base[h] /\ n > prio[h]
    <3>1. ~(n <= Base[h]) /\ ~(n <= prio[h])
      BY <1>1, <2>3
    <3> QED BY <1>1, <2>3, <3>1 DEF BoostedPend
  <2>4. n <= Base[h] \/ (n > Base[h] /\ n <= prio[h]) \/ (n > Base[h] /\ n > prio[h])
    BY <1>1
  <2> QED BY <2>1, <2>2, <2>3, <2>4
<1>6. \A k \in Prio : BoostedPend(h, n)[k] > 0 => k > Base[h]
  BY <1>2, <1>4, <1>5
<1> QED BY <1>3, <1>6 DEF Above

\* So does a restore, which comes down to a pending priority or to the base priority.
LEMMA RestoreAbove ==
    ASSUME TypeOK, NeverBelowBase, NEW h \in Task, NEW n \in Prio
    PROVE  Above(h, RestoredPrio(h, n), RestoredPend(h, n))
<1>1. prio[h] \in Int /\ Base[h] \in Int /\ n \in Int /\ pend[h] \in [Prio -> Nat]
      /\ \A k \in Prio : k \in Int
  BY PrioTypes
<1>2. prio[h] >= Base[h] /\ \A k \in Prio : pend[h][k] > 0 => k > Base[h]
  BY DEF NeverBelowBase
<1>3. ASSUME pend[h] # NoPend
      PROVE  MaxPending(h) \in Prio /\ pend[h][MaxPending(h)] > 0
  <2> DEFINE S == {k \in Prio : pend[h][k] > 0}
  <2>1. S # {}
    <3>1. pend[h] = [k \in Prio |-> pend[h][k]] /\ \A k \in Prio : pend[h][k] \in Nat
      BY <1>1
    <3>2. PICK k \in Prio : pend[h][k] # 0
      BY <1>3, <3>1 DEF NoPend
    <3> QED BY <3>1, <3>2
  <2>2. Max(S) \in S
    BY <2>1, MaxOfPrios
  <2> QED BY <2>2 DEF MaxPending
<1>4. RestoredPrio(h, n) >= Base[h]
  <2>1. RestoredPrio(h, n) \in {prio[h], Base[h]}
        \/ (pend[h] # NoPend /\ RestoredPrio(h, n) = MaxPending(h))
    BY DEF RestoredPrio
  <2>2. ASSUME pend[h] # NoPend PROVE MaxPending(h) >= Base[h]
    <3> DEFINE m == MaxPending(h)
    <3>1. m \in Prio /\ pend[h][m] > 0
      BY <1>3, <2>2
    <3> HIDE DEF m
    <3>2. m \in Int /\ m > Base[h]
      BY <1>1, <1>2, <3>1
    <3>3. m >= Base[h]
      BY <1>1, <3>2
    <3> QED BY <3>3 DEF m
  <2> QED BY <1>1, <1>2, <2>1, <2>2
<1>5. \A k \in Prio : RestoredPend(h, n)[k] > 0 => pend[h][k] > 0
  <2>1. ASSUME NEW j \in Prio, NEW k \in Prio, [pend[h] EXCEPT ![j] = @ - 1][k] > 0
        PROVE  pend[h][k] > 0
    BY <1>1, <2>1
  <2>2. ASSUME NEW k \in Prio, [pend[h] EXCEPT ![n] = IF @ > 0 THEN @ - 1 ELSE @][k] > 0
        PROVE  pend[h][k] > 0
    BY <1>1, <2>2
  <2>3. \/ RestoredPend(h, n) = pend[h]
        \/ pend[h] # NoPend /\ RestoredPend(h, n) = [pend[h] EXCEPT ![MaxPending(h)] = @ - 1]
        \/ RestoredPend(h, n) = [pend[h] EXCEPT ![n] = IF @ > 0 THEN @ - 1 ELSE @]
    BY DEF RestoredPend
  <2> QED BY <1>3, <2>1, <2>2, <2>3
<1> QED BY <1>2, <1>4, <1>5 DEF Above

\* The restores of the holders of a semaphore.
LEMMA RestoredAbove ==
    ASSUME SemInv, NeverBelowBase, NEW w \in Task, NEW s, NEW H, \A t \in H : t \in Task,
           NEW n \in Compared(H, w, s), NEW n1, n1 \in {n, OwnRestored(H, w)},
           prio' = Restored(H, w, n, n1), pend' = RestoredPends(H, w, n, n1)
    PROVE  NeverBelowBase'
<1>1. TypeOK
  BY DEF SemInv
<1>2. n \in Prio /\ n1 \in Prio
  BY <1>1, ComparedTypes
<1>3. \A t \in Task : AgainstOf(t, w, n, n1) \in Prio
  BY <1>1, <1>2 DEF AgainstOf, TypeOK
<1> SUFFICES ASSUME NEW t \in Task PROVE Above(t, prio'[t], pend'[t])
  BY DEF NeverBelowBase, Above
<1>4. CASE t \in H
  <2>1. prio'[t] = RestoredPrio(t, AgainstOf(t, w, n, n1)) /\ pend'[t] = RestoredPend(t, AgainstOf(t, w, n, n1))
    BY <1>4 DEF Restored, RestoredPends
  <2> QED BY <1>1, <1>3, <2>1, RestoreAbove
<1>5. CASE t \notin H
  <2>1. prio'[t] = prio[t] /\ pend'[t] = pend[t]
    BY <1>5 DEF Restored, RestoredPends
  <2> QED BY <2>1 DEF NeverBelowBase, Above
<1> QED BY <1>4, <1>5

\* Every step keeps every task at its base priority or above.
LEMMA BaseStep == SemInv /\ NeverBelowBase /\ [Next]_vars => NeverBelowBase'
<1> SUFFICES ASSUME SemInv, NeverBelowBase, [Next]_vars PROVE NeverBelowBase'
  OBVIOUS
<1>0. TypeOK /\ cur \in Task /\ pend \in [Task -> [Prio -> Nat]]
  BY DEF SemInv, TypeOK
<1>1. ASSUME UNCHANGED <<prio, pend>> PROVE NeverBelowBase'
  BY <1>1 DEF NeverBelowBase
<1>2. CASE \/ SchedLock \/ SchedUnlock \/ SchedYield \/ Sleep \/ WaitReturn \/ TimedReturn
           \/ (\E t \in Task : Wake(t)) \/ UNCHANGED vars
           \/ \E s \in Sem : SemTryWait(s) \/ SemWaitForIsr(s) \/ SemPostFromIsr(s)
  <2>1. UNCHANGED <<prio, pend>>
    BY <1>2 DEF SchedLock, SchedUnlock, SchedYield, Sleep, WaitReturn, TimedReturn, Wake, vars, semVars,
                schedVars, SemTryWait, TakeCount, SemWaitForIsr, SemPostFromIsr
  <2> QED BY <1>1, <2>1
<1>3. ASSUME NEW s \in Sem, NEW timed, SemBlock(s, timed) PROVE NeverBelowBase'
  <2> SUFFICES ASSUME NEW t \in Task PROVE Above(t, prio'[t], pend'[t])
    BY DEF NeverBelowBase, Above
  <2>1. prio[cur] \in Prio
    BY <1>0 DEF TypeOK
  <2>2. /\ t \in holders[s] => prio'[t] = BoostedPrio(t, prio[cur]) /\ pend'[t] = BoostedPend(t, prio[cur])
        /\ t \notin holders[s] => prio'[t] = prio[t] /\ pend'[t] = pend[t]
    BY <1>3 DEF SemBlock
  <2>3. Above(t, prio[t], pend[t])
    BY DEF NeverBelowBase, Above
  <2> QED BY <1>0, <2>1, <2>2, <2>3, BoostAbove
<1>4. ASSUME NEW s \in Sem, SemPost(s) PROVE NeverBelowBase'
  <2>1. CASE ~WakesWaiter(s)
    BY <1>1, <1>4, <2>1 DEF SemPost, PostCount, schedVars
  <2>2. CASE WakesWaiter(s)
    <3>1. PICK w \in FirstWaiter(s) : PostTo(w, s)
      BY <1>4, <2>2 DEF SemPost
    <3> DEFINE H == AddHolder(w, s)[s]
    <3>2. PICK n \in Compared(H, w, s) :
            /\ prio' = Restored(H, w, n, OwnRestored(H, w))
            /\ pend' = RestoredPends(H, w, n, OwnRestored(H, w))
      BY <3>1 DEF PostTo
    <3>3. w \in Task
      BY DEF FirstWaiter, Highest, Waiters
    <3>4. \A t \in H : t \in Task
      BY <3>3, HolderTypes
    <3> HIDE DEF H
    <3> QED BY <3>2, <3>3, <3>4, RestoredAbove
  <2> QED BY <2>1, <2>2
<1>5. ASSUME NEW s \in Sem, IsrPost(s) PROVE NeverBelowBase'
  <2>1. CASE ~WakesWaiter(s)
    BY <1>1, <1>5, <2>1 DEF IsrPost, schedVars
  <2>2. CASE WakesWaiter(s)
    <3>1. PICK w \in FirstWaiter(s) : IsrPostTo(w, s)
      BY <1>5, <2>2 DEF IsrPost
    <3> DEFINE H == AddHolder(w, s)[s]
    <3>2. PICK n \in Compared(H, w, s) :
            prio' = Restored(H, w, n, n) /\ pend' = RestoredPends(H, w, n, n)
      BY <3>1 DEF IsrPostTo
    <3>3. w \in Task
      BY DEF FirstWaiter, Highest, Waiters
    <3>4. \A t \in H : t \in Task
      BY <3>3, HolderTypes
    <3> HIDE DEF H
    <3> QED BY <3>2, <3>3, <3>4, RestoredAbove
  <2> QED BY <2>1, <2>2
<1>6. CASE PostReturn
  <2>1. prio' = prio /\ pend' \in {pend, [pend EXCEPT ![cur] = NoPend]}
    BY <1>6 DEF PostReturn
  <2>2. ASSUME NEW t \in Task, NEW n \in Prio PROVE pend'[t][n] > 0 => pend[t][n] > 0
    BY <1>0, <2>1 DEF NoPend
  <2> QED BY <2>1, <2>2 DEF NeverBelowBase
<1>7. ASSUME NEW w \in Task, state[w] = "WAIT_SEM",
             \E n \in Compared(holders[waitsem[w]], w, waitsem[w]) :
                /\ prio' = Restored(holders[waitsem[w]], w, n, n)
                /\ pend' = RestoredPends(holders[waitsem[w]], w, n, n)
      PROVE  NeverBelowBase'
  <2> DEFINE H == holders[waitsem[w]]
  <2>1. \A t \in H : t \in Task
    BY <1>7 DEF SemInv, WaitInv, TypeOK
  <2> HIDE DEF H
  <2> QED BY <1>7, <2>1, RestoredAbove DEF H
<1>8. ASSUME NEW w \in Task, Timeout(w) \/ IsrSignal(w) \/ SigKill(w) PROVE NeverBelowBase'
  <2>1. CASE Timeout(w) /\ state[w] # "WAIT_SEM"
    BY <1>1, <2>1 DEF Timeout, schedVars
  <2>2. CASE IsrCancel(w, "ETIMEDOUT") \/ IsrCancel(w, "EINTR")
    BY <1>7, <2>2 DEF IsrCancel
  <2>3. CASE SigKill(w)
    BY <1>7, <2>3 DEF SigKill
  <2> QED BY <1>8, <2>1, <2>2, <2>3 DEF Timeout, IsrSignal
<1> QED BY <1>2, <1>3, <1>4, <1>5, <1>6, <1>8 DEF Next, TaskStep, IsrStep, CancelStep

(***************************************************************************)
(* However boosts and restores nest, with any size of pend_reprios: no     *)
(* task falls below its base priority, and it never keeps a priority to    *)
(* come down to that is not above it: NeverBelowBase.                      *)
(***************************************************************************)
THEOREM BaseIsFloor == Spec => []NeverBelowBase
<1>1. Init => NeverBelowBase
  <2> SUFFICES ASSUME Init, NEW t \in Task
               PROVE  prio[t] >= Base[t] /\ \A n \in Prio : ~(pend[t][n] > 0)
    BY DEF NeverBelowBase
  <2>1. Base[t] \in Prio
    BY SemConstants
  <2>2. Base[t] \in Int
    BY <2>1, SchedConstants DEF Prio
  <2>3. prio[t] = Base[t] /\ \A n \in Prio : pend[t][n] = 0
    BY DEF Init, NoPend
  <2> QED BY <2>2, <2>3
<1> QED BY <1>1, BaseStep, SemInvariant, PTL DEF Spec

-----------------------------------------------------------------------------
(***************************************************************************)
(* The entries of a mutex.  HoldersAreUsers is inductive together with the *)
(* facts that an entry of a mutex never counts to two, and that a task     *)
(* inside a sem_post has given the mutex away.                             *)
(***************************************************************************)
IsUser(t, s) == s \in own[t] \/ Granted(t, s)

\* What HolderInv says of task t and mutex s.
EntryOK(t, s) ==
    /\ counts[s][t] > 0 => IsUser(t, s) /\ t \in holders[s]
    /\ t \in holders[s] /\ counts[s][t] = 0 => pc[t] \in {"post", "postbase"} /\ psem[t] = s
    /\ Cardinality(Sem \X Task) <= Prealloc /\ IsUser(t, s) => t \in holders[s]
    /\ pc[t] \in {"post", "postbase"} /\ psem[t] = s => s \notin own[t]
    /\ counts[s][t] <= 1

HolderInv == \A s \in Mutex, t \in Task : EntryOK(t, s)

\* An entry that is not touched stays as it should be.
LEMMA EntrySame ==
    ASSUME NEW t, NEW s, EntryOK(t, s),
           counts'[s][t] = counts[s][t], t \in holders'[s] <=> t \in holders[s],
           IsUser(t, s)' <=> IsUser(t, s),
           \/ pc'[t] = pc[t] /\ psem'[t] = psem[t] /\ own'[t] = own[t]
           \/ {pc[t], pc'[t]} \cap {"post", "postbase"} = {}
    PROVE  EntryOK(t, s)'
BY DEF EntryOK

\* sem_findorallocateholder finds a free entry for a task that has none when
\* there is one for every task and semaphore.
LEMMA EntryIsFree ==
    ASSUME SemInv, NEW t \in Task, NEW s \in Sem, Cardinality(Sem \X Task) <= Prealloc
    PROVE  CanHold(t, s)
<1> DEFINE All == Sem \X Task
           In == {e \in All : e[2] \in holders[e[1]]}
<1>1. IsFiniteSet(All) /\ Prealloc \in Nat
  BY SemConstants, FS_Product
<1>2. CASE t \notin holders[s]
  <2>1. <<s, t>> \in All /\ <<s, t>> \notin In
    BY <1>2
  <2>2. In \in SUBSET All /\ In # All
    BY <2>1
  <2> HIDE DEF All, In
  <2>3. IsFiniteSet(In) /\ Cardinality(In) <= Cardinality(All) /\ Cardinality(In) # Cardinality(All)
    BY <1>1, <2>2, FS_Subset
  <2>4. Cardinality(In) \in Nat /\ Cardinality(All) \in Nat
    BY <1>1, <2>3, FS_CardinalityType
  <2>5. Cardinality(All) <= Prealloc
    BY DEF All
  <2>6. Cardinality(In) < Prealloc
    BY <1>1, <2>3, <2>4, <2>5
  <2> QED BY <2>6 DEF In, All, CanHold, HeldEntries
<1>3. CASE t \in holders[s]
  BY <1>3 DEF CanHold
<1> QED BY <1>2, <1>3

\* A running task has no entry without a count, and no entry of a mutex it
\* does not have; a waiting task has no entry of the mutex it waits for.
LEMMA RunnerEntry ==
    ASSUME SemInv, HolderInv, pc[cur] = "run", NEW s \in Mutex
    PROVE  /\ cur \in holders[s] => counts[s][cur] = 1
           /\ cur \notin holders[s] => counts[s][cur] = 0
           /\ IsUser(cur, s) <=> s \in own[cur]
           /\ s \notin own[cur] => cur \notin holders[s]
<1>1. EntryOK(cur, s) /\ counts[s][cur] \in Nat /\ cur \in Task
  BY SemConstants DEF HolderInv, SemInv, TypeOK
<1>2. IsUser(cur, s) <=> s \in own[cur]
  BY DEF IsUser, Granted
<1> QED BY <1>1, <1>2 DEF EntryOK

\* A task that waits for a mutex has no entry for it.
LEMMA WaiterEntry ==
    ASSUME SemInv, HolderInv, NEW s \in Mutex, NEW w \in Task, waitsem[w] = s
    PROVE  w \notin holders[s] /\ counts[s][w] = 0 /\ ~IsUser(w, s) /\ pc[w] \in {"wait", "waitisr"} /\ psem[w] = s
<1>1. EntryOK(w, s) /\ counts[s][w] \in Nat /\ s # NoSem
  BY SemConstants DEF HolderInv, SemInv, TypeOK
<1>2. pc[w] \in {"wait", "waitisr"} /\ psem[w] = s /\ s \notin own[w]
  BY <1>1 DEF SemInv, WaitInv
<1>3. ~IsUser(w, s)
  BY <1>1, <1>2 DEF IsUser, Granted
<1> QED BY <1>1, <1>2, <1>3 DEF EntryOK

LEMMA HolderTryWait == ASSUME SemInv, HolderInv, NEW s0 \in Sem, SemTryWait(s0) PROVE HolderInv'
<1> SUFFICES ASSUME NEW s \in Mutex, NEW t \in Task PROVE EntryOK(t, s)'
  BY DEF HolderInv
<1>0. /\ cur \in Task /\ pc[cur] = "run" /\ s0 \notin own[cur] /\ s \in Sem
      /\ holders \in [Sem -> SUBSET Task] /\ counts \in [Sem -> [Task -> Nat]] /\ own \in [Task -> SUBSET Mutex]
      /\ EntryOK(t, s)
  BY SemConstants DEF SemTryWait, MayWait, Running, SemInv, TypeOK, HolderInv
<1>1. /\ holders' = AddHolder(cur, s0) /\ counts' = AddCount(counts, cur, s0)
      /\ own' = IF s0 \in Mutex THEN [own EXCEPT ![cur] = @ \cup {s0}] ELSE own
      /\ UNCHANGED <<waitsem, pterrno, pc, psem>>
  BY DEF SemTryWait, TakeCount
<1>2. CASE s0 # s \/ t # cur
  <2>1. counts'[s][t] = counts[s][t]
    BY <1>0, <1>1, <1>2 DEF AddCount
  <2>2. t \in holders'[s] <=> t \in holders[s]
    BY <1>0, <1>1, <1>2 DEF AddHolder
  <2>3. s \in own'[t] <=> s \in own[t]
    BY <1>0, <1>1, <1>2
  <2>4. IsUser(t, s)' <=> IsUser(t, s)
    BY <1>1, <2>3 DEF IsUser, Granted
  <2>5. \/ pc'[t] = pc[t] /\ psem'[t] = psem[t] /\ own'[t] = own[t]
        \/ {pc[t], pc'[t]} \cap {"post", "postbase"} = {}
    BY <1>0, <1>1
  <2> QED BY <1>0, <2>1, <2>2, <2>4, <2>5, EntrySame
<1>3. CASE s0 = s /\ t = cur
  <2>1. s \in own'[t]
    BY <1>0, <1>1, <1>3
  <2>2. IsUser(t, s)'
    BY <2>1 DEF IsUser
  <2>3. cur \notin holders[s] /\ counts[s][cur] = 0
    BY <1>0, <1>3, RunnerEntry
  <2>4. CASE CanHold(cur, s)
    <3>1. t \in holders'[s] /\ counts'[s][t] = 1
      BY <1>0, <1>1, <1>3, <2>3, <2>4 DEF AddHolder, AddCount
    <3> QED BY <1>0, <1>1, <1>3, <2>2, <3>1 DEF EntryOK
  <2>5. CASE ~CanHold(cur, s)
    <3>1. ~(Cardinality(Sem \X Task) <= Prealloc)
      BY <1>0, <2>5, EntryIsFree
    <3>2. t \notin holders'[s] /\ counts'[s][t] = 0
      BY <1>1, <1>3, <2>3, <2>5 DEF AddHolder, AddCount
    <3> QED BY <1>0, <1>1, <1>3, <3>1, <3>2 DEF EntryOK
  <2> QED BY <2>4, <2>5
<1> QED BY <1>2, <1>3

\* Steps that leave the entries of the mutexes and their users alone.
LEMMA HolderKept ==
    ASSUME SemInv, HolderInv,
           \A s \in Mutex : holders'[s] = holders[s] /\ counts'[s] = counts[s],
           \A s \in Mutex, t \in Task : IsUser(t, s)' <=> IsUser(t, s),
           \A t \in Task : \/ pc'[t] = pc[t] /\ psem'[t] = psem[t] /\ own'[t] = own[t]
                           \/ {pc[t], pc'[t]} \cap {"post", "postbase"} = {}
    PROVE  HolderInv'
<1> SUFFICES ASSUME NEW s \in Mutex, NEW t \in Task PROVE EntryOK(t, s)'
  BY DEF HolderInv
<1>1. EntryOK(t, s)
  BY DEF HolderInv
<1> QED BY <1>1, EntrySame

LEMMA HolderWaits ==
    ASSUME SemInv, HolderInv, NEW s0 \in Sem, (\E timed \in BOOLEAN : SemBlock(s0, timed)) \/ SemWaitForIsr(s0)
    PROVE  HolderInv'
<1>0. cur \in Task /\ pc[cur] = "run" /\ s0 # NoSem /\ waitsem[cur] = NoSem
  BY CurFacts, SemConstants DEF SemBlock, SemWaitForIsr, MayWait, Running
<1>1. UNCHANGED <<holders, counts, own>>
  BY DEF SemBlock, SemWaitForIsr
<1>2. \A t \in Task \ {cur} : /\ pc'[t] = pc[t] /\ psem'[t] = psem[t]
                              /\ waitsem'[t] = waitsem[t] /\ pterrno'[t] = pterrno[t]
  <2>1. /\ pc \in [Task -> PC] /\ psem \in [Task -> Sem \cup {NoSem}] /\ waitsem \in [Task -> Sem \cup {NoSem}]
        /\ pterrno \in [Task -> {"OK", "EINTR", "ETIMEDOUT"}]
    BY DEF SemInv, TypeOK
  <2>2. \/ UNCHANGED <<pc, psem, waitsem, pterrno>>
        \/ \E k \in PC : /\ pc' = [pc EXCEPT ![cur] = k] /\ psem' = [psem EXCEPT ![cur] = s0]
                         /\ waitsem' = [waitsem EXCEPT ![cur] = s0] /\ pterrno' = [pterrno EXCEPT ![cur] = "OK"]
    BY DEF SemBlock, SemWaitForIsr, PC
  <2> QED BY <1>0, <2>1, <2>2
<1>3. pc'[cur] \notin {"wait", "waitisr"} \/ waitsem'[cur] # NoSem
  <2>1. waitsem \in [Task -> Sem \cup {NoSem}]
    BY DEF SemInv, TypeOK
  <2>2. (UNCHANGED <<pc>>) \/ waitsem' = [waitsem EXCEPT ![cur] = s0]
    BY DEF SemBlock, SemWaitForIsr
  <2> QED BY <1>0, <2>1, <2>2
<1>4. ASSUME NEW s \in Mutex, NEW t \in Task PROVE Granted(t, s)' <=> Granted(t, s)
  <2>1. CASE t = cur
    BY <1>0, <1>3, <2>1 DEF Granted
  <2>2. CASE t # cur
    BY <1>2, <2>2 DEF Granted
  <2> QED BY <2>1, <2>2
<1>5. \A s \in Mutex, t \in Task : IsUser(t, s)' <=> IsUser(t, s)
  BY <1>1, <1>4 DEF IsUser
<1>6. \A t \in Task : \/ pc'[t] = pc[t] /\ psem'[t] = psem[t] /\ own'[t] = own[t]
                      \/ {pc[t], pc'[t]} \cap {"post", "postbase"} = {}
  <2>1. pc'[cur] \in {"run", "wait", "waitisr"}
    <3>1. pc \in [Task -> PC]
      BY DEF SemInv, TypeOK
    <3>2. pc' = pc \/ \E k \in {"wait", "waitisr"} : pc' = [pc EXCEPT ![cur] = k]
      BY DEF SemBlock, SemWaitForIsr
    <3> QED BY <1>0, <3>1, <3>2
  <2> QED BY <1>0, <1>1, <1>2, <2>1
<1> QED BY <1>1, <1>5, <1>6, HolderKept

LEMMA HolderWaitReturn == ASSUME SemInv, HolderInv, WaitReturn PROVE HolderInv'
<1>0. /\ cur \in Task /\ pc[cur] \in {"wait", "waitisr"} /\ waitsem[cur] = NoSem
      /\ pc \in [Task -> PC] /\ psem \in [Task -> Sem \cup {NoSem}] /\ own \in [Task -> SUBSET Mutex]
  BY CurFacts DEF WaitReturn, SemInv, TypeOK
<1>1. /\ own' = IF pterrno[cur] = "OK" /\ psem[cur] \in Mutex
                  THEN [own EXCEPT ![cur] = @ \cup {psem[cur]}] ELSE own
      /\ pc' = [pc EXCEPT ![cur] = IF waitdog[cur] THEN "timed" ELSE "run"]
      /\ psem' = [psem EXCEPT ![cur] = NoSem]
      /\ UNCHANGED <<waitsem, pterrno, holders, counts>>
  BY DEF WaitReturn, GotCount
<1>2. pc'[cur] \notin {"wait", "waitisr"}
  BY <1>0, <1>1
<1>3. \A t \in Task \ {cur} : pc'[t] = pc[t] /\ psem'[t] = psem[t] /\ own'[t] = own[t]
  BY <1>0, <1>1
<1>4. ASSUME NEW s \in Mutex, NEW t \in Task PROVE IsUser(t, s)' <=> IsUser(t, s)
  <2>1. CASE t = cur
    <3>1. ~Granted(t, s)' /\ (Granted(t, s) <=> psem[t] = s /\ pterrno[t] = "OK")
      BY <1>0, <1>2, <2>1 DEF Granted
    <3>2. s \in own'[t] <=> s \in own[t] \/ (psem[t] = s /\ pterrno[t] = "OK")
      BY <1>0, <1>1, <2>1
    <3> QED BY <2>1, <3>1, <3>2 DEF IsUser
  <2>2. CASE t # cur
    BY <1>1, <1>3, <2>2 DEF IsUser, Granted
  <2> QED BY <2>1, <2>2
<1>5. \A t \in Task : \/ pc'[t] = pc[t] /\ psem'[t] = psem[t] /\ own'[t] = own[t]
                      \/ {pc[t], pc'[t]} \cap {"post", "postbase"} = {}
  <2>1. pc'[cur] \in {"run", "timed"}
    BY <1>0, <1>1
  <2> QED BY <1>0, <1>3, <2>1
<1> QED BY <1>1, <1>4, <1>5, HolderKept

LEMMA HolderTimedReturn == ASSUME SemInv, HolderInv, TimedReturn PROVE HolderInv'
<1>0. /\ cur \in Task /\ pc[cur] = "timed" /\ pc \in [Task -> PC]
      /\ pc' = [pc EXCEPT ![cur] = "run"] /\ UNCHANGED <<waitsem, pterrno, psem, own, holders, counts>>
  BY DEF TimedReturn, SemInv, TypeOK
<1>1. pc'[cur] = "run" /\ \A t \in Task \ {cur} : pc'[t] = pc[t]
  BY <1>0
<1>2. \A s \in Mutex, t \in Task : IsUser(t, s)' <=> IsUser(t, s)
  BY <1>0, <1>1 DEF IsUser, Granted
<1> QED BY <1>0, <1>1, <1>2, HolderKept

LEMMA HolderPostReturn == ASSUME SemInv, HolderInv, PostReturn PROVE HolderInv'
<1> DEFINE p == psem[cur]
<1>0. /\ cur \in Task /\ pc[cur] \in {"post", "postbase"} /\ pc \in [Task -> PC]
      /\ psem \in [Task -> Sem \cup {NoSem}] /\ holders \in [Sem -> SUBSET Task]
      /\ counts \in [Sem -> [Task -> Nat]]
  BY DEF PostReturn, SemInv, TypeOK
<1>1. /\ holders' = FreeEntry(holders, counts, cur, p)
      /\ pc' = [pc EXCEPT ![cur] = "run"] /\ psem' = [psem EXCEPT ![cur] = NoSem]
      /\ UNCHANGED <<waitsem, pterrno, own, counts>>
  BY DEF PostReturn
<1>2. \A t \in Task \ {cur} : pc'[t] = pc[t] /\ psem'[t] = psem[t]
  BY <1>0, <1>1
<1>3. pc'[cur] = "run"
  BY <1>0, <1>1
<1> SUFFICES ASSUME NEW s \in Mutex, NEW t \in Task PROVE EntryOK(t, s)'
  BY DEF HolderInv
<1>4. EntryOK(t, s) /\ s \in Sem /\ counts[s][t] \in Nat
  BY <1>0, SemConstants DEF HolderInv
<1>5. Granted(t, s)' <=> Granted(t, s)
  <2>1. CASE t = cur
    BY <1>0, <1>3, <2>1 DEF Granted
  <2>2. CASE t # cur
    BY <1>1, <1>2, <2>2 DEF Granted
  <2> QED BY <2>1, <2>2
<1>6. IsUser(t, s)' <=> IsUser(t, s)
  BY <1>1, <1>5 DEF IsUser
<1>7. CASE t # cur \/ s # p
  <2>1. t \in holders'[s] <=> t \in holders[s]
    BY <1>0, <1>1, <1>4, <1>7 DEF FreeEntry
  <2>2. t = cur => ~(t \in holders[s] /\ counts[s][t] = 0)
    BY <1>4, <1>7 DEF EntryOK
  <2>3. CASE t # cur
    BY <1>1, <1>2, <1>4, <1>6, <2>1, <2>3, EntrySame
  <2>4. CASE t = cur
    BY <1>1, <1>3, <1>4, <1>6, <2>1, <2>2, <2>4 DEF EntryOK
  <2> QED BY <2>3, <2>4
<1>8. CASE t = cur /\ s = p
  <2>1. CASE counts[s][t] = 0
    <3>1. t \notin holders'[s]
      BY <1>0, <1>1, <1>4, <1>8, <2>1 DEF FreeEntry
    <3>2. ~IsUser(t, s) \/ ~(Cardinality(Sem \X Task) <= Prealloc)
      <4>1. s \notin own[t]
        BY <1>0, <1>4, <1>8 DEF EntryOK
      <4> QED BY <4>1, <1>0, <1>8 DEF IsUser, Granted
    <3> QED BY <1>1, <1>3, <1>6, <1>8, <2>1, <3>1, <3>2 DEF EntryOK
  <2>2. CASE counts[s][t] > 0
    <3>1. t \in holders'[s] <=> t \in holders[s]
      BY <1>0, <1>1, <1>4, <1>8, <2>2 DEF FreeEntry
    <3> QED BY <1>1, <1>3, <1>4, <1>6, <1>8, <2>2, <3>1 DEF EntryOK
  <2> QED BY <1>4, <2>1, <2>2
<1> QED BY <1>7, <1>8

\* sem_post of a mutex with no task waiting: the entry of the poster goes.
LEMMA HolderPostCount ==
    ASSUME SemInv, HolderInv, NEW p \in Sem, SemPost(p), PostCount(p)
    PROVE  HolderInv'
<1>0. /\ cur \in Task /\ pc[cur] = "run" /\ holders \in [Sem -> SUBSET Task]
      /\ counts \in [Sem -> [Task -> Nat]] /\ own \in [Task -> SUBSET Mutex]
  BY DEF SemPost, Running, SemInv, TypeOK
<1>1. /\ counts' = ReleaseCount(p) /\ holders' = FreeEntry(holders, counts', cur, p)
      /\ own' = [own EXCEPT ![cur] = @ \ {p}]
      /\ UNCHANGED <<waitsem, pterrno, pc, psem>>
  BY DEF SemPost, PostCount
<1> SUFFICES ASSUME NEW s \in Mutex, NEW t \in Task PROVE EntryOK(t, s)'
  BY DEF HolderInv
<1>2. EntryOK(t, s) /\ s \in Sem
  BY SemConstants DEF HolderInv
<1>3. CASE t # cur \/ s # p
  <2>1. counts'[s][t] = counts[s][t]
    BY <1>0, <1>1, <1>2, <1>3 DEF ReleaseCount
  <2>2. t \in holders'[s] <=> t \in holders[s]
    BY <1>0, <1>1, <1>2, <1>3 DEF FreeEntry
  <2>3. s \in own'[t] <=> s \in own[t]
    BY <1>0, <1>1, <1>3
  <2>4. IsUser(t, s)' <=> IsUser(t, s)
    BY <1>1, <2>3 DEF IsUser, Granted
  <2>5. \/ pc'[t] = pc[t] /\ psem'[t] = psem[t] /\ own'[t] = own[t]
        \/ {pc[t], pc'[t]} \cap {"post", "postbase"} = {}
    BY <1>0, <1>1
  <2> QED BY <1>2, <2>1, <2>2, <2>4, <2>5, EntrySame
<1>4. CASE t = cur /\ s = p
  <2>1. /\ cur \in holders[s] => counts[s][cur] = 1
        /\ cur \notin holders[s] => counts[s][cur] = 0
    BY <1>0, RunnerEntry
  <2>2. counts'[s][t] = 0
    BY <1>0, <1>1, <1>2, <1>4, <2>1 DEF ReleaseCount
  <2>3. t \notin holders'[s]
    BY <1>0, <1>1, <1>2, <1>4, <2>2 DEF FreeEntry
  <2>4. ~IsUser(t, s)'
    BY <1>0, <1>1, <1>4 DEF IsUser, Granted
  <2> QED BY <1>0, <1>1, <1>4, <2>2, <2>3, <2>4 DEF EntryOK
<1> QED BY <1>3, <1>4

\* sem_post of a mutex that hands it to w: the entry of w takes the place of
\* the poster's, which stays without a count if the poster leaves the CPU.
LEMMA HolderPostTo ==
    ASSUME SemInv, HolderInv, NEW p \in Sem, NEW w \in Task, waitsem[w] = p, SemPost(p), PostTo(w, p)
    PROVE  HolderInv'
<1>0. /\ cur \in Task /\ pc[cur] = "run" /\ holders \in [Sem -> SUBSET Task]
      /\ counts \in [Sem -> [Task -> Nat]] /\ own \in [Task -> SUBSET Mutex]
      /\ pc \in [Task -> PC] /\ psem \in [Task -> Sem \cup {NoSem}]
      /\ waitsem \in [Task -> Sem \cup {NoSem}] /\ p # NoSem
  BY SemConstants DEF SemPost, Running, SemInv, TypeOK
<1>1. /\ waitsem' = [waitsem EXCEPT ![w] = NoSem]
      /\ counts' = AddCount(ReleaseCount(p), w, p)
      /\ own' = [own EXCEPT ![cur] = @ \ {p}] /\ pterrno' = pterrno
      /\ \/ /\ holders' = AddHolder(w, p) /\ psem' = [psem EXCEPT ![cur] = p]
            /\ \E k \in {"post", "postbase"} : pc' = [pc EXCEPT ![cur] = k]
         \/ holders' = FreeEntry(AddHolder(w, p), counts', cur, p) /\ UNCHANGED <<pc, psem>>
  BY DEF SemPost, PostTo
<1>2. /\ w # cur /\ pc[w] \in {"wait", "waitisr"} /\ psem[w] = p /\ pterrno[w] = "OK"
      /\ p \notin own[w]
  BY <1>0, WaiterFacts DEF SemInv, WaitInv
<1>3. \A t \in Task \ {cur} : pc'[t] = pc[t] /\ psem'[t] = psem[t] /\ own'[t] = own[t]
  BY <1>0, <1>1
<1>4. pc'[cur] \in {"run", "post", "postbase"}
  BY <1>0, <1>1
<1>5. \A t \in Task \ {w} : waitsem'[t] = waitsem[t]
  BY <1>0, <1>1
<1> SUFFICES ASSUME NEW s \in Mutex, NEW t \in Task PROVE EntryOK(t, s)'
  BY DEF HolderInv
<1>6. EntryOK(t, s) /\ s \in Sem
  BY SemConstants DEF HolderInv
<1>7. CASE s # p \/ t \notin {w, cur}
  <2>1. counts'[s][t] = counts[s][t]
    BY <1>0, <1>1, <1>6, <1>7 DEF ReleaseCount, AddCount
  <2>2. t \in holders'[s] <=> t \in holders[s]
    <3>1. t \in AddHolder(w, p)[s] <=> t \in holders[s]
      BY <1>0, <1>6, <1>7 DEF AddHolder
    <3>2. AddHolder(w, p) \in [Sem -> SUBSET Task]
      BY HolderTypes
    <3>3. t \in FreeEntry(AddHolder(w, p), counts', cur, p)[s] <=> t \in AddHolder(w, p)[s]
      BY <1>0, <1>6, <1>7, <3>2 DEF FreeEntry
    <3> QED BY <1>1, <3>1, <3>3
  <2>3. s \in own'[t] <=> s \in own[t]
    BY <1>0, <1>1, <1>7
  <2>4. Granted(t, s)' <=> Granted(t, s)
    <3>1. CASE t = cur
      BY <1>0, <1>4, <3>1 DEF Granted
    <3>2. CASE t = w
      <4>1. psem[t] # s /\ psem'[t] # s
        BY <1>2, <1>3, <1>7, <3>2
      <4> QED BY <4>1 DEF Granted
    <3>3. CASE t \notin {w, cur}
      BY <1>1, <1>3, <1>5, <3>3 DEF Granted
    <3> QED BY <3>1, <3>2, <3>3
  <2>5. IsUser(t, s)' <=> IsUser(t, s)
    BY <2>3, <2>4 DEF IsUser
  <2>6. CASE t # cur
    BY <1>3, <1>6, <2>1, <2>2, <2>5, <2>6, EntrySame
  <2>7. CASE t = cur
    <3>1. ~(t \in holders[s] /\ counts[s][t] = 0)
      BY <1>0, <1>6, <2>7 DEF EntryOK
    <3>2. s \notin own'[t] \/ psem'[t] # s \/ pc'[t] = "run"
      BY <1>0, <1>1, <1>7, <2>7
    <3> QED BY <1>6, <2>1, <2>2, <2>5, <3>1, <3>2 DEF EntryOK
  <2> QED BY <2>6, <2>7
<1>8. CASE s = p /\ t = w
  <2>1. w \notin holders[s] /\ counts[s][w] = 0
    BY <1>8, WaiterEntry
  <2>2. IsUser(t, s)'
    BY <1>0, <1>1, <1>2, <1>3, <1>8 DEF IsUser, Granted
  <2>3. CASE CanHold(w, p)
    <3>1. t \in AddHolder(w, p)[s] /\ counts'[s][t] = 1
      BY <1>0, <1>1, <1>2, <1>6, <1>8, <2>1, <2>3 DEF AddHolder, AddCount, ReleaseCount
    <3>2. AddHolder(w, p) \in [Sem -> SUBSET Task]
      BY HolderTypes
    <3>3. t \in holders'[s]
      BY <1>1, <1>2, <1>6, <1>8, <3>1, <3>2 DEF FreeEntry
    <3> QED BY <1>2, <1>3, <1>8, <2>2, <3>1, <3>3 DEF EntryOK
  <2>4. CASE ~CanHold(w, p)
    <3>1. ~(Cardinality(Sem \X Task) <= Prealloc)
      BY <2>4, EntryIsFree
    <3>2. t \notin holders'[s] /\ counts'[s][t] = 0
      BY <1>0, <1>1, <1>2, <1>6, <1>8, <2>1, <2>4 DEF AddHolder, AddCount, ReleaseCount, FreeEntry
    <3> QED BY <1>2, <1>3, <1>8, <3>1, <3>2 DEF EntryOK
  <2> QED BY <2>3, <2>4
<1>9. CASE s = p /\ t = cur
  <2>1. /\ cur \in holders[s] => counts[s][cur] = 1
        /\ cur \notin holders[s] => counts[s][cur] = 0
    BY <1>0, RunnerEntry
  <2>2. counts'[s][t] = 0
    <3>1. ReleaseCount(p)[s][t] = 0 /\ ReleaseCount(p) \in [Sem -> [Task -> Nat]]
      BY <1>0, <1>6, <1>9, <2>1 DEF ReleaseCount
    <3> QED BY <1>1, <1>2, <1>6, <1>9, <3>1 DEF AddCount
  <2>3. s \notin own'[t]
    BY <1>0, <1>1, <1>9
  <2>4. ~IsUser(t, s)'
    BY <1>4, <1>9, <2>3 DEF IsUser, Granted
  <2>5. t \in holders'[s] => pc'[t] \in {"post", "postbase"} /\ psem'[t] = s
    <3>1. AddHolder(w, p) \in [Sem -> SUBSET Task]
      BY HolderTypes
    <3>2. t \notin FreeEntry(AddHolder(w, p), counts', cur, p)[s]
      BY <1>6, <1>9, <2>2, <3>1 DEF FreeEntry
    <3> QED BY <1>0, <1>1, <1>9, <3>2
  <2> QED BY <2>2, <2>3, <2>4, <2>5 DEF EntryOK
<1> QED BY <1>7, <1>8, <1>9

LEMMA HolderSemPost == ASSUME SemInv, HolderInv, NEW s \in Sem, SemPost(s) PROVE HolderInv'
<1>1. CASE ~WakesWaiter(s)
  BY <1>1, HolderPostCount DEF SemPost
<1>2. CASE WakesWaiter(s)
  <2>1. PICK w \in FirstWaiter(s) : PostTo(w, s)
    BY <1>2 DEF SemPost
  <2>2. w \in Task /\ waitsem[w] = s
    BY DEF FirstWaiter, Highest, Waiters
  <2> QED BY <2>1, <2>2, HolderPostTo
<1> QED BY <1>1, <1>2

\* Handlers post no mutex.
LEMMA HolderIsrPost ==
    ASSUME SemInv, HolderInv, NEW p \in Sem, IsrPost(p) \/ SemPostFromIsr(p)
    PROVE  HolderInv'
<1>0. p \notin Mutex /\ UNCHANGED <<pterrno, pc, psem, own>>
  BY DEF IsrPost, SemPostFromIsr
<1>1. /\ holders \in [Sem -> SUBSET Task] /\ counts \in [Sem -> [Task -> Nat]]
      /\ waitsem \in [Task -> Sem \cup {NoSem}]
  BY DEF SemInv, TypeOK
<1>2. \/ waitsem' = waitsem
      \/ \E w \in Task : waitsem[w] = p /\ waitsem' = [waitsem EXCEPT ![w] = NoSem]
  <2>1. \A w \in FirstWaiter(p) : w \in Task /\ waitsem[w] = p
    BY DEF FirstWaiter, Highest, Waiters
  <2> QED BY <2>1 DEF IsrPost, SemPostFromIsr, IsrPostTo
<1>3. \A s \in Mutex : holders'[s] = holders[s] /\ counts'[s] = counts[s]
  <2>1. holders' = holders \/ \E w \in Task : holders' = AddHolder(w, p)
    <3>1. \A w \in FirstWaiter(p) : w \in Task
      BY DEF FirstWaiter, Highest, Waiters
    <3> QED BY <3>1 DEF IsrPost, SemPostFromIsr, IsrPostTo
  <2>2. \/ counts' = counts \/ counts' = ReleaseCount(p)
        \/ \E w \in Task : counts' = AddCount(ReleaseCount(p), w, p)
    <3>1. \A w \in FirstWaiter(p) : w \in Task
      BY DEF FirstWaiter, Highest, Waiters
    <3> QED BY <3>1 DEF IsrPost, SemPostFromIsr, IsrPostTo
  <2> QED BY <1>0, <1>1, <2>1, <2>2, SemConstants DEF AddHolder, AddCount, ReleaseCount
<1>4. ASSUME NEW s \in Mutex, NEW t \in Task PROVE IsUser(t, s)' <=> IsUser(t, s)
  <2>1. CASE waitsem'[t] = waitsem[t]
    BY <1>0, <2>1 DEF IsUser, Granted
  <2>2. CASE waitsem'[t] # waitsem[t]
    <3>1. waitsem[t] = p /\ p # NoSem
      BY <1>1, <1>2, <2>2, SemConstants
    <3>2. psem[t] = p
      BY <3>1 DEF SemInv, WaitInv
    <3> QED BY <1>0, <3>2 DEF IsUser, Granted
  <2> QED BY <2>1, <2>2
<1> QED BY <1>0, <1>3, <1>4, HolderKept

LEMMA HolderCancel ==
    ASSUME SemInv, HolderInv, NEW w \in Task, Timeout(w) \/ IsrSignal(w) \/ SigKill(w)
    PROVE  HolderInv'
<1>0. waitsem \in [Task -> Sem \cup {NoSem}] /\ pterrno \in [Task -> {"OK", "EINTR", "ETIMEDOUT"}]
  BY DEF SemInv, TypeOK
<1>1. UNCHANGED <<holders, counts, pc, psem, own>>
  BY DEF Timeout, IsrSignal, IsrCancel, SigKill
<1>2. \/ UNCHANGED <<waitsem, pterrno>>
      \/ /\ state[w] = "WAIT_SEM" /\ waitsem' = [waitsem EXCEPT ![w] = NoSem]
         /\ \E err \in {"EINTR", "ETIMEDOUT"} : pterrno' = [pterrno EXCEPT ![w] = err]
  BY DEF Timeout, IsrSignal, IsrCancel, SigKill, Unwait
<1>3. ASSUME NEW s \in Mutex, NEW t \in Task PROVE Granted(t, s)' <=> Granted(t, s)
  <2>1. CASE waitsem'[t] = waitsem[t] /\ pterrno'[t] = pterrno[t]
    BY <1>1, <2>1 DEF Granted
  <2>2. CASE ~(waitsem'[t] = waitsem[t] /\ pterrno'[t] = pterrno[t])
    <3>1. t = w /\ state[w] = "WAIT_SEM" /\ pterrno'[t] # "OK"
      BY <1>0, <1>2, <2>2
    <3>2. waitsem[t] # NoSem
      BY <3>1 DEF SemInv, WaitInv
    <3> QED BY <3>1, <3>2 DEF Granted
  <2> QED BY <2>1, <2>2
<1>4. \A s \in Mutex, t \in Task : IsUser(t, s)' <=> IsUser(t, s)
  BY <1>1, <1>3 DEF IsUser
<1> QED BY <1>1, <1>4, HolderKept

\* Every step keeps the entries true.
LEMMA HolderStep == SemInv /\ HolderInv /\ [Next]_vars => HolderInv'
<1> SUFFICES ASSUME SemInv, HolderInv, [Next]_vars PROVE HolderInv'
  OBVIOUS
<1>1. ASSUME UNCHANGED semVars PROVE HolderInv'
  BY <1>1, HolderKept DEF semVars, IsUser, Granted
<1>2. CASE SchedLock \/ SchedUnlock \/ SchedYield \/ Sleep \/ (\E t \in Task : Wake(t)) \/ UNCHANGED vars
  BY <1>1, <1>2 DEF SchedLock, SchedUnlock, SchedYield, Sleep, Wake, vars
<1> QED BY <1>2, HolderTryWait, HolderWaits, HolderWaitReturn, HolderTimedReturn, HolderPostReturn,
           HolderSemPost, HolderIsrPost, HolderCancel
  DEF Next, TaskStep, IsrStep, CancelStep

LEMMA AlwaysHolderInv == Spec => []HolderInv
<1>1. Init => HolderInv
  <2> SUFFICES ASSUME Init, NEW s \in Mutex, NEW t \in Task PROVE EntryOK(t, s)
    BY DEF HolderInv
  <2>1. s \in Sem
    BY SemConstants
  <2>2. ~IsUser(t, s)
    BY DEF Init, IsUser, Granted
  <2> QED BY <2>1, <2>2 DEF Init, EntryOK
<1> QED BY <1>1, HolderStep, SemInvariant, PTL DEF Spec

(***************************************************************************)
(* The holder list of a mutex is the truth about who has it, for any pool  *)
(* of entries; none is missed when the pool has one for every task and     *)
(* semaphore: HoldersAreUsers.                                             *)
(***************************************************************************)
THEOREM HoldersTrue == Spec => []HoldersAreUsers
<1>1. HolderInv => HoldersAreUsers
  <2>1. \A s \in Mutex, t \in Task : t \in Users(s) <=> IsUser(t, s)
    BY DEF Users, IsUser
  <2> QED BY <2>1 DEF HolderInv, EntryOK, HoldersAreUsers
<1> QED BY <1>1, AlwaysHolderInv, PTL

-----------------------------------------------------------------------------
(***************************************************************************)
(* Priority inheritance.  It is enough where a mutex has one contender: at *)
(* most two tasks use it, and these use no other semaphore; any number of  *)
(* such pairs, and of bystanders at any priority, may exist.  (With more   *)
(* tasks the cancelled wait of one makes the holder drop the boost of      *)
(* another, sem_holder.c:439.)  The pool has an entry for every holder.    *)
(***************************************************************************)
UsedBy(s) == {t \in Task \ {Idle} : s \in Uses[t]}

OneContender ==
    /\ Cardinality(Sem \X Task) <= Prealloc
    /\ \A s \in Mutex : \A t \in UsedBy(s) : Uses[t] = {s}
    /\ \A s \in Mutex : \A t, u, v \in UsedBy(s) : t = u \/ u = v \/ v = t

\* The task t waits for s, or has it, or has an entry in its list.
TiedTo(t, s) ==
    \/ pc[t] \in {"wait", "waitisr"} /\ psem[t] = s
    \/ s \in own[t]
    \/ t \in holders[s]

\* Only the tasks that use a semaphore have to do with it.
UseInv == \A s \in Sem, t \in Task : TiedTo(t, s) => t \in UsedBy(s)

\* Those who wait for a semaphore and those who have it are tied to it.
LEMMA WaiterTied ==
    ASSUME SemInv, NEW s \in Sem, NEW t \in Task, waitsem[t] = s \/ IsUser(t, s)
    PROVE  TiedTo(t, s)
<1>1. s # NoSem
  BY SemConstants
<1> QED BY <1>1 DEF SemInv, WaitInv, TiedTo, IsUser, Granted

\* The entries that a step adds are of the calling task or of the task woken.
LEMMA EntriesAdded ==
    ASSUME SemInv, NEW w \in Task, NEW p \in Sem, NEW s \in Sem, NEW t \in Task, t \in AddHolder(w, p)[s]
    PROVE  t \in holders[s] \/ (s = p /\ t = w)
BY DEF AddHolder, SemInv, TypeOK

LEMMA EntriesFreed ==
    ASSUME NEW hs \in [Sem -> SUBSET Task], NEW cnt, NEW u, NEW p, NEW s \in Sem
    PROVE  FreeEntry(hs, cnt, u, p)[s] \subseteq hs[s]
BY DEF FreeEntry

\* Where a task that posts is afterwards.
LEMMA PostPlace ==
    ASSUME NEW p, SemPost(p)
    PROVE  \/ UNCHANGED <<pc, psem>>
           \/ \E k \in {"post", "postbase"} : pc' = [pc EXCEPT ![cur] = k] /\ psem' = [psem EXCEPT ![cur] = p]
<1>1. CASE ~WakesWaiter(p)
  BY <1>1 DEF SemPost, PostCount
<1>2. CASE WakesWaiter(p)
  <2>1. PICK w \in FirstWaiter(p) : PostTo(w, p)
    BY <1>2 DEF SemPost
  <2>2. \/ UNCHANGED <<pc, psem>>
        \/ /\ pc' = [pc EXCEPT ![cur] = IF pend[cur] = NoPend THEN "postbase" ELSE "post"]
           /\ psem' = [psem EXCEPT ![cur] = p]
    BY <2>1 DEF PostTo
  <2> QED BY <2>2
<1> QED BY <1>1, <1>2

\* A step ties a task to a semaphore only by a call of that task.
LEMMA TiedStep ==
    ASSUME SemInv, [Next]_vars, NEW s \in Sem, NEW t \in Task, TiedTo(t, s)'
    PROVE  TiedTo(t, s) \/ (t = cur /\ MayWait(s))
<1>0. /\ cur \in Task /\ holders \in [Sem -> SUBSET Task] /\ own \in [Task -> SUBSET Mutex]
      /\ pc \in [Task -> PC] /\ psem \in [Task -> Sem \cup {NoSem}] /\ s # NoSem
  BY SemConstants DEF SemInv, TypeOK
<1>1. ASSUME UNCHANGED <<holders, pc, psem, own>> PROVE TiedTo(t, s)
  BY <1>1 DEF TiedTo
<1>2. CASE \/ SchedLock \/ SchedUnlock \/ SchedYield \/ Sleep \/ UNCHANGED vars
           \/ (\E u \in Task : Wake(u)) \/ (\E p \in Sem : SemPostFromIsr(p))
           \/ \E u \in Task : Timeout(u) \/ IsrSignal(u) \/ SigKill(u)
  <2>1. UNCHANGED <<holders, pc, psem, own>>
    BY <1>2 DEF SchedLock, SchedUnlock, SchedYield, Sleep, vars, semVars, Wake, SemPostFromIsr, Timeout,
                IsrSignal, IsrCancel, SigKill
  <2> QED BY <1>1, <2>1
<1>3. ASSUME NEW p \in Sem, SemTryWait(p) PROVE TiedTo(t, s) \/ (t = cur /\ MayWait(s))
  <2>1. /\ holders' = AddHolder(cur, p) /\ UNCHANGED <<pc, psem>> /\ MayWait(p)
        /\ own' = IF p \in Mutex THEN [own EXCEPT ![cur] = @ \cup {p}] ELSE own
    BY <1>3 DEF SemTryWait, TakeCount
  <2>2. s \in own'[t] => s \in own[t] \/ (s = p /\ t = cur)
    BY <1>0, <2>1
  <2>3. t \in holders'[s] => t \in holders[s] \/ (s = p /\ t = cur)
    BY <1>0, <2>1, EntriesAdded
  <2> QED BY <2>1, <2>2, <2>3 DEF TiedTo
<1>4. ASSUME NEW p \in Sem, (\E timed \in BOOLEAN : SemBlock(p, timed)) \/ SemWaitForIsr(p)
      PROVE  TiedTo(t, s) \/ (t = cur /\ MayWait(s))
  <2>1. UNCHANGED <<holders, own>> /\ MayWait(p)
    BY <1>4 DEF SemBlock, SemWaitForIsr
  <2>2. \/ UNCHANGED <<pc, psem>>
        \/ \E k \in PC : pc' = [pc EXCEPT ![cur] = k] /\ psem' = [psem EXCEPT ![cur] = p]
    BY <1>4 DEF SemBlock, SemWaitForIsr, PC
  <2>3. (pc'[t] = pc[t] /\ psem'[t] = psem[t]) \/ (t = cur /\ psem'[t] = p)
    BY <1>0, <2>2
  <2> QED BY <2>1, <2>3 DEF TiedTo
<1>5. CASE WaitReturn \/ TimedReturn
  <2>1. /\ holders' = holders
        /\ own' = own \/ (pc[cur] \in {"wait", "waitisr"} /\ own' = [own EXCEPT ![cur] = @ \cup {psem[cur]}])
        /\ \E k \in {"run", "timed"} : pc' = [pc EXCEPT ![cur] = k]
        /\ psem' = psem \/ psem' = [psem EXCEPT ![cur] = NoSem]
    BY <1>5 DEF WaitReturn, TimedReturn
  <2>2. s \in own'[t] => TiedTo(t, s)
    BY <1>0, <2>1 DEF TiedTo
  <2>3. pc'[t] \in {"wait", "waitisr"} => t # cur /\ pc'[t] = pc[t] /\ psem'[t] = psem[t]
    BY <1>0, <2>1
  <2> QED BY <2>1, <2>2, <2>3 DEF TiedTo
<1>6. CASE PostReturn
  <2>1. /\ holders' = FreeEntry(holders, counts, cur, psem[cur]) /\ own' = own
        /\ pc' = [pc EXCEPT ![cur] = "run"] /\ psem' = [psem EXCEPT ![cur] = NoSem]
    BY <1>6 DEF PostReturn
  <2>2. t \in holders'[s] => t \in holders[s]
    BY <1>0, <2>1, EntriesFreed
  <2>3. pc'[t] \in {"wait", "waitisr"} => t # cur /\ pc'[t] = pc[t] /\ psem'[t] = psem[t]
    BY <1>0, <2>1
  <2> QED BY <2>1, <2>2, <2>3 DEF TiedTo
<1>7. ASSUME NEW p \in Sem, SemPost(p) PROVE TiedTo(t, s)
  <2>1. own' = [own EXCEPT ![cur] = @ \ {p}]
    BY <1>7 DEF SemPost
  <2>2. \/ UNCHANGED <<pc, psem>>
        \/ \E k \in {"post", "postbase"} : pc' = [pc EXCEPT ![cur] = k] /\ psem' = [psem EXCEPT ![cur] = p]
    BY <1>7, PostPlace
  <2>3. pc'[t] \in {"wait", "waitisr"} => pc'[t] = pc[t] /\ psem'[t] = psem[t]
    BY <1>0, <2>2
  <2>4. s \in own'[t] => s \in own[t]
    BY <1>0, <2>1
  <2>5. ASSUME t \in holders'[s] PROVE TiedTo(t, s)
    <3>1. CASE ~WakesWaiter(p)
      <4>1. holders' = FreeEntry(holders, counts', cur, p)
        BY <1>7, <3>1 DEF SemPost, PostCount
      <4> QED BY <1>0, <2>5, <4>1, EntriesFreed DEF TiedTo
    <3>2. CASE WakesWaiter(p)
      <4>1. PICK w \in FirstWaiter(p) : PostTo(w, p)
        BY <1>7, <3>2 DEF SemPost
      <4>2. w \in Task /\ waitsem[w] = p
        BY DEF FirstWaiter, Highest, Waiters
      <4>3. PICK hs : hs = AddHolder(w, p)
        OBVIOUS
      <4>4. holders' = hs \/ holders' = FreeEntry(hs, counts', cur, p)
        BY <4>1, <4>3 DEF PostTo
      <4>5. hs \in [Sem -> SUBSET Task]
        BY <1>0, <4>2, <4>3 DEF AddHolder
      <4>6. t \in hs[s]
        BY <2>5, <4>4, <4>5, EntriesFreed
      <4>7. t \in holders[s] \/ (s = p /\ t = w)
        BY <4>2, <4>3, <4>6, EntriesAdded
      <4> QED BY <4>2, <4>7, WaiterTied DEF TiedTo
    <3> QED BY <3>1, <3>2
  <2> QED BY <2>3, <2>4, <2>5 DEF TiedTo
<1>8. ASSUME NEW p \in Sem, IsrPost(p) PROVE TiedTo(t, s)
  <2>1. UNCHANGED <<pc, psem, own>>
    BY <1>8 DEF IsrPost
  <2>2. CASE ~WakesWaiter(p)
    BY <1>1, <1>8, <2>1, <2>2 DEF IsrPost
  <2>3. CASE WakesWaiter(p)
    <3>1. PICK w \in FirstWaiter(p) : holders' = AddHolder(w, p)
      BY <1>8, <2>3 DEF IsrPost, IsrPostTo
    <3>2. w \in Task /\ waitsem[w] = p
      BY DEF FirstWaiter, Highest, Waiters
    <3>3. t \in holders'[s] => t \in holders[s] \/ (s = p /\ t = w)
      BY <3>1, <3>2, EntriesAdded
    <3> QED BY <2>1, <3>2, <3>3, WaiterTied DEF TiedTo
  <2> QED BY <2>2, <2>3
<1> QED BY <1>2, <1>3, <1>4, <1>5, <1>6, <1>7, <1>8 DEF Next, TaskStep, IsrStep, CancelStep

LEMMA UseStep == SemInv /\ UseInv /\ [Next]_vars => UseInv'
<1> SUFFICES ASSUME SemInv, UseInv, [Next]_vars, NEW s \in Sem, NEW t \in Task, TiedTo(t, s)'
             PROVE  t \in UsedBy(s)
  BY DEF UseInv, UsedBy
<1>1. CASE TiedTo(t, s)
  BY <1>1 DEF UseInv
<1>2. CASE t = cur /\ MayWait(s)
  BY <1>2 DEF MayWait, Running, UsedBy
<1> QED BY <1>1, <1>2, TiedStep

-----------------------------------------------------------------------------
\* NoPriorityInversion for the mutex s.
NotInverted(s) == \A h, w \in Task : IsUser(h, s) /\ waitsem[w] = s => prio[h] >= prio[w]

\* While one task has a mutex and another waits for it, no third has to do with it.
LEMMA NoThird ==
    ASSUME SemInv, UseInv, OneContender, NEW s \in Mutex, NEW h \in Task, NEW w \in Task, NEW v \in Task,
           IsUser(h, s), waitsem[w] = s, waitsem[v] = s
    PROVE  v = w
<1>1. s \in Sem /\ s # NoSem
  BY SemConstants
<1>2. h # w /\ h # v
  BY <1>1 DEF SemInv, WaitInv, IsUser, Granted
<1>3. h \in UsedBy(s) /\ w \in UsedBy(s) /\ v \in UsedBy(s)
  BY <1>1, WaiterTied DEF UseInv
<1> QED BY <1>2, <1>3 DEF OneContender

\* The tasks of one mutex have no entry in the list of another semaphore.
LEMMA NoOtherEntry ==
    ASSUME SemInv, UseInv, OneContender, NEW s \in Mutex, NEW t \in UsedBy(s), NEW p \in Sem, p # s
    PROVE  ~TiedTo(t, p)
<1>1. t \in Task /\ Uses[t] = {s}
  BY DEF OneContender, UsedBy
<1> QED BY <1>1 DEF UseInv, UsedBy

\* A step that lets nobody get s or wait for it, and changes no priority of its users.
LEMMA NotInvertedKept ==
    ASSUME SemInv, UseInv, NEW s \in Mutex, NotInverted(s),
           \A t \in UsedBy(s) : prio'[t] = prio[t],
           \A t \in Task : IsUser(t, s)' => IsUser(t, s),
           \A t \in Task : waitsem'[t] = s => waitsem[t] = s
    PROVE  NotInverted(s)'
<1> SUFFICES ASSUME NEW h \in Task, NEW w \in Task, IsUser(h, s)', waitsem'[w] = s
             PROVE  prio'[h] >= prio'[w]
  BY DEF NotInverted
<1>1. IsUser(h, s) /\ waitsem[w] = s /\ s \in Sem
  BY SemConstants
<1>2. h \in UsedBy(s) /\ w \in UsedBy(s)
  BY <1>1, WaiterTied DEF UseInv
<1> QED BY <1>1, <1>2 DEF NotInverted

\* sem_boostholderprio: the holder comes up to the task that starts to wait.
LEMMA NotInvertedBlock ==
    ASSUME SemInv, UseInv, HolderInv, NeverBelowBase, OneContender, NEW s \in Mutex, NotInverted(s),
           NEW p \in Sem, NEW timed, SemBlock(p, timed)
    PROVE  NotInverted(s)'
<1>0. /\ cur \in Task /\ pc[cur] = "run" /\ p \notin own[cur] /\ s \in Sem /\ p # NoSem /\ TypeOK
      /\ waitsem \in [Task -> Sem \cup {NoSem}] /\ pc \in [Task -> PC] /\ psem \in [Task -> Sem \cup {NoSem}]
      /\ pterrno \in [Task -> {"OK", "EINTR", "ETIMEDOUT"}]
  BY SemConstants DEF SemBlock, MayWait, Running, SemInv, TypeOK
<1>1. /\ waitsem' = [waitsem EXCEPT ![cur] = p] /\ pc' = [pc EXCEPT ![cur] = "wait"] /\ own' = own
      /\ psem' = [psem EXCEPT ![cur] = p] /\ pterrno' = [pterrno EXCEPT ![cur] = "OK"]
      /\ \A t \in Task : prio'[t] = IF t \in holders[p] THEN BoostedPrio(t, prio[cur]) ELSE prio[t]
  BY DEF SemBlock
<1>2. ASSUME NEW t \in Task, IsUser(t, s)' PROVE IsUser(t, s)
  <2>1. CASE t = cur
    BY <1>0, <1>1, <1>2, <2>1 DEF IsUser, Granted
  <2>2. CASE t # cur
    BY <1>0, <1>1, <1>2, <2>2 DEF IsUser, Granted
  <2> QED BY <2>1, <2>2
<1>3. CASE p # s
  <2>1. ASSUME NEW t \in UsedBy(s) PROVE prio'[t] = prio[t]
    <3>1. t \in Task /\ t \notin holders[p]
      BY <1>3, NoOtherEntry DEF TiedTo, UsedBy
    <3> QED BY <1>1, <3>1
  <2>2. \A t \in Task : waitsem'[t] = s => waitsem[t] = s
    BY <1>0, <1>1, <1>3
  <2> QED BY <1>2, <2>1, <2>2, NotInvertedKept
<1>4. CASE p = s
  <2> SUFFICES ASSUME NEW h \in Task, NEW w \in Task, IsUser(h, s)', waitsem'[w] = s
               PROVE  prio'[h] >= prio'[w]
    BY DEF NotInverted
  <2>1. IsUser(h, s)
    BY <1>2
  <2>2. w = cur
    <3> SUFFICES ASSUME w # cur PROVE FALSE
      OBVIOUS
    <3>1. waitsem[w] = s
      BY <1>0, <1>1
    <3>2. h \in UsedBy(s) /\ w \in UsedBy(s)
      BY <1>0, <2>1, <3>1, WaiterTied DEF UseInv
    <3>3. cur \in UsedBy(s)
      BY <1>4 DEF SemBlock, MayWait, Running, UsedBy, SemInv, TypeOK
    <3>4. h # w /\ h # cur
      BY <1>0, <1>4, <2>1, <3>1 DEF SemInv, WaitInv, IsUser, Granted
    <3> QED BY <3>2, <3>3, <3>4 DEF OneContender
  <2>3. cur \notin holders[s]
    BY <1>0, <1>4, RunnerEntry
  <2>4. h \in holders[s]
    BY <2>1 DEF HolderInv, EntryOK, OneContender
  <2>5. prio'[w] = prio[cur] /\ prio'[h] = BoostedPrio(h, prio[cur])
    BY <1>0, <1>1, <1>4, <2>2, <2>3, <2>4
  <2>6. prio[h] \in Int /\ Base[h] \in Int /\ prio[cur] \in Int /\ prio[h] >= Base[h]
    BY <1>0, PrioTypes DEF NeverBelowBase
  <2>7. BoostedPrio(h, prio[cur]) >= prio[cur]
    BY <2>6 DEF BoostedPrio
  <2> QED BY <2>5, <2>7
<1> QED BY <1>3, <1>4

\* The restores of the holders of p change no other priority.
LEMMA OthersKeepPrio ==
    ASSUME SemInv, UseInv, OneContender, NEW s \in Mutex, NEW p \in Sem, p # s, NEW H,
           \A t \in Task : t \in H => TiedTo(t, p),
           NEW w, NEW n, NEW n1, prio' = Restored(H, w, n, n1)
    PROVE  \A t \in UsedBy(s) : prio'[t] = prio[t]
<1> SUFFICES ASSUME NEW t \in UsedBy(s) PROVE prio'[t] = prio[t]
  OBVIOUS
<1>1. t \in Task /\ ~TiedTo(t, p)
  BY NoOtherEntry DEF UsedBy
<1> QED BY <1>1 DEF Restored

\* A post gives s to the only task that waits for it.
LEMMA NotInvertedPost ==
    ASSUME SemInv, UseInv, OneContender, NEW s \in Mutex, NotInverted(s), NEW p \in Sem, SemPost(p)
    PROVE  NotInverted(s)'
<1>0. /\ cur \in Task /\ pc[cur] = "run" /\ p # NoSem /\ s \in Sem
      /\ waitsem \in [Task -> Sem \cup {NoSem}] /\ pc \in [Task -> PC] /\ psem \in [Task -> Sem \cup {NoSem}]
      /\ own \in [Task -> SUBSET Mutex] /\ semcount \in [Sem -> Int]
  BY SemConstants DEF SemPost, Running, SemInv, TypeOK
<1>1. /\ own' = [own EXCEPT ![cur] = @ \ {p}] /\ pterrno' = pterrno
      /\ p \in Mutex => p \in own[cur]
      /\ \/ UNCHANGED <<pc, psem>>
         \/ \E k \in {"post", "postbase"} : pc' = [pc EXCEPT ![cur] = k] /\ psem' = [psem EXCEPT ![cur] = p]
  BY PostPlace DEF SemPost
<1>2. /\ \A t \in Task : s \in own'[t] => s \in own[t]
      /\ \A t \in Task : pc'[t] \in {"wait", "waitisr"} => pc'[t] = pc[t] /\ psem'[t] = psem[t]
  BY <1>0, <1>1
<1>3. CASE ~WakesWaiter(p)
  <2>1. UNCHANGED <<prio, waitsem>>
    BY <1>3 DEF SemPost, PostCount, schedVars
  <2>2. \A t \in Task : IsUser(t, s)' => IsUser(t, s)
    BY <1>1, <1>2, <2>1 DEF IsUser, Granted
  <2> QED BY <2>1, <2>2, NotInvertedKept
<1>4. CASE WakesWaiter(p)
  <2>1. PICK w \in FirstWaiter(p) : PostTo(w, p)
    BY <1>4 DEF SemPost
  <2>2. w \in Task /\ waitsem[w] = p
    BY DEF FirstWaiter, Highest, Waiters
  <2>3. waitsem' = [waitsem EXCEPT ![w] = NoSem]
    BY <2>1 DEF PostTo
  <2>4. CASE p = s
    <3>1. ASSUME NEW v \in Task, waitsem'[v] = s PROVE FALSE
      <4>1. v # w /\ waitsem[v] = s
        BY <1>0, <2>2, <2>3, <2>4, <3>1
      <4>2. IsUser(cur, s)
        BY <1>1, <2>4 DEF IsUser
      <4> QED BY <1>0, <2>2, <2>4, <4>1, <4>2, NoThird
    <3> QED BY <3>1 DEF NotInverted
  <2>5. CASE p # s
    <3>1. PICK H : H = AddHolder(w, p)[p]
      OBVIOUS
    <3>2. PICK n : prio' = Restored(H, w, n, OwnRestored(H, w))
      BY <2>1, <3>1 DEF PostTo
    <3>3. \A t \in Task : t \in H => TiedTo(t, p)
      BY <2>2, <3>1, EntriesAdded, WaiterTied DEF TiedTo
    <3>4. \A t \in UsedBy(s) : prio'[t] = prio[t]
      BY <2>5, <3>2, <3>3, OthersKeepPrio
    <3>5. ASSUME NEW t \in Task, IsUser(t, s)' PROVE IsUser(t, s)
      <4>1. CASE t = w
        <5>1. psem[t] = p
          BY <1>0, <2>2, <4>1 DEF SemInv, WaitInv
        <5> QED BY <1>2, <2>5, <3>5, <5>1 DEF IsUser, Granted
      <4>2. CASE t # w
        <5>1. waitsem'[t] = waitsem[t]
          BY <1>0, <2>3, <4>2
        <5> QED BY <1>1, <1>2, <3>5, <5>1 DEF IsUser, Granted
      <4> QED BY <4>1, <4>2
    <3>6. \A t \in Task : waitsem'[t] = s => waitsem[t] = s
      BY <1>0, <2>3, SemConstants
    <3> QED BY <3>4, <3>5, <3>6, NotInvertedKept
  <2> QED BY <2>4, <2>5
<1> QED BY <1>3, <1>4

\* A handler posts other semaphores.
LEMMA NotInvertedIsr ==
    ASSUME SemInv, UseInv, OneContender, NEW s \in Mutex, NotInverted(s), NEW p \in Sem,
           IsrPost(p) \/ SemPostFromIsr(p)
    PROVE  NotInverted(s)'
<1>0. /\ p # s /\ p # NoSem /\ s # NoSem /\ waitsem \in [Task -> Sem \cup {NoSem}]
      /\ UNCHANGED <<pterrno, pc, psem, own>>
  BY SemConstants DEF IsrPost, SemPostFromIsr, SemInv, TypeOK
<1>1. CASE UNCHANGED <<prio, waitsem>>
  <2>1. \A t \in Task : IsUser(t, s)' => IsUser(t, s)
    BY <1>0, <1>1 DEF IsUser, Granted
  <2> QED BY <1>1, <2>1, NotInvertedKept
<1>2. ASSUME NEW w \in FirstWaiter(p), waitsem' = [waitsem EXCEPT ![w] = NoSem],
             \/ prio' = prio
             \/ \E n : prio' = Restored(AddHolder(w, p)[p], w, n, n)
      PROVE  NotInverted(s)'
  <2>1. w \in Task /\ waitsem[w] = p
    BY DEF FirstWaiter, Highest, Waiters
  <2>2. psem[w] = p
    BY <1>0, <2>1 DEF SemInv, WaitInv
  <2>3. \A t \in UsedBy(s) : prio'[t] = prio[t]
    <3>1. CASE prio' = prio
      BY <3>1
    <3>2. CASE prio' # prio
      <4>1. PICK n, H : H = AddHolder(w, p)[p] /\ prio' = Restored(H, w, n, n)
        BY <1>2, <3>2
      <4>2. \A t \in Task : t \in H => TiedTo(t, p)
        BY <2>1, <4>1, EntriesAdded, WaiterTied DEF TiedTo
      <4> QED BY <1>0, <4>1, <4>2, OthersKeepPrio
    <3> QED BY <3>1, <3>2
  <2>4. ASSUME NEW t \in Task, IsUser(t, s)' PROVE IsUser(t, s)
    <3>1. t = w \/ waitsem'[t] = waitsem[t]
      BY <1>0, <1>2
    <3> QED BY <1>0, <2>2, <2>4, <3>1 DEF IsUser, Granted
  <2>5. \A t \in Task : waitsem'[t] = s => waitsem[t] = s
    BY <1>0, <1>2
  <2> QED BY <2>3, <2>4, <2>5, NotInvertedKept
<1>3. CASE IsrPost(p)
  BY <1>1, <1>2, <1>3 DEF IsrPost, IsrPostTo, schedVars
<1>4. CASE SemPostFromIsr(p)
  BY <1>1, <1>2, <1>4 DEF SemPostFromIsr
<1> QED BY <1>3, <1>4

\* A time-out or a signal ends the only wait for s.
LEMMA NotInvertedCancel ==
    ASSUME SemInv, UseInv, OneContender, NEW s \in Mutex, NotInverted(s), NEW w \in Task,
           Timeout(w) \/ IsrSignal(w) \/ SigKill(w)
    PROVE  NotInverted(s)'
<1>0. /\ waitsem \in [Task -> Sem \cup {NoSem}] /\ pterrno \in [Task -> {"OK", "EINTR", "ETIMEDOUT"}]
      /\ s # NoSem /\ UNCHANGED <<pc, psem, own>>
  BY SemConstants DEF Timeout, IsrSignal, IsrCancel, SigKill, SemInv, TypeOK
<1>1. CASE UNCHANGED <<prio, waitsem, pterrno>>
  <2>1. \A t \in Task : IsUser(t, s)' => IsUser(t, s)
    BY <1>0, <1>1 DEF IsUser, Granted
  <2> QED BY <1>1, <2>1, NotInvertedKept
<1>2. ASSUME state[w] = "WAIT_SEM", waitsem' = [waitsem EXCEPT ![w] = NoSem],
             \E err \in {"EINTR", "ETIMEDOUT"} : pterrno' = [pterrno EXCEPT ![w] = err],
             \E n : prio' = Restored(holders[waitsem[w]], w, n, n)
      PROVE  NotInverted(s)'
  <2>1. PICK p : p = waitsem[w]
    OBVIOUS
  <2>2. p \in Sem
    BY <1>0, <1>2, <2>1 DEF SemInv, WaitInv
  <2>3. ASSUME NEW t \in Task, IsUser(t, s)' PROVE IsUser(t, s)
    <3>1. CASE t = w
      <4>1. pterrno'[t] # "OK"
        BY <1>0, <1>2, <3>1
      <4> QED BY <1>0, <2>3, <4>1 DEF IsUser, Granted
    <3>2. CASE t # w
      <4>1. waitsem'[t] = waitsem[t] /\ pterrno'[t] = pterrno[t]
        BY <1>0, <1>2, <3>2
      <4> QED BY <1>0, <2>3, <4>1 DEF IsUser, Granted
    <3> QED BY <3>1, <3>2
  <2>4. CASE p = s
    <3>1. ASSUME NEW h \in Task, NEW v \in Task, IsUser(h, s)', waitsem'[v] = s PROVE FALSE
      <4>1. v # w /\ waitsem[v] = s
        BY <1>0, <1>2, <3>1
      <4>2. IsUser(h, s)
        BY <2>3, <3>1
      <4> QED BY <2>1, <2>4, <4>1, <4>2, NoThird
    <3> QED BY <3>1 DEF NotInverted
  <2>5. CASE p # s
    <3>1. PICK n, H : H = holders[p] /\ prio' = Restored(H, w, n, n)
      BY <1>2, <2>1
    <3>2. \A t \in Task : t \in H => TiedTo(t, p)
      BY <3>1 DEF TiedTo
    <3>3. \A t \in UsedBy(s) : prio'[t] = prio[t]
      BY <2>2, <2>5, <3>1, <3>2, OthersKeepPrio
    <3>4. \A t \in Task : waitsem'[t] = s => waitsem[t] = s
      BY <1>0, <1>2
    <3> QED BY <2>3, <3>3, <3>4, NotInvertedKept
  <2> QED BY <2>4, <2>5
<1>3. CASE Timeout(w) /\ state[w] # "WAIT_SEM"
  BY <1>1, <1>3 DEF Timeout, schedVars
<1>4. CASE IsrCancel(w, "ETIMEDOUT") \/ IsrCancel(w, "EINTR")
  BY <1>2, <1>4 DEF IsrCancel
<1>5. CASE SigKill(w)
  BY <1>2, <1>5 DEF SigKill, Unwait
<1> QED BY <1>3, <1>4, <1>5 DEF Timeout, IsrSignal

\* Every other step leaves the priorities alone.
LEMMA NotInvertedStep ==
    ASSUME SemInv, UseInv, HolderInv, NeverBelowBase, OneContender, NEW s \in Mutex, NotInverted(s), [Next]_vars
    PROVE  NotInverted(s)'
<1>0. /\ cur \in Task /\ s \in Sem /\ s # NoSem /\ waitsem[cur] = NoSem
      /\ waitsem \in [Task -> Sem \cup {NoSem}] /\ pc \in [Task -> PC] /\ psem \in [Task -> Sem \cup {NoSem}]
      /\ own \in [Task -> SUBSET Mutex] /\ semcount \in [Sem -> Int]
  BY CurFacts, SemConstants DEF SemInv, TypeOK
<1>1. CASE SchedLock \/ SchedUnlock \/ SchedYield \/ Sleep \/ (\E t \in Task : Wake(t)) \/ UNCHANGED vars
  <2>1. UNCHANGED <<prio, semVars>>
    BY <1>1 DEF SchedLock, SchedUnlock, SchedYield, Sleep, Wake, vars, schedVars
  <2>2. \A t \in Task : IsUser(t, s)' => IsUser(t, s)
    BY <2>1 DEF semVars, IsUser, Granted
  <2> QED BY <2>1, <2>2, NotInvertedKept DEF semVars
<1>2. ASSUME NEW p \in Sem, SemTryWait(p) PROVE NotInverted(s)'
  <2>1. /\ semcount[p] > 0 /\ UNCHANGED <<prio, waitsem, pterrno, pc, psem>>
        /\ own' = own \/ own' = [own EXCEPT ![cur] = @ \cup {p}]
    BY <1>2 DEF SemTryWait, TakeCount, schedVars
  <2>2. CASE p = s
    <3>1. {w \in Task : waitsem[w] = s} = {}
      <4>1. semcount[s] >= 0 /\ CountInv(semcount, waitsem)
        BY <1>0, <2>1, <2>2 DEF SemInv
      <4> QED BY <1>0, <4>1 DEF CountInv
    <3>2. \A w \in Task : waitsem[w] # s
      BY <3>1
    <3> QED BY <2>1, <3>2 DEF NotInverted
  <2>3. CASE p # s
    <3>1. \A t \in Task : s \in own'[t] => s \in own[t]
      BY <1>0, <2>1, <2>3
    <3>2. \A t \in Task : IsUser(t, s)' => IsUser(t, s)
      BY <2>1, <3>1 DEF IsUser, Granted
    <3> QED BY <2>1, <3>2, NotInvertedKept
  <2> QED BY <2>2, <2>3
<1>3. ASSUME NEW p \in Sem, SemWaitForIsr(p) PROVE NotInverted(s)'
  <2>1. p # s /\ p # NoSem /\ UNCHANGED <<prio, own>> /\ pc[cur] = "run"
    BY <1>3, SemConstants DEF SemWaitForIsr, MayWait, Running, schedVars
  <2>2. \/ UNCHANGED <<pc, psem, waitsem, pterrno>>
        \/ /\ pc' = [pc EXCEPT ![cur] = "waitisr"] /\ psem' = [psem EXCEPT ![cur] = p]
           /\ waitsem' = [waitsem EXCEPT ![cur] = p] /\ pterrno' = [pterrno EXCEPT ![cur] = "OK"]
    BY <1>3 DEF SemWaitForIsr
  <2>3. pterrno \in [Task -> {"OK", "EINTR", "ETIMEDOUT"}]
    BY DEF SemInv, TypeOK
  <2>4. ASSUME NEW t \in Task, IsUser(t, s)' PROVE IsUser(t, s)
    <3>1. \/ pc'[t] = pc[t] /\ psem'[t] = psem[t] /\ waitsem'[t] = waitsem[t] /\ pterrno'[t] = pterrno[t]
          \/ psem'[t] = p
      BY <1>0, <2>2, <2>3
    <3> QED BY <2>1, <2>4, <3>1 DEF IsUser, Granted
  <2>5. \A t \in Task : waitsem'[t] = s => waitsem[t] = s
    BY <1>0, <2>1, <2>2
  <2> QED BY <2>1, <2>4, <2>5, NotInvertedKept
<1>4. CASE WaitReturn
  <2>1. /\ UNCHANGED <<prio, waitsem, pterrno>>
        /\ pc' = [pc EXCEPT ![cur] = IF waitdog[cur] THEN "timed" ELSE "run"]
        /\ psem' = [psem EXCEPT ![cur] = NoSem]
        /\ pc[cur] \in {"wait", "waitisr"}
        /\ \/ own' = own
           \/ pterrno[cur] = "OK" /\ own' = [own EXCEPT ![cur] = @ \cup {psem[cur]}]
    BY <1>4 DEF WaitReturn, GotCount
  <2>2. ASSUME NEW t \in Task, IsUser(t, s)' PROVE IsUser(t, s)
    <3>1. CASE t = cur
      <4>1. pc'[t] \notin {"wait", "waitisr"}
        BY <1>0, <2>1, <3>1
      <4>2. s \in own'[t]
        BY <2>2, <4>1 DEF IsUser, Granted
      <4>3. s \in own[t] \/ (pterrno[t] = "OK" /\ psem[t] = s)
        BY <1>0, <2>1, <3>1, <4>2
      <4> QED BY <1>0, <2>1, <3>1, <4>3 DEF IsUser, Granted
    <3>2. CASE t # cur
      <4>1. pc'[t] = pc[t] /\ psem'[t] = psem[t] /\ own'[t] = own[t]
        BY <1>0, <2>1, <3>2
      <4> QED BY <2>1, <2>2, <4>1 DEF IsUser, Granted
    <3> QED BY <3>1, <3>2
  <2> QED BY <2>1, <2>2, NotInvertedKept
<1>5. CASE TimedReturn \/ PostReturn
  <2>1. /\ UNCHANGED <<prio, waitsem, pterrno, own>> /\ pc' = [pc EXCEPT ![cur] = "run"]
        /\ psem' = psem \/ psem' = [psem EXCEPT ![cur] = NoSem]
    BY <1>5 DEF TimedReturn, PostReturn, schedVars
  <2>2. ASSUME NEW t \in Task, IsUser(t, s)' PROVE IsUser(t, s)
    <3>1. pc'[t] \in {"wait", "waitisr"} => pc'[t] = pc[t] /\ psem'[t] = psem[t]
      BY <1>0, <2>1
    <3> QED BY <2>1, <2>2, <3>1 DEF IsUser, Granted
  <2> QED BY <2>1, <2>2, NotInvertedKept
<1> QED BY <1>1, <1>2, <1>3, <1>4, <1>5, NotInvertedBlock, NotInvertedPost, NotInvertedIsr, NotInvertedCancel
  DEF Next, TaskStep, IsrStep, CancelStep

(***************************************************************************)
(* Priority inheritance works where a mutex has one contender: the task    *)
(* that has it runs at no lower priority than the one that waits, through  *)
(* every boost, restore, time-out and signal and whatever the other tasks  *)
(* and interrupts do: NoPriorityInversion.                                 *)
(***************************************************************************)
THEOREM HolderNotBelowWaiter == OneContender => (Spec => []NoPriorityInversion)
<1> SUFFICES ASSUME OneContender PROVE Spec => []NoPriorityInversion
  OBVIOUS
<1> DEFINE Inherited == \A s \in Mutex : NotInverted(s)
<1>1. Init => UseInv /\ Inherited
  <2> SUFFICES ASSUME Init PROVE UseInv /\ Inherited
    OBVIOUS
  <2>1. ASSUME NEW s \in Sem, NEW t \in Task PROVE ~TiedTo(t, s) /\ waitsem[t] # s
    BY <2>1, SemConstants DEF Init, TiedTo
  <2> QED BY <2>1, SemConstants DEF UseInv, NotInverted
<1>2. SemInv /\ UseInv /\ HolderInv /\ NeverBelowBase /\ Inherited /\ [Next]_vars => UseInv' /\ Inherited'
  BY UseStep, NotInvertedStep
<1>3. Inherited => NoPriorityInversion
  BY DEF NotInverted, NoPriorityInversion, Users, Waiters, IsUser
<1> HIDE DEF Inherited
<1> QED BY <1>1, <1>2, <1>3, SemInvariant, AlwaysHolderInv, BaseIsFloor, PTL DEF Spec

-----------------------------------------------------------------------------
(***************************************************************************)
(* The pthread functions use the semaphores as a program is allowed to:    *)
(* every behaviour of module Pthread is one of module Semaphore, so that   *)
(* what is proved of the semaphores holds in the composition.  From that,  *)
(* mutex->pid always names the thread that has the mutex.                  *)
(***************************************************************************)
(***************************************************************************)
(* Where a thread is says what it works on, and that it is blocked for it. *)
(***************************************************************************)
WithMutex == {"take", "taking", "try", "give", "cgive", "ctake", "ctaking", "cleave", "retake",
              "retaking", "repid", "tgive", "ttake", "ttaking"}
WithCond == {"cgive", "ctake", "ctaking", "tgive", "ttake", "ttaking", "signal", "btest", "bpost"}

Placed(t) ==
    /\ ppc[t] \in WithMutex => pm[t] \in Mutex
    /\ ppc[t] \in WithCond => pcond[t] \in Cond
    /\ ppc[t] \in {"taking", "retaking"} => pc[t] = "wait" /\ psem[t] = pm[t]
    /\ ppc[t] \in {"ctaking", "ttaking"} => pc[t] = "wait" /\ psem[t] = pcond[t]

PlaceInv == PTypeOK /\ \A t \in Task : Placed(t)

(***************************************************************************)
(* What the steps of the semaphores do to the calls and to the mutexes.    *)
(***************************************************************************)
LEMMA CondFacts == Cond \subseteq Sem /\ Cond \cap Mutex = {} /\ Mutex \subseteq Sem /\ NoSem \notin Sem
  BY SemConstants DEF Cond

\* Steps of the scheduler and of handlers.
LEMMA QuietSteps ==
    ASSUME \/ SchedLock \/ SchedUnlock \/ Sleep
           \/ \E t \in Task : Wake(t) \/ IsrSignal(t)
           \/ \E s \in Sem : IsrPost(s)
    PROVE  UNCHANGED <<pc, psem, own>>
  BY DEF SchedLock, SchedUnlock, Sleep, Wake, IsrSignal, IsrCancel, IsrPost, semVars

LEMMA TakeEffect ==
    ASSUME SemInv, NEW s \in Sem, SemTryWait(s)
    PROVE  /\ UNCHANGED <<pc, psem>> /\ pc[cur] = "run" /\ semcount[s] > 0
           /\ own' = IF s \in Mutex THEN [own EXCEPT ![cur] = @ \cup {s}] ELSE own
  BY DEF SemTryWait, MayWait, Running, TakeCount

LEMMA BlockEffect ==
    ASSUME SemInv, NEW s \in Sem, NEW b, SemBlock(s, b)
    PROVE  /\ pc' = [pc EXCEPT ![cur] = "wait"] /\ psem' = [psem EXCEPT ![cur] = s]
           /\ own' = own
  BY DEF SemBlock

LEMMA ReturnEffect ==
    ASSUME SemInv, WaitReturn
    PROVE  /\ pc' = [pc EXCEPT ![cur] = IF waitdog[cur] THEN "timed" ELSE "run"]
           /\ psem' = [psem EXCEPT ![cur] = NoSem]
           /\ own' = IF GotCount /\ psem[cur] \in Mutex
                       THEN [own EXCEPT ![cur] = @ \cup {psem[cur]}] ELSE own
  BY DEF WaitReturn

LEMMA PostEffect ==
    ASSUME SemInv, NEW s \in Sem, SemPost(s)
    PROVE  /\ pc[cur] = "run"
           /\ \A t \in Task \ {cur} : pc'[t] = pc[t] /\ psem'[t] = psem[t]
           /\ own' = [own EXCEPT ![cur] = @ \ {s}]
<1>1. pc[cur] = "run" /\ own' = [own EXCEPT ![cur] = @ \ {s}] /\ cur \in Task
  BY DEF SemPost, Running, SemInv, TypeOK
<1>2. CASE WakesWaiter(s)
  <2>1. PICK w \in FirstWaiter(s) : PostTo(w, s)
    BY <1>2 DEF SemPost
  <2> QED BY <1>1, <2>1 DEF PostTo, SemInv, TypeOK
<1>3. CASE ~WakesWaiter(s)
  BY <1>1, <1>3 DEF SemPost, PostCount
<1> QED BY <1>1, <1>2, <1>3

LEMMA PostReturnEffect ==
    ASSUME SemInv, PostReturn
    PROVE  /\ pc[cur] \in {"post", "postbase"}
           /\ pc' = [pc EXCEPT ![cur] = "run"] /\ psem' = [psem EXCEPT ![cur] = NoSem]
           /\ own' = own
  BY DEF PostReturn

-----------------------------------------------------------------------------
(***************************************************************************)
(* Every step of a thread is a step of the semaphores.                     *)
(***************************************************************************)
LEMMA StepSimulated == SemInv /\ PlaceInv /\ [PNext]_pvars => [Next]_vars
<1> SUFFICES ASSUME SemInv, PlaceInv, [PNext]_pvars PROVE [Next]_vars
  OBVIOUS
<1>0. cur \in Task /\ Placed(cur)
  BY DEF SemInv, TypeOK, PlaceInv
<1>a. /\ pm[cur] \in Mutex => pm[cur] \in Sem
      /\ pcond[cur] \in Cond => pcond[cur] \in Sem
  BY CondFacts
<1>b. ASSUME NEW s \in Sem, SemTryWait(s) \/ SemBlock(s, FALSE) \/ SemPost(s) PROVE Next
  BY <1>b DEF Next, TaskStep
<1>c. ASSUME SchedLock \/ SchedUnlock \/ Sleep \/ WaitReturn \/ PostReturn PROVE Next
  BY <1>c DEF Next, TaskStep
<1>1. ASSUME PCall PROVE [Next]_vars
  BY <1>1, <1>c DEF PCall, MutexLock, MutexTrylock, MutexUnlock, CondWait, CondTimedwait, CondBroadcast,
                    Enter, CondSignal, ThreadSleep
<1>2. ASSUME PContinue PROVE [Next]_vars
  <2>1. CASE MutexTake \/ MutexWoken \/ TryTake \/ MutexGive \/ Leave
    BY <2>1, <1>0, <1>a, <1>b, <1>c
       DEF MutexTake, MutexWoken, TryTake, MutexGive, Leave, TakeNow, TakeBlocks, Taken, TakeAgain,
           Give, AtP, Placed, WithMutex
  <2>2. CASE CondGive \/ CondTake \/ CondWoken \/ CondLeave
    BY <2>2, <1>0, <1>a, <1>b, <1>c
       DEF CondGive, CondTake, CondWoken, CondLeave, TakeNow, TakeBlocks, Taken, TakeAgain,
           Give, AtP, Placed, WithMutex, WithCond
  <2>3. CASE Retake \/ RetakeWoken \/ Repid
    BY <2>3, <1>0, <1>a, <1>b, <1>c
       DEF Retake, RetakeWoken, Repid, TakeNow, TakeBlocks, Taken, TakeAgain, AtP, Placed, WithMutex
  <2>4. CASE TimedGive \/ TimedTake \/ TimedWoken \/ WdDelete
    BY <2>4, <1>0, <1>a, <1>b, <1>c
       DEF TimedGive, TimedTake, TimedWoken, WdDelete, TakeNow, TakeBlocks, Give, AtP, Placed,
           WithMutex, WithCond
  <2>5. CASE CondPost \/ BroadcastTest \/ BroadcastPost \/ ThreadPostReturn
    BY <2>5, <1>0, <1>a, <1>b, <1>c
       DEF CondPost, BroadcastTest, BroadcastPost, ThreadPostReturn, AtP, Placed, WithCond
  <2> QED BY <1>2, <2>1, <2>2, <2>3, <2>4, <2>5 DEF PContinue
<1>3. ASSUME PIsr PROVE [Next]_vars
  <2>1. ASSUME NEW t \in Task, Wake(t) \/ IsrSignal(t) PROVE Next
    BY <2>1 DEF Next, IsrStep, CancelStep
  <2>2. ASSUME NEW s \in Cond, IsrPost(s) PROVE Next
    BY <2>2, CondFacts DEF Next, IsrStep
  <2> QED BY <1>3, <2>1, <2>2 DEF PIsr, ThreadWake, ThreadSignal, CondTimedout, IsrCondSignal
<1>4. CASE UNCHANGED pvars
  BY <1>4 DEF pvars
<1> QED BY <1>1, <1>2, <1>3, <1>4 DEF PNext

-----------------------------------------------------------------------------
\* A step of a thread moves only that thread.
LEMMA PlaceStep ==
    ASSUME PlaceInv, cur \in Task, PTypeOK',
           \A t \in Task \ {cur} : /\ ppc'[t] = ppc[t] /\ pm'[t] = pm[t] /\ pcond'[t] = pcond[t]
                                   /\ pc'[t] = pc[t] /\ psem'[t] = psem[t],
           \A t \in Task : t = cur => Placed(t)'
    PROVE  PlaceInv'
<1>1. ASSUME NEW t \in Task \ {cur} PROVE Placed(t)'
  BY <1>1 DEF PlaceInv, Placed
<1> QED BY <1>1 DEF PlaceInv

LEMMA PlaceCall == ASSUME SemInv, PlaceInv, PCall PROVE PlaceInv'
<1>0. cur \in Task /\ PTypeOK /\ semcount \in [Sem -> Int]
  BY DEF SemInv, TypeOK, PlaceInv
<1>1. ASSUME NEW where \in {"take", "try", "give", "cgive", "tgive", "btest"},
             NEW m \in Mutex \cup {NoSem}, NEW c \in Cond \cup {NoSem}, Enter(where, m, c),
             where \in WithMutex => m \in Mutex, where \in WithCond => c \in Cond
      PROVE  PlaceInv'
  <2>1. UNCHANGED <<pc, psem, own>>
    BY <1>1, QuietSteps DEF Enter
  <2>2. PTypeOK'
    BY <1>0, <1>1 DEF Enter, GotoP, PTypeOK, PPC
  <2> QED BY <1>0, <1>1, <2>1, <2>2, PlaceStep DEF Enter, GotoP, Placed, WithMutex, WithCond, PTypeOK
<1>2. ASSUME NEW c \in Cond, CondSignal(c) PROVE PlaceInv'
  <2>1. UNCHANGED <<pc, psem>> /\ c \in Sem
    BY <1>2, CondFacts DEF CondSignal, vars, semVars
  <2>2. PTypeOK'
    BY <1>0, <1>2, <2>1 DEF CondSignal, GotoP, PTypeOK, PPC
  <2> QED BY <1>0, <1>2, <2>1, <2>2, PlaceStep DEF CondSignal, GotoP, Placed, WithMutex, WithCond, PTypeOK
<1>3. ASSUME ThreadSleep PROVE PlaceInv'
  <2>1. UNCHANGED <<pc, psem, own>> /\ UNCHANGED pthreadVars
    BY <1>3, QuietSteps DEF ThreadSleep
  <2> QED BY <2>1 DEF PlaceInv, PTypeOK, Placed, pthreadVars
<1>4. "btest" \notin WithMutex /\ {"take", "try", "give"} \cap WithCond = {}
  BY DEF WithMutex, WithCond
<1>5. ASSUME NEW m \in Mutex, MutexLock(m) \/ MutexTrylock(m) \/ MutexUnlock(m) PROVE PlaceInv'
  BY <1>1, <1>4, <1>5 DEF MutexLock, MutexTrylock, MutexUnlock
<1>6. ASSUME NEW m \in Mutex, NEW c \in Cond, CondWait(c, m) \/ CondTimedwait(c, m) PROVE PlaceInv'
  BY <1>1, <1>6 DEF CondWait, CondTimedwait
<1>7. ASSUME NEW c \in Cond, CondBroadcast(c) PROVE PlaceInv'
  BY <1>1, <1>4, <1>7 DEF CondBroadcast
<1> QED BY <1>2, <1>3, <1>5, <1>6, <1>7 DEF PCall

LEMMA PlaceIsr == ASSUME SemInv, PlaceInv, PIsr PROVE PlaceInv'
<1>1. UNCHANGED <<pc, psem, own, pid, ppc, pm, pcond, sval>> /\ conddog' \in [Task -> BOOLEAN]
  <2>1. ASSUME NEW t \in Task, ThreadWake(t) \/ ThreadSignal(t)
        PROVE  UNCHANGED <<pc, psem, own>> /\ UNCHANGED pthreadVars
    BY <2>1, QuietSteps DEF ThreadWake, ThreadSignal
  <2>2. ASSUME NEW c \in Cond, IsrCondSignal(c)
        PROVE  UNCHANGED <<pc, psem, own>> /\ UNCHANGED pthreadVars
    BY <2>2, QuietSteps, CondFacts DEF IsrCondSignal
  <2>3. ASSUME NEW t \in Task, CondTimedout(t)
        PROVE  /\ UNCHANGED <<pc, psem, own, pid, ppc, pm, pcond, sval>>
               /\ conddog' = [conddog EXCEPT ![t] = FALSE]
    BY <2>3, QuietSteps DEF CondTimedout, vars, semVars
  <2> QED BY <2>1, <2>2, <2>3 DEF PIsr, pthreadVars, PlaceInv, PTypeOK
<1> QED BY <1>1 DEF PlaceInv, PTypeOK, Placed

\* A thread goes on in its call, with the same mutex and condition.
LEMMA PlaceMoves ==
    ASSUME PlaceInv, cur \in Task, pc \in [Task -> PC], psem \in [Task -> Sem \cup {NoSem}], PTypeOK',
           NEW where, GotoP(where), UNCHANGED <<pm, pcond>>,
           \A t \in Task \ {cur} : pc'[t] = pc[t] /\ psem'[t] = psem[t],
           where \in WithMutex => pm[cur] \in Mutex,
           where \in WithCond => pcond[cur] \in Cond,
           where \in {"taking", "retaking"} => pc'[cur] = "wait" /\ psem'[cur] = pm[cur],
           where \in {"ctaking", "ttaking"} => pc'[cur] = "wait" /\ psem'[cur] = pcond[cur]
    PROVE  PlaceInv'
<1>1. ppc'[cur] = where /\ \A t \in Task \ {cur} : ppc'[t] = ppc[t]
  BY DEF GotoP, PlaceInv, PTypeOK
<1>2. \A t \in Task : t = cur => Placed(t)'
  BY <1>1 DEF Placed
<1> QED BY <1>1, <1>2, PlaceStep

LEMMA PlaceContinue == ASSUME SemInv, PlaceInv, PContinue PROVE PlaceInv'
<1>0. cur \in Task /\ PTypeOK /\ Placed(cur) /\ semcount \in [Sem -> Int] /\ pc \in [Task -> PC]
      /\ psem \in [Task -> Sem \cup {NoSem}]
  BY DEF SemInv, TypeOK, PlaceInv
<1> DEFINE OthersStay == \A t \in Task \ {cur} : pc'[t] = pc[t] /\ psem'[t] = psem[t]
<1>a. ASSUME NEW s \in Sem, SemTryWait(s) PROVE OthersStay
  BY <1>a, TakeEffect
<1>b. ASSUME NEW s \in Sem, SemBlock(s, FALSE) PROVE OthersStay /\ pc'[cur] = "wait" /\ psem'[cur] = s
  BY <1>0, <1>b, BlockEffect
<1>c. ASSUME WaitReturn \/ PostReturn PROVE OthersStay
  BY <1>0, <1>c, ReturnEffect, PostReturnEffect
<1>d. ASSUME NEW s \in Sem, SemPost(s) PROVE OthersStay
  BY <1>d, PostEffect
<1>e. ASSUME SchedUnlock \/ UNCHANGED vars PROVE OthersStay
  BY <1>e, QuietSteps DEF vars, semVars
<1>f. /\ pm[cur] \in Mutex => pm[cur] \in Sem
      /\ pcond[cur] \in Cond => pcond[cur] \in Sem
  BY CondFacts
<1> HIDE DEF OthersStay
<1>1. CASE MutexTake
  <2>1. pm[cur] \in Mutex /\ pm[cur] \in Sem /\ UNCHANGED <<pm, pcond>>
    BY <1>1, <1>0, <1>f DEF MutexTake, TakeNow, TakeBlocks, AtP, Placed, WithMutex
  <2>2. PTypeOK'
    <3>1. pid' \in [Mutex -> Task \cup {NoTask}]
      BY <1>1, <1>0, <2>1 DEF MutexTake, SetPid, PTypeOK
    <3>2. ppc' \in [Task -> PPC] /\ UNCHANGED <<sval, conddog>>
      BY <1>1, <1>0 DEF MutexTake, TakeNow, TakeBlocks, GotoP, PTypeOK, PPC
    <3> QED BY <1>0, <2>1, <3>1, <3>2 DEF PTypeOK
  <2>3. CASE TakeNow(pm[cur], "take", "leave")
    <3>1. OthersStay /\ GotoP("leave")
      BY <1>a, <2>1, <2>3 DEF TakeNow
    <3> QED BY <1>0, <2>1, <2>2, <3>1, PlaceMoves DEF WithMutex, WithCond, OthersStay
  <2>4. CASE TakeBlocks(pm[cur], "take", "taking")
    <3>1. OthersStay /\ GotoP("taking") /\ pc'[cur] = "wait" /\ psem'[cur] = pm[cur]
      BY <1>b, <2>1, <2>4 DEF TakeBlocks
    <3> QED BY <1>0, <2>1, <2>2, <3>1, PlaceMoves DEF WithMutex, WithCond, OthersStay
  <2> QED BY <1>1, <2>3, <2>4 DEF MutexTake
<1>2. CASE MutexWoken
  <2>1. pm[cur] \in Mutex /\ UNCHANGED <<pm, pcond>> /\ OthersStay /\ (GotoP("leave") \/ GotoP("take"))
    BY <1>2, <1>0, <1>c DEF MutexWoken, Taken, TakeAgain, AtP, Placed, WithMutex
  <2>2. PTypeOK'
    <3>1. pid' \in [Mutex -> Task \cup {NoTask}]
      BY <1>2, <1>0, <2>1 DEF MutexWoken, SetPid, PTypeOK
    <3>2. ppc' \in [Task -> PPC] /\ UNCHANGED <<sval, conddog>>
      BY <1>2, <1>0 DEF MutexWoken, Taken, TakeAgain, GotoP, PTypeOK, PPC
    <3> QED BY <1>0, <2>1, <3>1, <3>2 DEF PTypeOK
  <2> QED BY <1>0, <2>1, <2>2, PlaceMoves DEF WithMutex, WithCond, OthersStay
<1>3. CASE TryTake
  <2>1. pm[cur] \in Mutex /\ pm[cur] \in Sem /\ UNCHANGED <<pm, pcond>> /\ GotoP("leave")
    BY <1>3, <1>0, <1>f DEF TryTake, TakeNow, AtP, Placed, WithMutex
  <2>2. PTypeOK'
    BY <1>3, <1>0, <2>1 DEF TryTake, TakeNow, GotoP, SetPid, PTypeOK, PPC
  <2>3. OthersStay
    BY <1>3, <1>a, <1>e, <2>1 DEF TryTake, TakeNow
  <2> QED BY <1>0, <2>1, <2>2, <2>3, PlaceMoves DEF WithMutex, WithCond, OthersStay
<1>4. ASSUME NEW from \in {"give", "cgive", "tgive"}, NEW to \in {"leave", "ctake", "ttake"}, Give(from, to),
             from = "give" => to = "leave"
      PROVE  PlaceInv'
  <2>1. pm[cur] \in Mutex /\ pm[cur] \in Sem /\ UNCHANGED <<pm, pcond>> /\ GotoP(to)
        /\ (to # "leave" => pcond[cur] \in Cond)
    BY <1>4, <1>0, <1>f DEF Give, AtP, Placed, WithMutex, WithCond
  <2>2. PTypeOK'
    BY <1>4, <1>0, <2>1 DEF Give, GotoP, SetPid, PTypeOK, PPC
  <2>3. OthersStay
    BY <1>4, <1>d, <2>1 DEF Give
  <2> QED BY <1>0, <2>1, <2>2, <2>3, PlaceMoves DEF WithMutex, WithCond, OthersStay
<1>5. CASE Leave \/ Repid
  <2>1. OthersStay
    BY <1>5, <1>e DEF Leave, Repid, vars
  <2>2. PTypeOK' /\ ppc'[cur] \in {"wddel", "idle"}
        /\ \A t \in Task \ {cur} : ppc'[t] = ppc[t] /\ pm'[t] = pm[t] /\ pcond'[t] = pcond[t]
    <3>1. pid' \in [Mutex -> Task \cup {NoTask}]
      BY <1>5, <1>0 DEF Leave, Repid, SetPid, PTypeOK, AtP, Placed, WithMutex
    <3>2. /\ ppc' \in [Task -> PPC] /\ ppc'[cur] \in {"wddel", "idle"}
          /\ \A t \in Task \ {cur} : ppc'[t] = ppc[t]
      BY <1>5, <1>0 DEF Leave, Repid, GotoP, PTypeOK, PPC
    <3>3. pm' = [pm EXCEPT ![cur] = NoSem] /\ pcond' = [pcond EXCEPT ![cur] = NoSem] /\ UNCHANGED <<sval, conddog>>
      BY <1>5 DEF Leave, Repid
    <3> QED BY <1>0, <3>1, <3>2, <3>3 DEF PTypeOK
  <2>3. \A t \in Task : t = cur => Placed(t)'
    BY <2>2 DEF Placed, WithMutex, WithCond
  <2> QED BY <1>0, <2>1, <2>2, <2>3, PlaceStep DEF OthersStay
<1>6. CASE CondTake \/ TimedTake
  <2>1. pm[cur] \in Mutex /\ pcond[cur] \in Cond /\ pcond[cur] \in Sem /\ UNCHANGED <<pm, pcond>>
    BY <1>6, <1>0, <1>f DEF CondTake, TimedTake, TakeNow, TakeBlocks, AtP, Placed, WithMutex, WithCond
  <2>2. PTypeOK'
    BY <1>6, <1>0, <2>1 DEF CondTake, TimedTake, TakeNow, TakeBlocks, GotoP, PTypeOK, PPC
  <2>3. CASE TakeNow(pcond[cur], "ctake", "cleave") \/ TakeNow(pcond[cur], "ttake", "take")
    <3>1. OthersStay /\ (GotoP("cleave") \/ GotoP("take"))
      BY <1>a, <2>1, <2>3 DEF TakeNow
    <3> QED BY <1>0, <2>1, <2>2, <3>1, PlaceMoves DEF WithMutex, WithCond, OthersStay
  <2>4. CASE TakeBlocks(pcond[cur], "ctake", "ctaking") \/ TakeBlocks(pcond[cur], "ttake", "ttaking")
    <3>1. OthersStay /\ (GotoP("ctaking") \/ GotoP("ttaking")) /\ pc'[cur] = "wait" /\ psem'[cur] = pcond[cur]
      BY <1>b, <2>1, <2>4 DEF TakeBlocks
    <3> QED BY <1>0, <2>1, <2>2, <3>1, PlaceMoves DEF WithMutex, WithCond, OthersStay
  <2> QED BY <1>6, <2>3, <2>4 DEF CondTake, TimedTake
<1>7. CASE CondWoken \/ TimedWoken
  <2>1. /\ pm[cur] \in Mutex /\ pcond[cur] \in Cond /\ UNCHANGED <<pm, pcond>> /\ OthersStay
        /\ GotoP("cleave") \/ GotoP("ctake") \/ GotoP("take")
    BY <1>7, <1>0, <1>c DEF CondWoken, TimedWoken, Taken, TakeAgain, AtP, Placed, WithMutex, WithCond
  <2>2. PTypeOK'
    BY <1>7, <1>0, <2>1 DEF CondWoken, TimedWoken, Taken, TakeAgain, GotoP, PTypeOK, PPC
  <2> QED BY <1>0, <2>1, <2>2, PlaceMoves DEF WithMutex, WithCond, OthersStay
<1>8. CASE CondLeave \/ WdDelete
  <2>1. /\ UNCHANGED <<pm, pcond>> /\ OthersStay
        /\ (GotoP("retake") /\ pm[cur] \in Mutex) \/ GotoP("idle")
    BY <1>8, <1>0, <1>e DEF CondLeave, WdDelete, AtP, Placed, WithMutex
  <2>2. PTypeOK'
    BY <1>8, <1>0, <2>1 DEF CondLeave, WdDelete, GotoP, PTypeOK, PPC
  <2> QED BY <1>0, <2>1, <2>2, PlaceMoves DEF WithMutex, WithCond, OthersStay
<1>9. CASE Retake
  <2>1. pm[cur] \in Mutex /\ pm[cur] \in Sem /\ UNCHANGED <<pm, pcond>>
    BY <1>9, <1>0, <1>f DEF Retake, TakeNow, TakeBlocks, AtP, Placed, WithMutex
  <2>2. PTypeOK'
    BY <1>9, <1>0, <2>1 DEF Retake, TakeNow, TakeBlocks, GotoP, PTypeOK, PPC
  <2>3. CASE TakeNow(pm[cur], "retake", "repid")
    <3>1. OthersStay /\ GotoP("repid")
      BY <1>a, <2>1, <2>3 DEF TakeNow
    <3> QED BY <1>0, <2>1, <2>2, <3>1, PlaceMoves DEF WithMutex, WithCond, OthersStay
  <2>4. CASE TakeBlocks(pm[cur], "retake", "retaking")
    <3>1. OthersStay /\ GotoP("retaking") /\ pc'[cur] = "wait" /\ psem'[cur] = pm[cur]
      BY <1>b, <2>1, <2>4 DEF TakeBlocks
    <3> QED BY <1>0, <2>1, <2>2, <3>1, PlaceMoves DEF WithMutex, WithCond, OthersStay
  <2> QED BY <1>9, <2>3, <2>4 DEF Retake
<1>10. CASE RetakeWoken
  <2>1. pm[cur] \in Mutex /\ UNCHANGED <<pm, pcond>> /\ OthersStay /\ (GotoP("repid") \/ GotoP("retake"))
    BY <1>10, <1>0, <1>c DEF RetakeWoken, Taken, TakeAgain, AtP, Placed, WithMutex
  <2>2. PTypeOK'
    BY <1>10, <1>0, <2>1 DEF RetakeWoken, Taken, TakeAgain, GotoP, PTypeOK, PPC
  <2> QED BY <1>0, <2>1, <2>2, PlaceMoves DEF WithMutex, WithCond, OthersStay
<1>11. CASE CondPost
  <2>1. pcond[cur] \in Sem /\ sval[cur] \in Int
    BY <1>11, <1>0, <1>f DEF CondPost, AtP, Placed, WithCond, PTypeOK
  <2>2. OthersStay
    BY <1>11, <1>d, <1>e, <2>1 DEF CondPost
  <2>3. PTypeOK' /\ ppc'[cur] = "idle"
        /\ \A t \in Task \ {cur} : ppc'[t] = ppc[t] /\ pm'[t] = pm[t] /\ pcond'[t] = pcond[t]
    BY <1>11, <1>0 DEF CondPost, GotoP, PTypeOK, PPC
  <2>4. \A t \in Task : t = cur => Placed(t)'
    BY <2>3 DEF Placed, WithMutex, WithCond
  <2> QED BY <1>0, <2>2, <2>3, <2>4, PlaceStep DEF OthersStay
<1>12. CASE BroadcastTest
  <2>1. /\ pcond[cur] \in Cond /\ pcond[cur] \in Sem /\ UNCHANGED <<pm, pcond>> /\ OthersStay
        /\ GotoP("bpost")
    BY <1>12, <1>0, <1>e, <1>f DEF BroadcastTest, AtP, Placed, WithCond, vars
  <2>2. PTypeOK'
    BY <1>12, <1>0, <2>1 DEF BroadcastTest, GotoP, PTypeOK, PPC
  <2> QED BY <1>0, <2>1, <2>2, PlaceMoves DEF WithMutex, WithCond, OthersStay
<1>13. CASE BroadcastPost
  <2>1. /\ pcond[cur] \in Cond /\ pcond[cur] \in Sem /\ UNCHANGED <<pm, pcond>> /\ sval[cur] \in Int
        /\ ppc[cur] = "bpost"
    BY <1>13, <1>0, <1>f DEF BroadcastPost, AtP, Placed, WithCond, PTypeOK
  <2>2. OthersStay
    BY <1>13, <1>d, <1>e, <2>1 DEF BroadcastPost
  <2>3. GotoP("leave") \/ GotoP("bpost")
    BY <1>0, <1>13, <2>1 DEF BroadcastPost, GotoP, PTypeOK
  <2>4. PTypeOK'
    BY <1>13, <1>0, <2>1 DEF BroadcastPost, GotoP, PTypeOK, PPC
  <2> QED BY <1>0, <2>1, <2>2, <2>3, <2>4, PlaceMoves DEF WithMutex, WithCond, OthersStay
<1>14. CASE ThreadPostReturn
  <2>1. OthersStay /\ pc[cur] \in {"post", "postbase"} /\ UNCHANGED pthreadVars
    BY <1>14, <1>c, PostReturnEffect DEF ThreadPostReturn
  <2>2. PTypeOK'
    BY <1>0, <2>1 DEF PTypeOK, pthreadVars
  <2>3. \A t \in Task : t = cur => Placed(t)'
    BY <1>0, <2>1 DEF Placed, pthreadVars
  <2> QED BY <1>0, <2>1, <2>2, <2>3, PlaceStep DEF OthersStay, pthreadVars
<1>15. CASE MutexGive \/ CondGive \/ TimedGive
  BY <1>15, <1>4 DEF MutexGive, CondGive, TimedGive
<1> QED BY <1>1, <1>2, <1>3, <1>5, <1>6, <1>7, <1>8, <1>9, <1>10, <1>11, <1>12, <1>13, <1>14, <1>15 DEF PContinue

LEMMA PlaceInit == PInit => PlaceInv
  BY DEF PInit, PlaceInv, PTypeOK, Placed, PPC, WithMutex, WithCond

\* Every step keeps where the threads are.
LEMMA PlaceInvStep == SemInv /\ PlaceInv /\ [PNext]_pvars => PlaceInv'
<1>1. ASSUME PlaceInv, UNCHANGED pvars PROVE PlaceInv'
  BY <1>1 DEF PlaceInv, PTypeOK, Placed, pvars, pthreadVars, vars, semVars
<1> QED BY <1>1, PlaceCall, PlaceContinue, PlaceIsr DEF PNext

\* Where a thread is says what it works on, in every reachable state.
LEMMA PlaceInvariant == PSpec => [](SemInv /\ PlaceInv)
<1>1. PInit => SemInv
  BY SemInvInit DEF PInit
<1>2. SemInv /\ PlaceInv /\ [PNext]_pvars => SemInv'
  BY StepSimulated, SemInvStep
<1> QED BY <1>1, <1>2, PlaceInit, PlaceInvStep, PTL DEF PSpec

(***************************************************************************)
(* Mutexes and conditions are correct users of the semaphores: the pthread *)
(* functions and what interrupts them are a behaviour of Semaphore, so all *)
(* that is proved there, mutual exclusion included, holds for threads.     *)
(***************************************************************************)
THEOREM ThreadsUseSemaphores == PSpec => Spec
<1>1. PInit => Init
  BY DEF PInit
<1> QED BY <1>1, PlaceInvariant, StepSimulated, PTL DEF PSpec, Spec

(***************************************************************************)
(* Mutual exclusion of pthread mutexes, for any number of threads.         *)
(***************************************************************************)
THEOREM ThreadsExclude == PSpec => []MutualExclusion
  BY ThreadsUseSemaphores, MutexesExclude, PTL

-----------------------------------------------------------------------------
(***************************************************************************)
(* The pid of a mutex and its owner.  A thread that took the mutex again   *)
(* after a condition wait has not set the pid yet; a thread on the way to  *)
(* a wait or to the mutex does not have it.                                *)
(***************************************************************************)
Giving == {"give", "cgive", "tgive"}
Without == {"take", "taking", "ctake", "ctaking", "cleave", "retake", "retaking", "ttake", "ttaking"}

Owns(t) ==
    /\ \A m \in Mutex : m \in own[t] => pid[m] = t \/ (ppc[t] = "repid" /\ pm[t] = m)
    /\ \A m \in Mutex : pid[m] = t => m \in own[t]
    /\ ppc[t] \in Giving => pid[pm[t]] = t
    /\ ppc[t] = "repid" => pm[t] \in own[t]
    /\ ppc[t] \in Without => pm[t] \notin own[t]

OwnInv == \A t \in Task : Owns(t)

\* A mutex that is free, or belongs to the running thread, is nobody else's.
LEMMA NobodyElse ==
    ASSUME SemInv, MutualExclusion, NEW m \in Mutex,
           semcount[m] > 0 \/ m \in own[cur] \/ (pc[cur] = "wait" /\ psem[cur] = m /\ GotCount)
    PROVE  \A t \in Task \ {cur} : m \notin own[t]
<1>1. cur \in Task /\ waitsem[cur] = NoSem /\ semcount[m] \in Int
  BY CurFacts, CondFacts DEF SemInv, TypeOK
<1>2. CASE semcount[m] > 0
  <2>1. semcount[m] = 1 /\ Users(m) = {}
    BY <1>1, <1>2 DEF MutualExclusion
  <2> QED BY <2>1 DEF Users
<1>3. CASE m \in own[cur] \/ (pc[cur] = "wait" /\ psem[cur] = m /\ GotCount)
  <2>1. cur \in Users(m)
    BY <1>1, <1>3 DEF Users, Granted, GotCount
  <2> QED BY <2>1 DEF Users, MutualExclusion
<1> QED BY <1>2, <1>3

\* The running thread moves and the mutexes stay as they are.
LEMMA OwnMoves ==
    ASSUME OwnInv, PlaceInv, cur \in Task, UNCHANGED <<own, pid>>,
           \A t \in Task \ {cur} : ppc'[t] = ppc[t] /\ pm'[t] = pm[t],
           ppc[cur] # "repid",
           ppc'[cur] \in Giving => pid[pm'[cur]] = cur,
           ppc'[cur] # "repid",
           ppc'[cur] \in Without => pm'[cur] \notin own[cur]
    PROVE  OwnInv'
<1>1. ASSUME NEW t \in Task \ {cur} PROVE Owns(t)'
  BY <1>1 DEF OwnInv, Owns
<1>2. \A t \in Task : t = cur => Owns(t)'
  BY DEF OwnInv, Owns
<1> QED BY <1>1, <1>2 DEF OwnInv

\* The running thread takes m and its pid is set, or will be.
LEMMA OwnTakes ==
    ASSUME OwnInv, PlaceInv, SemInv, cur \in Task, NEW m \in Mutex,
           \A t \in Task \ {cur} : m \notin own[t],
           own' = [own EXCEPT ![cur] = @ \cup {m}],
           \/ pid' = [pid EXCEPT ![m] = cur] /\ ppc'[cur] \notin {"repid"}
           \/ pid' = pid /\ ppc'[cur] = "repid" /\ pm'[cur] = m,
           \A t \in Task \ {cur} : ppc'[t] = ppc[t] /\ pm'[t] = pm[t],
           ppc[cur] = "repid" => pm[cur] = m,
           ppc'[cur] \notin Giving \cup Without
    PROVE  OwnInv'
<1>0. pid \in [Mutex -> Task \cup {NoTask}] /\ own \in [Task -> SUBSET Mutex]
  BY DEF PlaceInv, PTypeOK, SemInv, TypeOK
<1>1. ASSUME NEW t \in Task \ {cur} PROVE Owns(t)'
  <2>1. own'[t] = own[t] /\ pid[m] # t /\ m \notin own[t]
    BY <1>0 DEF OwnInv, Owns
  <2>2. \A n \in Mutex : n # m => pid'[n] = pid[n]
    BY <1>0
  <2>3. pid'[m] # t
    BY <1>0, <2>1
  <2>4. ppc[t] \in Giving => pm[t] \in Mutex /\ pm[t] # m
    BY <2>1 DEF OwnInv, Owns, PlaceInv, Placed, Giving, WithMutex
  <2> QED BY <2>1, <2>2, <2>3, <2>4 DEF OwnInv, Owns
<1>2. \A t \in Task : t = cur => Owns(t)'
  BY <1>0 DEF OwnInv, Owns
<1> QED BY <1>1, <1>2 DEF OwnInv

\* The running thread clears the pid and posts the mutex.
LEMMA OwnGives ==
    ASSUME OwnInv, PlaceInv, SemInv, MutualExclusion, cur \in Task, ppc[cur] \in Giving,
           own' = [own EXCEPT ![cur] = @ \ {pm[cur]}], pid' = [pid EXCEPT ![pm[cur]] = NoTask],
           \A t \in Task \ {cur} : ppc'[t] = ppc[t], pm' = pm,
           ppc'[cur] \in {"leave", "ctake", "ttake"}
    PROVE  OwnInv'
<1>0. pid \in [Mutex -> Task \cup {NoTask}] /\ own \in [Task -> SUBSET Mutex] /\ NoTask \notin Task
  BY NoTaskAssumption DEF PlaceInv, PTypeOK, SemInv, TypeOK
<1>1. pm[cur] \in Mutex /\ pm[cur] \in own[cur]
  BY DEF OwnInv, Owns, PlaceInv, Placed, Giving, WithMutex
<1>2. \A t \in Task \ {cur} : pm[cur] \notin own[t]
  BY <1>1, NobodyElse
<1>3. ASSUME NEW t \in Task \ {cur} PROVE Owns(t)'
  <2>1. own'[t] = own[t] /\ pid[pm[cur]] # t
    BY <1>0, <1>1, <1>2 DEF OwnInv, Owns
  <2>2. \A n \in Mutex : n # pm[cur] => pid'[n] = pid[n]
    BY <1>0
  <2>3. pid'[pm[cur]] # t
    BY <1>0, <1>1
  <2>4. ppc[t] \in Giving => pm[t] \in Mutex /\ pm[t] # pm[cur]
    BY <2>1 DEF OwnInv, Owns, PlaceInv, Placed, Giving, WithMutex
  <2> QED BY <1>2, <2>1, <2>2, <2>3, <2>4 DEF OwnInv, Owns
<1>4. \A t \in Task : t = cur => Owns(t)'
  <2>1. own'[cur] = own[cur] \ {pm[cur]} /\ pid'[pm[cur]] = NoTask
    BY <1>0, <1>1
  <2>2. \A n \in Mutex : n # pm[cur] => pid'[n] = pid[n]
    BY <1>0
  <2> QED BY <1>0, <1>1, <2>1, <2>2 DEF OwnInv, Owns, Giving
<1> QED BY <1>3, <1>4 DEF OwnInv

LEMMA OwnCall == ASSUME SemInv, PlaceInv, OwnInv, PCall PROVE OwnInv'
<1>0. cur \in Task /\ PTypeOK /\ Owns(cur)
  BY DEF SemInv, TypeOK, PlaceInv, OwnInv
<1>1. ASSUME NEW where, NEW m, NEW c, Enter(where, m, c), where # "repid",
             where \in Giving => pid[m] = cur, where \in Without => m \notin own[cur]
      PROVE  OwnInv'
  <2>1. UNCHANGED <<own, pid>> /\ ppc[cur] = "idle"
    BY <1>1, QuietSteps DEF Enter, AtP
  <2>2. ppc'[cur] = where /\ pm'[cur] = m /\ \A t \in Task \ {cur} : ppc'[t] = ppc[t] /\ pm'[t] = pm[t]
    BY <1>0, <1>1 DEF Enter, GotoP, PTypeOK
  <2> QED BY <1>0, <1>1, <2>1, <2>2, OwnMoves
<1>2. ASSUME NEW m \in Mutex, MutexLock(m) \/ MutexTrylock(m) \/ MutexUnlock(m) PROVE OwnInv'
  <2>1. MutexLock(m) => m \notin own[cur]
    BY <1>0 DEF MutexLock, Enter, AtP, Owns
  <2> QED BY <1>1, <1>2, <2>1 DEF MutexLock, MutexTrylock, MutexUnlock, Giving, Without
<1>3. ASSUME NEW m \in Mutex, NEW c \in Cond, CondWait(c, m) \/ CondTimedwait(c, m) PROVE OwnInv'
  BY <1>1, <1>3 DEF CondWait, CondTimedwait, Giving, Without
<1>4. ASSUME NEW c \in Cond, CondBroadcast(c) PROVE OwnInv'
  BY <1>1, <1>4 DEF CondBroadcast, Giving, Without
<1>5. ASSUME NEW c \in Cond, CondSignal(c) PROVE OwnInv'
  <2>1. /\ UNCHANGED <<own, pid, pm>> /\ ppc[cur] = "idle" /\ ppc'[cur] = "signal"
        /\ \A t \in Task \ {cur} : ppc'[t] = ppc[t]
    BY <1>0, <1>5 DEF CondSignal, AtP, GotoP, PTypeOK, vars, semVars
  <2> QED BY <1>0, <2>1, OwnMoves DEF Giving, Without
<1>6. ASSUME ThreadSleep PROVE OwnInv'
  <2>1. UNCHANGED <<own, pid, ppc, pm>>
    BY <1>6, QuietSteps DEF ThreadSleep, pthreadVars
  <2> QED BY <2>1 DEF OwnInv, Owns
<1> QED BY <1>2, <1>3, <1>4, <1>5, <1>6 DEF PCall

LEMMA OwnIsr == ASSUME OwnInv, PIsr PROVE OwnInv'
<1>1. ASSUME NEW t \in Task, ThreadWake(t) \/ ThreadSignal(t) \/ CondTimedout(t)
      PROVE  UNCHANGED <<own, pid, ppc, pm>>
  BY <1>1, QuietSteps DEF ThreadWake, ThreadSignal, CondTimedout, pthreadVars, vars, semVars
<1>2. ASSUME NEW c \in Cond, IsrCondSignal(c) PROVE UNCHANGED <<own, pid, ppc, pm>>
  BY <1>2, QuietSteps, CondFacts DEF IsrCondSignal, pthreadVars
<1> QED BY <1>1, <1>2 DEF PIsr, OwnInv, Owns

LEMMA OwnContinue == ASSUME SemInv, MutualExclusion, PlaceInv, OwnInv, PContinue PROVE OwnInv'
<1>0. cur \in Task /\ PTypeOK /\ Placed(cur) /\ Owns(cur) /\ own \in [Task -> SUBSET Mutex]
  BY DEF SemInv, TypeOK, PlaceInv, OwnInv
<1>a. \A where : GotoP(where) => ppc'[cur] = where /\ \A t \in Task \ {cur} : ppc'[t] = ppc[t]
  BY <1>0 DEF GotoP, PTypeOK
\* A step that changes no mutex.
<1>b. ASSUME NEW where, GotoP(where), UNCHANGED <<own, pid, pm>>, ppc[cur] # "repid", where # "repid",
             where \notin Giving, where \in Without => pm[cur] \notin own[cur]
      PROVE  OwnInv'
  BY <1>0, <1>a, <1>b, OwnMoves
\* The mutex of the call is taken at once, or was given to the thread.
<1>c. ASSUME pm[cur] \in Mutex, SemTryWait(pm[cur])
      PROVE  /\ own' = [own EXCEPT ![cur] = @ \cup {pm[cur]}]
             /\ \A t \in Task \ {cur} : pm[cur] \notin own[t]
  BY <1>c, CondFacts, TakeEffect, NobodyElse
<1>d. ASSUME pm[cur] \in Mutex, psem[cur] = pm[cur], pc[cur] = "wait", GotCount, WaitReturn
      PROVE  /\ own' = [own EXCEPT ![cur] = @ \cup {pm[cur]}]
             /\ \A t \in Task \ {cur} : pm[cur] \notin own[t]
  BY <1>d, ReturnEffect, NobodyElse
<1>e. ASSUME pm[cur] \in Mutex, SemBlock(pm[cur], FALSE) PROVE own' = own
  BY <1>e, CondFacts, BlockEffect
<1>f. ASSUME pcond[cur] \in Cond, \/ SemTryWait(pcond[cur]) \/ SemBlock(pcond[cur], FALSE)
      PROVE  own' = own
  BY <1>f, CondFacts, TakeEffect, BlockEffect
<1>1. CASE MutexTake
  <2>1. pm[cur] \in Mutex /\ ppc[cur] = "take" /\ pm' = pm
    BY <1>1, <1>0 DEF MutexTake, TakeNow, TakeBlocks, AtP, Placed, WithMutex
  <2>2. CASE TakeNow(pm[cur], "take", "leave") /\ SetPid(pm[cur], cur)
    <3>1. /\ own' = [own EXCEPT ![cur] = @ \cup {pm[cur]}] /\ pid' = [pid EXCEPT ![pm[cur]] = cur]
          /\ \A t \in Task \ {cur} : pm[cur] \notin own[t]
      BY <1>c, <2>1, <2>2 DEF TakeNow, SetPid
    <3>2. ppc'[cur] = "leave" /\ \A t \in Task \ {cur} : ppc'[t] = ppc[t]
      BY <1>a, <2>2 DEF TakeNow
    <3> QED BY <1>0, <2>1, <3>1, <3>2, OwnTakes DEF Giving, Without
  <2>3. CASE TakeBlocks(pm[cur], "take", "taking") /\ UNCHANGED pid
    BY <1>0, <1>b, <1>e, <2>1, <2>3 DEF TakeBlocks, Owns, Giving, Without
  <2> QED BY <1>1, <2>2, <2>3 DEF MutexTake
<1>2. CASE MutexWoken
  <2>1. pm[cur] \in Mutex /\ ppc[cur] = "taking" /\ pm' = pm /\ psem[cur] = pm[cur] /\ pc[cur] = "wait"
    BY <1>2, <1>0 DEF MutexWoken, Taken, TakeAgain, AtP, Placed, WithMutex
  <2>2. CASE Taken("taking", "leave") /\ SetPid(pm[cur], cur)
    <3>1. /\ own' = [own EXCEPT ![cur] = @ \cup {pm[cur]}] /\ pid' = [pid EXCEPT ![pm[cur]] = cur]
          /\ \A t \in Task \ {cur} : pm[cur] \notin own[t]
      BY <1>d, <2>1, <2>2 DEF Taken, SetPid
    <3>2. ppc'[cur] = "leave" /\ \A t \in Task \ {cur} : ppc'[t] = ppc[t]
      BY <1>a, <2>2 DEF Taken
    <3> QED BY <1>0, <2>1, <3>1, <3>2, OwnTakes DEF Giving, Without
  <2>3. CASE TakeAgain("taking", "take") /\ UNCHANGED pid
    <3>1. own' = own
      BY <2>3, ReturnEffect DEF TakeAgain
    <3> QED BY <1>0, <1>b, <2>1, <2>3, <3>1 DEF TakeAgain, Owns, Giving, Without
  <2> QED BY <1>2, <2>2, <2>3 DEF MutexWoken
<1>3. CASE TryTake
  <2>1. pm[cur] \in Mutex /\ ppc[cur] = "try" /\ pm' = pm
    BY <1>3, <1>0 DEF TryTake, TakeNow, AtP, Placed, WithMutex
  <2>2. CASE TakeNow(pm[cur], "try", "leave") /\ SetPid(pm[cur], cur)
    <3>1. /\ own' = [own EXCEPT ![cur] = @ \cup {pm[cur]}] /\ pid' = [pid EXCEPT ![pm[cur]] = cur]
          /\ \A t \in Task \ {cur} : pm[cur] \notin own[t]
      BY <1>c, <2>1, <2>2 DEF TakeNow, SetPid
    <3>2. ppc'[cur] = "leave" /\ \A t \in Task \ {cur} : ppc'[t] = ppc[t]
      BY <1>a, <2>2 DEF TakeNow
    <3> QED BY <1>0, <2>1, <3>1, <3>2, OwnTakes DEF Giving, Without
  <2>3. CASE GotoP("leave") /\ UNCHANGED <<vars, pid>>
    BY <1>b, <2>1, <2>3 DEF Giving, Without, vars, semVars
  <2> QED BY <1>3, <2>2, <2>3 DEF TryTake
<1>4. CASE MutexGive \/ CondGive \/ TimedGive
  <2>1. /\ pm[cur] \in Mutex /\ ppc[cur] \in Giving /\ pm' = pm /\ SemPost(pm[cur])
        /\ pid' = [pid EXCEPT ![pm[cur]] = NoTask]
        /\ \E to \in {"leave", "ctake", "ttake"} : GotoP(to)
    BY <1>4, <1>0 DEF MutexGive, CondGive, TimedGive, Give, SetPid, AtP, Placed, WithMutex, Giving
  <2>2. own' = [own EXCEPT ![cur] = @ \ {pm[cur]}]
    BY <2>1, CondFacts, PostEffect
  <2> QED BY <1>0, <1>a, <2>1, <2>2, OwnGives
<1>5. CASE Leave
  <2>1. /\ UNCHANGED <<own, pid>> /\ ppc[cur] = "leave"
        /\ GotoP("wddel") \/ GotoP("idle")
    BY <1>5, QuietSteps DEF Leave, AtP
  <2>2. \A t \in Task \ {cur} : pm'[t] = pm[t]
    BY <1>5, <1>0 DEF Leave, PTypeOK
  <2> QED BY <1>0, <1>a, <2>1, <2>2, OwnMoves DEF Giving, Without
<1>6. CASE CondTake \/ TimedTake
  <2>1. /\ pcond[cur] \in Cond /\ ppc[cur] \in {"ctake", "ttake"} /\ UNCHANGED <<pid, pm>>
        /\ SemTryWait(pcond[cur]) \/ SemBlock(pcond[cur], FALSE)
        /\ \E to \in {"cleave", "ctaking", "take", "ttaking"} : GotoP(to)
    BY <1>6, <1>0 DEF CondTake, TimedTake, TakeNow, TakeBlocks, AtP, Placed, WithCond
  <2>2. own' = own
    BY <1>f, <2>1
  <2> QED BY <1>0, <1>b, <2>1, <2>2 DEF Owns, Giving, Without
<1>7. CASE CondWoken \/ TimedWoken
  <2>1. /\ psem[cur] \in Cond /\ ppc[cur] \in {"ctaking", "ttaking"} /\ UNCHANGED <<pid, pm>> /\ WaitReturn
        /\ \E to \in {"cleave", "ctake", "take"} : GotoP(to)
    BY <1>7, <1>0 DEF CondWoken, TimedWoken, Taken, TakeAgain, AtP, Placed, WithCond
  <2>2. own' = own
    BY <2>1, CondFacts, ReturnEffect
  <2> QED BY <1>0, <1>b, <2>1, <2>2 DEF Owns, Giving, Without
<1>8. CASE CondLeave \/ WdDelete
  <2>1. /\ UNCHANGED <<own, pid, pm>>
        /\ \/ ppc[cur] = "cleave" /\ GotoP("retake")
           \/ ppc[cur] = "wddel" /\ GotoP("idle")
    BY <1>8, QuietSteps DEF CondLeave, WdDelete, AtP, vars, semVars
  <2> QED BY <1>0, <1>b, <2>1 DEF Owns, Giving, Without
<1>9. CASE Retake
  <2>1. pm[cur] \in Mutex /\ ppc[cur] = "retake" /\ UNCHANGED <<pid, pm>>
    BY <1>9, <1>0 DEF Retake, TakeNow, TakeBlocks, AtP, Placed, WithMutex
  <2>2. CASE TakeNow(pm[cur], "retake", "repid")
    <3>1. /\ own' = [own EXCEPT ![cur] = @ \cup {pm[cur]}]
          /\ \A t \in Task \ {cur} : pm[cur] \notin own[t]
      BY <1>c, <2>1, <2>2 DEF TakeNow
    <3>2. ppc'[cur] = "repid" /\ \A t \in Task \ {cur} : ppc'[t] = ppc[t]
      BY <1>a, <2>2 DEF TakeNow
    <3> QED BY <1>0, <2>1, <3>1, <3>2, OwnTakes DEF Giving, Without
  <2>3. CASE TakeBlocks(pm[cur], "retake", "retaking")
    BY <1>0, <1>b, <1>e, <2>1, <2>3 DEF TakeBlocks, Owns, Giving, Without
  <2> QED BY <1>9, <2>2, <2>3 DEF Retake
<1>10. CASE RetakeWoken
  <2>1. /\ pm[cur] \in Mutex /\ ppc[cur] = "retaking" /\ UNCHANGED <<pid, pm>>
        /\ psem[cur] = pm[cur] /\ pc[cur] = "wait"
    BY <1>10, <1>0 DEF RetakeWoken, Taken, TakeAgain, AtP, Placed, WithMutex
  <2>2. CASE Taken("retaking", "repid")
    <3>1. /\ own' = [own EXCEPT ![cur] = @ \cup {pm[cur]}]
          /\ \A t \in Task \ {cur} : pm[cur] \notin own[t]
      BY <1>d, <2>1, <2>2 DEF Taken
    <3>2. ppc'[cur] = "repid" /\ \A t \in Task \ {cur} : ppc'[t] = ppc[t]
      BY <1>a, <2>2 DEF Taken
    <3> QED BY <1>0, <2>1, <3>1, <3>2, OwnTakes DEF Giving, Without
  <2>3. CASE TakeAgain("retaking", "retake")
    <3>1. own' = own
      BY <2>3, ReturnEffect DEF TakeAgain
    <3> QED BY <1>0, <1>b, <2>1, <2>3, <3>1 DEF TakeAgain, Owns, Giving, Without
  <2> QED BY <1>10, <2>2, <2>3 DEF RetakeWoken
<1>11. CASE Repid
  <2>1. /\ pm[cur] \in Mutex /\ pm[cur] \in own[cur] /\ own' = own
        /\ pid' = [pid EXCEPT ![pm[cur]] = cur] /\ GotoP("idle")
    BY <1>11, <1>0 DEF Repid, SetPid, AtP, Placed, WithMutex, Owns, vars, semVars
  <2>2. \A t \in Task \ {cur} : pm'[t] = pm[t] /\ pm[cur] \notin own[t]
    BY <1>11, <1>0, <2>1, NobodyElse DEF Repid, PTypeOK
  <2>3. own' = [own EXCEPT ![cur] = @ \cup {pm[cur]}]
    BY <1>0, <2>1
  <2>4. ppc'[cur] = "idle" /\ \A t \in Task \ {cur} : ppc'[t] = ppc[t]
    BY <1>a, <2>1
  <2> QED BY <1>0, <2>1, <2>2, <2>3, <2>4, OwnTakes DEF Giving, Without
<1>12. ASSUME pcond[cur] \in Cond, SemPost(pcond[cur]) PROVE own' = own
  BY <1>0, <1>12, CondFacts, PostEffect
<1>13. CASE CondPost \/ BroadcastTest \/ BroadcastPost
  <2>1. pcond[cur] \in Cond /\ ppc[cur] \in {"signal", "btest", "bpost"} /\ UNCHANGED <<pid, pm>>
    BY <1>13, <1>0 DEF CondPost, BroadcastTest, BroadcastPost, AtP, Placed, WithCond
  <2>2. own' = own
    BY <1>13, <1>12, <2>1 DEF CondPost, BroadcastTest, BroadcastPost, vars, semVars
  <2>3. (\E to \in {"idle", "bpost", "leave"} : GotoP(to)) \/ ppc' = ppc
    BY <1>13 DEF CondPost, BroadcastTest, BroadcastPost
  <2>4. CASE ppc' = ppc
    BY <2>1, <2>2, <2>4 DEF OwnInv, Owns
  <2> QED BY <1>b, <2>1, <2>2, <2>3, <2>4 DEF Giving, Without
<1>14. CASE ThreadPostReturn
  <2>1. UNCHANGED <<own, pid, ppc, pm>>
    BY <1>14, PostReturnEffect DEF ThreadPostReturn, pthreadVars
  <2> QED BY <2>1 DEF OwnInv, Owns
<1> QED BY <1>1, <1>2, <1>3, <1>4, <1>5, <1>6, <1>7, <1>8, <1>9, <1>10, <1>11, <1>13, <1>14 DEF PContinue

\* The pids and the owners agree in every reachable state.
LEMMA OwnInvariant == PSpec => []OwnInv
<1>1. PInit => OwnInv
  <2> SUFFICES ASSUME PInit, NEW t \in Task PROVE Owns(t)
    BY DEF OwnInv
  <2>1. own[t] = {} /\ ppc[t] = "idle" /\ \A m \in Mutex : pid[m] = NoTask
    BY DEF PInit, Init
  <2> QED BY <2>1, NoTaskAssumption DEF Owns, Giving, Without
<1>2. SemInv /\ PlaceInv /\ MutualExclusion /\ OwnInv /\ [PNext]_pvars => OwnInv'
  <2>1. ASSUME OwnInv, UNCHANGED pvars PROVE OwnInv'
    BY <2>1 DEF OwnInv, Owns, pvars, pthreadVars, vars, semVars
  <2> QED BY <2>1, OwnCall, OwnContinue, OwnIsr DEF PNext
<1> QED BY <1>1, <1>2, PlaceInvariant, ThreadsExclude, PTL DEF PSpec

(***************************************************************************)
(* mutex->pid names the thread that has the mutex, whatever locks, trylocks*)
(* and condition waits are preempted, interrupted or timed out: the test   *)
(* of the pid in pthread_mutex_unlock and pthread_cond_wait (EPERM) and    *)
(* pthread_mutex_lock (EDEADLK) is a test of the owner, for any number of  *)
(* threads, mutexes and conditions.                                        *)
(***************************************************************************)
THEOREM PidIsOwner == PSpec => []PidNamesOwner
<1>1. OwnInv => PidNamesOwner
  BY DEF OwnInv, Owns, PidNamesOwner
<1> QED BY <1>1, OwnInvariant, PTL

(***************************************************************************)
(* The pthread functions post a mutex only for the thread that has it, and *)
(* never make a thread wait for a mutex it has.                            *)
(***************************************************************************)
THEOREM ContractKept == PSpec => []LockContract
<1>1. PlaceInv /\ OwnInv => LockContract
  BY DEF PlaceInv, Placed, WithMutex, OwnInv, Owns, LockContract, Giving, Without
<1> QED BY <1>1, PlaceInvariant, OwnInvariant, PTL

-----------------------------------------------------------------------------
(***************************************************************************)
(* The scheduler lock and the watchdog.  A thread holds the lock once in   *)
(* the places between the sched_lock and the sched_unlock of a call, and   *)
(* once more while a semaphore call of it has lost the CPU.                *)
(***************************************************************************)
Locked == {"take", "taking", "try", "give", "leave", "cgive", "ctake", "ctaking", "cleave",
           "tgive", "ttake", "ttaking", "btest", "bpost"}
Dogged == {"ttaking", "take", "taking", "leave", "wddel"}

Inside(p, t) == IF p[t] = "run" THEN 0 ELSE 1
Depth(where) == IF where \in Locked THEN 1 ELSE 0

Rest(t) ==
    /\ waitdog[t] = FALSE
    /\ pc[t] \in {"run", "wait", "post", "postbase"}
    /\ lock[t] = Depth(ppc[t]) + Inside(pc, t)
    /\ conddog[t] => ppc[t] \in Dogged

RestInv == \A t \in Task : Rest(t)

\* The lock and the call of the running thread go together.
Balanced ==
    /\ \A t \in Task \ {cur} : pc'[t] = pc[t] /\ lock'[t] = lock[t] /\ waitdog'[t] = waitdog[t]
    /\ waitdog'[cur] = FALSE
    /\ pc'[cur] \in {"run", "wait", "post", "postbase"}
    /\ lock'[cur] \in Int /\ lock'[cur] + Inside(pc, cur) = lock[cur] + Inside(pc', cur)

LEMMA BalancedSteps ==
    ASSUME SemInv, RestInv,
           \/ \E s \in Sem : SemTryWait(s) \/ SemBlock(s, FALSE) \/ SemPost(s)
           \/ WaitReturn \/ PostReturn \/ UNCHANGED vars
    PROVE  Balanced
<1>0. /\ cur \in Task /\ lock \in [Task -> Nat] /\ pc \in [Task -> PC] /\ waitdog \in [Task -> BOOLEAN]
      /\ waitdog[cur] = FALSE /\ pc[cur] \in {"run", "wait", "post", "postbase"}
  BY DEF SemInv, TypeOK, RestInv, Rest
<1>1. ASSUME UNCHANGED <<pc, lock, waitdog>> PROVE Balanced
  BY <1>0, <1>1 DEF Balanced, Inside
<1>2. ASSUME pc[cur] = "run", waitdog' = [waitdog EXCEPT ![cur] = FALSE] \/ waitdog' = waitdog,
             lock' = [lock EXCEPT ![cur] = @ + 1],
             NEW p \in {"wait", "post", "postbase"}, pc' = [pc EXCEPT ![cur] = p]
      PROVE  Balanced
  BY <1>0, <1>2 DEF Balanced, Inside
<1>3. ASSUME pc[cur] # "run", waitdog' = waitdog, lock' = [lock EXCEPT ![cur] = @ - 1],
             pc' = [pc EXCEPT ![cur] = "run"]
      PROVE  Balanced
  BY <1>0, <1>3 DEF Balanced, Inside
<1>4. ASSUME NEW s \in Sem, SemTryWait(s) PROVE Balanced
  BY <1>1, <1>4 DEF SemTryWait, TakeCount, schedVars
<1>5. ASSUME NEW s \in Sem, SemBlock(s, FALSE) PROVE Balanced
  BY <1>2, <1>5 DEF SemBlock, MayWait, Running
<1>6. ASSUME WaitReturn PROVE Balanced
  BY <1>0, <1>3, <1>6 DEF WaitReturn
<1>7. ASSUME PostReturn PROVE Balanced
  BY <1>0, <1>3, <1>7 DEF PostReturn
<1>8. ASSUME NEW s \in Sem, SemPost(s) PROVE Balanced
  <2>0. pc[cur] = "run" /\ waitdog' = waitdog
    BY <1>8 DEF SemPost, Running
  <2>1. CASE WakesWaiter(s)
    <3>1. PICK w \in FirstWaiter(s) : PostTo(w, s)
      BY <1>8, <2>1 DEF SemPost
    <3>2. \/ UNCHANGED <<pc, lock>>
          \/ /\ lock' = [lock EXCEPT ![cur] = @ + 1]
             /\ \E p \in {"wait", "post", "postbase"} : pc' = [pc EXCEPT ![cur] = p]
      BY <3>1 DEF PostTo
    <3> QED BY <1>1, <1>2, <2>0, <3>2
  <2>2. CASE ~WakesWaiter(s)
    BY <1>1, <1>8, <2>0, <2>2 DEF SemPost, PostCount, schedVars
  <2> QED BY <2>1, <2>2
<1> QED BY <1>1, <1>4, <1>5, <1>6, <1>7, <1>8 DEF vars, semVars, schedVars

\* The running thread moves between places with the same lock depth.
LEMMA RestMoves ==
    ASSUME SemInv, RestInv, Balanced,
           \A t \in Task \ {cur} : ppc'[t] = ppc[t] /\ conddog'[t] = conddog[t],
           ppc'[cur] \in Locked <=> ppc[cur] \in Locked,
           conddog'[cur] => ppc'[cur] \in Dogged
    PROVE  RestInv'
<1>0. cur \in Task /\ lock \in [Task -> Nat]
  BY DEF SemInv, TypeOK
<1>1. ASSUME NEW t \in Task \ {cur} PROVE Rest(t)'
  BY <1>1 DEF RestInv, Rest, Balanced, Inside, Depth
<1>2. lock[cur] = Depth(ppc[cur]) + Inside(pc, cur) /\ Depth(ppc'[cur]) = Depth(ppc[cur])
      /\ Depth(ppc[cur]) \in {0, 1} /\ Inside(pc, cur) \in {0, 1} /\ Inside(pc', cur) \in {0, 1}
  BY <1>0 DEF RestInv, Rest, Depth, Inside
<1>3. lock'[cur] + Inside(pc, cur) = Depth(ppc'[cur]) + Inside(pc, cur) + Inside(pc', cur)
  BY <1>2 DEF Balanced
<1>4. lock'[cur] = Depth(ppc'[cur]) + Inside(pc', cur)
  BY <1>2, <1>3 DEF Balanced
<1>5. \A t \in Task : t = cur => Rest(t)'
  BY <1>4 DEF Rest, Balanced, Depth, Inside
<1> QED BY <1>1, <1>5 DEF RestInv

\* A call is entered or left with the scheduler lock, and no semaphore call.
LEMMA RestLocks ==
    ASSUME SemInv, RestInv, pc[cur] = "run", UNCHANGED <<pc, waitdog>>,
           \A t \in Task \ {cur} : ppc'[t] = ppc[t] /\ conddog'[t] = conddog[t],
           \/ ppc[cur] \notin Locked /\ ppc'[cur] \in Locked /\ lock' = [lock EXCEPT ![cur] = @ + 1]
           \/ ppc[cur] \in Locked /\ ppc'[cur] \notin Locked /\ lock' = [lock EXCEPT ![cur] = @ - 1],
           conddog'[cur] => ppc'[cur] \in Dogged
    PROVE  RestInv'
<1>0. cur \in Task /\ lock \in [Task -> Nat]
  BY DEF SemInv, TypeOK
<1>1. ASSUME NEW t \in Task \ {cur} PROVE Rest(t)'
  BY <1>0, <1>1 DEF RestInv, Rest, Inside, Depth
<1>2. lock'[cur] = Depth(ppc'[cur]) + Inside(pc', cur)
  BY <1>0 DEF RestInv, Rest, Inside, Depth
<1>3. \A t \in Task : t = cur => Rest(t)'
  BY <1>2 DEF RestInv, Rest, Depth, Inside
<1> QED BY <1>1, <1>3 DEF RestInv

LEMMA RestCall == ASSUME SemInv, PlaceInv, RestInv, PCall PROVE RestInv'
<1>0. cur \in Task /\ PTypeOK /\ Rest(cur)
  BY DEF SemInv, TypeOK, PlaceInv, RestInv
<1>1. ASSUME NEW where \in Locked, NEW m, NEW c, Enter(where, m, c) PROVE RestInv'
  <2>1. /\ pc[cur] = "run" /\ UNCHANGED <<pc, waitdog, conddog>> /\ lock' = [lock EXCEPT ![cur] = @ + 1]
        /\ ppc[cur] = "idle" /\ ~conddog[cur]
    BY <1>0, <1>1 DEF Enter, AtP, SchedLock, Running, semVars, Rest, Dogged
  <2>2. ppc'[cur] = where /\ \A t \in Task \ {cur} : ppc'[t] = ppc[t]
    BY <1>0, <1>1 DEF Enter, GotoP, PTypeOK
  <2>3. "idle" \notin Locked
    BY DEF Locked
  <2> QED BY <1>1, <2>1, <2>2, <2>3, RestLocks
<1>2. ASSUME NEW c \in Cond, CondSignal(c) PROVE RestInv'
  <2>1. Balanced
    BY <1>2, BalancedSteps DEF CondSignal
  <2>2. /\ ppc[cur] = "idle" /\ ~conddog[cur] /\ UNCHANGED conddog /\ ppc'[cur] = "signal"
        /\ \A t \in Task \ {cur} : ppc'[t] = ppc[t]
    BY <1>0, <1>2 DEF CondSignal, AtP, GotoP, PTypeOK, Rest, Dogged
  <2> QED BY <2>1, <2>2, RestMoves DEF Locked
<1>3. ASSUME ThreadSleep PROVE RestInv'
  BY <1>3 DEF ThreadSleep, Sleep, semVars, pthreadVars, RestInv, Rest, Inside
<1>4. {"take", "try", "give", "cgive", "tgive", "btest"} \subseteq Locked
  BY DEF Locked
<1> QED BY <1>1, <1>2, <1>3, <1>4 DEF PCall, MutexLock, MutexTrylock, MutexUnlock, CondWait, CondTimedwait,
                                      CondBroadcast

LEMMA RestIsr == ASSUME PlaceInv, RestInv, PIsr PROVE RestInv'
<1>1. ASSUME NEW t \in Task, Wake(t) \/ IsrSignal(t) PROVE UNCHANGED <<pc, lock, waitdog>>
  BY <1>1 DEF Wake, IsrSignal, IsrCancel, semVars
<1>2. ASSUME NEW c \in Cond, IsrPost(c) PROVE UNCHANGED <<pc, lock, waitdog>>
  BY <1>2 DEF IsrPost, IsrPostTo, schedVars
<1>3. ASSUME UNCHANGED <<pc, lock, waitdog, ppc>>, conddog \in [Task -> BOOLEAN],
             \/ conddog' = conddog
             \/ \E t \in Task : conddog' = [conddog EXCEPT ![t] = FALSE]
      PROVE  RestInv'
  BY <1>3 DEF RestInv, Rest, Inside
<1>4. conddog \in [Task -> BOOLEAN]
  BY DEF PlaceInv, PTypeOK
<1>5. ASSUME NEW t \in Task, CondTimedout(t) PROVE RestInv'
  BY <1>1, <1>3, <1>4, <1>5 DEF CondTimedout, vars, semVars, schedVars
<1>6. ASSUME NEW t \in Task, ThreadWake(t) \/ ThreadSignal(t) PROVE RestInv'
  BY <1>1, <1>3, <1>4, <1>6 DEF ThreadWake, ThreadSignal, pthreadVars
<1>7. ASSUME NEW c \in Cond, IsrCondSignal(c) PROVE RestInv'
  BY <1>2, <1>3, <1>4, <1>7 DEF IsrCondSignal, pthreadVars
<1> QED BY <1>5, <1>6, <1>7 DEF PIsr

LEMMA RestContinue == ASSUME SemInv, PlaceInv, RestInv, PContinue PROVE RestInv'
<1>0. cur \in Task /\ PTypeOK /\ Placed(cur) /\ Rest(cur)
  BY DEF SemInv, TypeOK, PlaceInv, RestInv
<1>a. \A where : GotoP(where) => ppc'[cur] = where /\ \A t \in Task \ {cur} : ppc'[t] = ppc[t]
  BY <1>0 DEF GotoP, PTypeOK
<1>b. /\ pm[cur] \in Mutex => pm[cur] \in Sem
      /\ pcond[cur] \in Cond => pcond[cur] \in Sem
  BY CondFacts
\* The calls that keep the watchdog as it is.
<1>c. ASSUME NEW from, AtP(from), NEW to, GotoP(to), Balanced, UNCHANGED conddog,
             from \in Locked <=> to \in Locked, from \in Dogged => to \in Dogged
      PROVE  RestInv'
  BY <1>0, <1>a, <1>c, RestMoves DEF AtP, Rest
<1>d. ASSUME NEW from \in {"take", "try", "retake"}, AtP(from), SemTryWait(pm[cur]) \/ SemBlock(pm[cur], FALSE)
      PROVE  Balanced
  BY <1>0, <1>b, <1>d, BalancedSteps DEF AtP, Placed, WithMutex
<1>e. ASSUME NEW from \in {"ctake", "ttake"}, AtP(from), SemTryWait(pcond[cur]) \/ SemBlock(pcond[cur], FALSE)
      PROVE  Balanced
  BY <1>0, <1>b, <1>e, BalancedSteps DEF AtP, Placed, WithCond
<1>f. ASSUME WaitReturn \/ PostReturn \/ UNCHANGED vars PROVE Balanced
  BY <1>f, BalancedSteps
<1>1. CASE MutexTake \/ TryTake \/ Retake
  <2>1. UNCHANGED conddog
    BY <1>1 DEF MutexTake, TryTake, Retake
  <2>2. CASE AtP("take") /\ (GotoP("leave") \/ GotoP("taking")) /\ (SemTryWait(pm[cur]) \/ SemBlock(pm[cur], FALSE))
    <3>1. Balanced
      BY <1>d, <2>2
    <3> QED BY <1>c, <2>1, <2>2, <3>1 DEF Locked, Dogged
  <2>3. CASE AtP("try") /\ GotoP("leave") /\ (SemTryWait(pm[cur]) \/ UNCHANGED vars)
    <3>1. Balanced
      BY <1>d, <1>f, <2>3
    <3> QED BY <1>c, <2>1, <2>3, <3>1 DEF Locked, Dogged
  <2>4. CASE AtP("retake") /\ (GotoP("repid") \/ GotoP("retaking")) /\ (SemTryWait(pm[cur]) \/ SemBlock(pm[cur], FALSE))
    <3>1. Balanced
      BY <1>d, <2>4
    <3> QED BY <1>c, <2>1, <2>4, <3>1 DEF Locked, Dogged
  <2> QED BY <1>1, <2>2, <2>3, <2>4 DEF MutexTake, TryTake, Retake, TakeNow, TakeBlocks, vars
<1>2. CASE MutexWoken \/ CondWoken \/ RetakeWoken \/ TimedWoken
  <2>1. UNCHANGED conddog /\ Balanced
    BY <1>2, <1>f DEF MutexWoken, CondWoken, RetakeWoken, TimedWoken, Taken, TakeAgain
  <2>2. \/ AtP("taking") /\ (GotoP("leave") \/ GotoP("take"))
        \/ AtP("ctaking") /\ (GotoP("cleave") \/ GotoP("ctake"))
        \/ AtP("retaking") /\ (GotoP("repid") \/ GotoP("retake"))
        \/ AtP("ttaking") /\ GotoP("take")
    BY <1>2 DEF MutexWoken, CondWoken, RetakeWoken, TimedWoken, Taken, TakeAgain
  <2> QED BY <1>c, <2>1, <2>2 DEF Locked, Dogged
<1>3. CASE MutexGive \/ CondGive \/ TimedGive
  <2>1. /\ UNCHANGED conddog /\ SemPost(pm[cur]) /\ pm[cur] \in Sem
        /\ \/ AtP("give") /\ GotoP("leave")
           \/ AtP("cgive") /\ GotoP("ctake")
           \/ AtP("tgive") /\ GotoP("ttake")
    BY <1>3, <1>0, <1>b DEF MutexGive, CondGive, TimedGive, Give, AtP, Placed, WithMutex
  <2>2. Balanced
    BY <2>1, BalancedSteps
  <2> QED BY <1>c, <2>1, <2>2 DEF Locked, Dogged
<1>4. CASE CondTake
  <2>1. /\ UNCHANGED conddog /\ AtP("ctake") /\ (GotoP("cleave") \/ GotoP("ctaking"))
        /\ SemTryWait(pcond[cur]) \/ SemBlock(pcond[cur], FALSE)
    BY <1>4 DEF CondTake, TakeNow, TakeBlocks
  <2>2. Balanced
    BY <1>e, <2>1
  <2> QED BY <1>c, <2>1, <2>2 DEF Locked, Dogged
<1>5. CASE TimedTake
  <2>1. /\ conddog' = [conddog EXCEPT ![cur] = TRUE] /\ AtP("ttake") /\ (GotoP("take") \/ GotoP("ttaking"))
        /\ SemTryWait(pcond[cur]) \/ SemBlock(pcond[cur], FALSE)
    BY <1>5 DEF TimedTake, TakeNow, TakeBlocks
  <2>2. \A t \in Task \ {cur} : conddog'[t] = conddog[t]
    BY <1>0, <2>1 DEF PTypeOK
  <2>3. Balanced
    BY <1>e, <2>1
  <2>4. /\ ppc[cur] = "ttake" /\ ppc'[cur] \in {"take", "ttaking"}
        /\ \A t \in Task \ {cur} : ppc'[t] = ppc[t]
    BY <1>a, <2>1 DEF AtP
  <2> QED BY <2>2, <2>3, <2>4, RestMoves DEF Locked, Dogged
<1>6. CASE Leave \/ CondLeave
  <2>1. /\ UNCHANGED <<pc, waitdog, conddog>> /\ pc[cur] = "run" /\ lock' = [lock EXCEPT ![cur] = @ - 1]
    BY <1>6 DEF Leave, CondLeave, SchedUnlock, Running, semVars
  <2>2. \/ ppc[cur] = "leave" /\ GotoP("wddel")
        \/ ppc[cur] = "leave" /\ GotoP("idle") /\ ~conddog[cur]
        \/ ppc[cur] = "cleave" /\ GotoP("retake") /\ ~conddog[cur]
    BY <1>0, <1>6 DEF Leave, CondLeave, AtP, Rest, Dogged
  <2> QED BY <1>a, <2>1, <2>2, RestLocks DEF Locked, Dogged
<1>7. CASE Repid \/ WdDelete
  <2>1. Balanced
    BY <1>7, <1>f DEF Repid, WdDelete, vars
  <2>2. /\ ppc[cur] \in {"repid", "wddel"} /\ GotoP("idle") /\ conddog'[cur] = FALSE
        /\ \A t \in Task \ {cur} : conddog'[t] = conddog[t]
    BY <1>0, <1>7 DEF Repid, WdDelete, AtP, PTypeOK, Rest, Dogged
  <2> QED BY <1>a, <2>1, <2>2, RestMoves DEF Locked, Dogged
<1>8. CASE CondPost \/ BroadcastTest \/ BroadcastPost
  <2>1. pcond[cur] \in Sem /\ ppc[cur] \in {"signal", "btest", "bpost"} /\ UNCHANGED conddog
    BY <1>8, <1>0, <1>b DEF CondPost, BroadcastTest, BroadcastPost, AtP, Placed, WithCond
  <2>2. Balanced
    BY <1>8, <2>1, BalancedSteps DEF CondPost, BroadcastTest, BroadcastPost, vars
  <2>3. \/ ppc[cur] = "signal" /\ ppc'[cur] = "idle"
        \/ ppc[cur] \in {"btest", "bpost"} /\ ppc'[cur] \in {"bpost", "leave"}
    BY <1>8, <1>a DEF CondPost, BroadcastTest, BroadcastPost, AtP
  <2>4. \A t \in Task \ {cur} : ppc'[t] = ppc[t]
    BY <1>8, <1>a DEF CondPost, BroadcastTest, BroadcastPost
  <2> QED BY <1>0, <2>1, <2>2, <2>3, <2>4, RestMoves DEF Rest, Locked, Dogged
<1>9. CASE ThreadPostReturn
  <2>1. Balanced /\ UNCHANGED <<ppc, conddog>>
    BY <1>9, <1>f DEF ThreadPostReturn, pthreadVars
  <2> QED BY <1>0, <2>1, RestMoves DEF Rest
<1> QED BY <1>1, <1>2, <1>3, <1>4, <1>5, <1>6, <1>7, <1>8, <1>9 DEF PContinue

\* The lock counts say where the threads are in their calls, in every reachable state.
LEMMA RestInvariant == PSpec => []RestInv
<1>1. PInit => RestInv
  <2> SUFFICES ASSUME PInit, NEW t \in Task PROVE Rest(t)
    BY DEF RestInv
  <2>1. waitdog[t] = FALSE /\ pc[t] = "run" /\ lock[t] = 0 /\ ppc[t] = "idle" /\ conddog[t] = FALSE
    BY DEF PInit, Init
  <2> QED BY <2>1 DEF Rest, Depth, Inside, Locked
<1>2. SemInv /\ PlaceInv /\ RestInv /\ [PNext]_pvars => RestInv'
  <2>1. ASSUME RestInv, UNCHANGED pvars PROVE RestInv'
    BY <2>1 DEF RestInv, Rest, Inside, pvars, pthreadVars, vars, semVars, schedVars
  <2> QED BY <2>1, RestCall, RestContinue, RestIsr DEF PNext
<1> QED BY <1>1, <1>2, PlaceInvariant, PTL DEF PSpec

(***************************************************************************)
(* Every call is left with the scheduler lock as it was, without its       *)
(* watchdog and, if it waited for a condition, with the mutex, however its *)
(* waits were interrupted (CallsRestore), for any number of threads.       *)
(***************************************************************************)
THEOREM CallsAreBalanced == PSpec => []CallsRestore
<1>1. PlaceInv /\ OwnInv /\ RestInv => CallsRestore
  <2> SUFFICES ASSUME PlaceInv, OwnInv, RestInv, NEW t \in Task
               PROVE  /\ PTypeOK
                      /\ ppc[t] = "repid" => pm[t] \in own[t]
                      /\ ppc[t] \in {"idle", "retake", "repid", "signal", "wddel"} /\ pc[t] = "run" => lock[t] = 0
                      /\ conddog[t] => ppc[t] \in Dogged
    BY DEF CallsRestore, PlaceInv, Dogged
  <2> QED BY DEF PlaceInv, OwnInv, Owns, RestInv, Rest, Depth, Inside, Locked
<1> QED BY <1>1, PlaceInvariant, OwnInvariant, RestInvariant, PTL
=============================================================================
