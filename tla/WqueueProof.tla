----------------------------- MODULE WqueueProof ----------------------------
(***************************************************************************)
(* The work queue of module Wqueue, proved for any works, callers, delays  *)
(* and periods.                                                            *)
(***************************************************************************)
EXTENDS Wqueue, SequenceLemmas

(***************************************************************************)
(* The inductive invariant.  The list is in the order of the delays, and   *)
(* the worker is inside a call exactly while it has work in its hands: it  *)
(* finishes one before it looks for the next.                              *)
(***************************************************************************)
DelaysAscend == \A i, j \in 1 .. Len(q) : i < j => delay[q[i]] <= delay[q[j]]

CallsOne == at = "call" <=> doing # NoWork

WqInv == TypeOK /\ DelaysAscend /\ CallsOne /\ NoLostWakeup

-----------------------------------------------------------------------------
(***************************************************************************)
(* What the changes of the list do.                                        *)
(***************************************************************************)
\* The place of work with delay d: the entries before it have no longer delay,
\* those from it on a longer one.
LEMMA PlaceOf ==
    ASSUME TypeOK, NEW d \in Delays
    PROVE  /\ Place(d) \in 0 .. Len(q)
           /\ Place(d) # 0 => delay[q[Place(d)]] > d
           /\ \A i \in 1 .. Len(q) : Place(d) = 0 \/ i < Place(d) => delay[q[i]] <= d
<1> DEFINE I == {i \in 1 .. Len(q) : delay[q[i]] > d}
<1>0. Len(q) \in Nat /\ d \in Int /\ \A i \in 1 .. Len(q) : delay[q[i]] \in Int
  BY DEF TypeOK, Delays
<1>1. Place(d) = IF I # {} THEN Min(I) ELSE 0
  BY DEF Place, SelectInSeq
<1>2. I \in SUBSET Nat
  BY <1>0
<1>3. CASE I = {}
  <2>1. Place(d) = 0
    BY <1>1, <1>3
  <2>2. \A i \in 1 .. Len(q) : delay[q[i]] <= d
    BY <1>3, <1>0
  <2> QED BY <2>1, <2>2, <1>0
<1>4. CASE I # {}
  <2>1. Min(I) \in I /\ \A m \in I : Min(I) <= m
    BY <1>2, <1>4, MinOfNumbers
  <2>2. Place(d) = Min(I)
    BY <1>1, <1>4
  <2>3. Place(d) \in 1 .. Len(q) /\ delay[q[Place(d)]] > d
    BY <2>1, <2>2
  <2>4. ASSUME NEW i \in 1 .. Len(q), i < Place(d) PROVE delay[q[i]] <= d
    <3>1. i \in I => Place(d) <= i
      BY <2>1, <2>2
    <3>2. i \notin I
      BY <2>3, <2>4, <3>1
    <3> QED BY <3>2, <1>0
  <2> QED BY <2>3, <2>4, <1>0
<1> QED BY <1>3, <1>4

\* work_qqueue inserts the work behind those of no longer delay.
LEMMA QueueEffect ==
    ASSUME TypeOK, DelaysAscend, NEW w \in Work, NEW d \in Delays, work_qqueue(w, d)
    PROVE  /\ q' \in Seq(Work) /\ IsInjective(q') /\ ToSet(q') = ToSet(q) \cup {w}
           /\ delay' \in [Work -> Delays] /\ age' = age
           /\ worker' \in [Work -> BOOLEAN] /\ \A x \in Work : worker'[x] <=> x \in ToSet(q')
           /\ DelaysAscend'
<1> DEFINE k == IF Place(d) = 0 THEN Len(q) + 1 ELSE Place(d)
<1>0. q \in Seq(Work) /\ IsInjective(q) /\ w \notin ToSet(q) /\ Len(q) \in Nat
  BY DEF TypeOK, work_qqueue, Queued
<1>1. /\ k \in 1 .. Len(q) + 1
      /\ \A i \in 1 .. Len(q) : i < k => delay[q[i]] <= d
      /\ k \in 1 .. Len(q) => delay[q[k]] > d
  <2>1. CASE Place(d) = 0
    <3>1. k = Len(q) + 1 /\ \A i \in 1 .. Len(q) : delay[q[i]] <= d
      BY <2>1, PlaceOf
    <3> HIDE DEF k
    <3> QED BY <3>1, <1>0
  <2>2. CASE Place(d) # 0
    <3>1. k = Place(d)
      BY <2>2
    <3>2. k \in 1 .. Len(q)
      BY <2>2, <3>1, PlaceOf, <1>0
    <3> QED BY <2>2, <3>1, <3>2, PlaceOf, <1>0
  <2> QED BY <2>1, <2>2
<1>2. q' = InsertAt(q, k, w)
  <2>1. Append(q, w) = InsertAt(q, Len(q) + 1, w)
    BY <1>0, AppendIsInsert
  <2> QED BY <2>1 DEF work_qqueue
<1> HIDE DEF k
<1>3. q' \in Seq(Work) /\ IsInjective(q') /\ ToSet(q') = ToSet(q) \cup {w}
  <2>1. InsertAt(q, k, w) \in Seq(Work)
    BY <1>0, <1>1, InsertAtProperties
  <2>2. IsInjective(InsertAt(q, k, w)) /\ ToSet(InsertAt(q, k, w)) = ToSet(q) \cup {w}
    BY <1>0, <1>1, InsertAtElements
  <2> QED BY <2>1, <2>2, <1>2
<1>4. /\ delay' = [delay EXCEPT ![w] = d] /\ delay \in [Work -> Delays]
      /\ age' = age /\ worker' = [worker EXCEPT ![w] = TRUE]
  BY DEF work_qqueue, TypeOK
<1>5. worker' \in [Work -> BOOLEAN] /\ \A x \in Work : worker'[x] <=> x \in ToSet(q')
  <2>1. worker \in [Work -> BOOLEAN] /\ \A x \in Work : worker[x] <=> x \in ToSet(q)
    BY DEF TypeOK, Queued
  <2> QED BY <2>1, <1>3, <1>4
<1>6. ASSUME NEW i \in 1 .. Len(q'), NEW j \in 1 .. Len(q'), i < j
      PROVE  delay'[q'[i]] <= delay'[q'[j]]
  <2>1. /\ Len(q') = Len(q) + 1
        /\ \A l \in 1 .. Len(q) + 1 : q'[l] = IF l < k THEN q[l] ELSE IF l = k THEN w ELSE q[l - 1]
    <3> DEFINE r == InsertAt(q, k, w)
    <3>0. q \in Seq(Work) /\ k \in 1 .. Len(q) + 1
      BY <1>0, <1>1
    <3>1. /\ Len(r) = Len(q) + 1
          /\ \A l \in 1 .. Len(q) + 1 : r[l] = IF l < k THEN q[l] ELSE IF l = k THEN w ELSE q[l - 1]
      BY <3>0, InsertAtEntries
    <3>2. q' = r
      BY <1>2
    <3> HIDE DEF r
    <3> QED BY <3>1, <3>2
  <2>2. \A l \in 1 .. Len(q) : q[l] \in Work /\ delay'[q[l]] = delay[q[l]] /\ delay[q[l]] \in Int
    <3>1. ASSUME NEW l \in 1 .. Len(q) PROVE q[l] \in Work /\ q[l] # w
      BY <1>0 DEF ToSet
    <3> QED BY <3>1, <1>4 DEF Delays
  <2>3. delay'[w] = d /\ d \in Int
    BY <1>4 DEF Delays
  <2>4. \A l, m \in 1 .. Len(q) : l < m => delay[q[l]] <= delay[q[m]]
    BY DEF DelaysAscend
  <2>5. i \in 1 .. Len(q) + 1 /\ j \in 1 .. Len(q) + 1 /\ k \in Int
    BY <2>1, <1>1
  <2>6. CASE j < k
    <3>1. i \in 1 .. Len(q) /\ j \in 1 .. Len(q) /\ i < k
      BY <1>0, <1>1, <1>6, <2>5, <2>6
    <3>2. q'[i] = q[i] /\ q'[j] = q[j]
      BY <2>1, <2>5, <2>6, <3>1
    <3> QED BY <1>6, <2>2, <2>4, <3>1, <3>2
  <2>7. CASE j = k
    <3>1. i \in 1 .. Len(q) /\ i < k /\ ~(k < k)
      BY <1>0, <1>1, <1>6, <2>5, <2>7
    <3>2. q'[i] = q[i] /\ q'[j] = w
      BY <2>1, <2>5, <2>7, <3>1
    <3> QED BY <1>1, <2>2, <2>3, <3>1, <3>2
  <2>8. CASE j > k /\ i < k
    <3>1. i \in 1 .. Len(q) /\ j - 1 \in 1 .. Len(q) /\ ~(j < k) /\ j # k /\ i < j - 1
      BY <1>0, <1>1, <1>6, <2>5, <2>8
    <3>2. q'[i] = q[i] /\ q'[j] = q[j - 1]
      BY <2>1, <2>5, <2>8, <3>1
    <3> QED BY <2>2, <2>4, <3>1, <3>2
  <2>9. CASE j > k /\ i = k
    <3>1. k \in 1 .. Len(q) /\ j - 1 \in 1 .. Len(q) /\ ~(j < k) /\ j # k /\ ~(k < k)
      BY <1>0, <1>1, <1>6, <2>5, <2>9
    <3>2. q'[i] = w /\ q'[j] = q[j - 1]
      BY <2>1, <2>5, <2>9, <3>1
    <3>3. k = j - 1 \/ k < j - 1
      BY <2>5, <2>9
    <3>4. delay[q[k]] <= delay[q[j - 1]]
      BY <2>2, <2>4, <3>1, <3>3
    <3> QED BY <1>1, <2>2, <2>3, <3>1, <3>2, <3>4
  <2>10. CASE j > k /\ i > k
    <3>1. i - 1 \in 1 .. Len(q) /\ j - 1 \in 1 .. Len(q) /\ i - 1 < j - 1
          /\ ~(j < k) /\ j # k /\ ~(i < k) /\ i # k
      BY <1>0, <1>1, <1>6, <2>5, <2>10
    <3>2. q'[i] = q[i - 1] /\ q'[j] = q[j - 1]
      BY <2>1, <2>5, <3>1
    <3> QED BY <2>2, <2>4, <3>1, <3>2
  <2> QED BY <2>5, <2>6, <2>7, <2>8, <2>9, <2>10
<1>7. DelaysAscend'
  BY <1>6 DEF DelaysAscend
<1> QED BY <1>3, <1>4, <1>5, <1>7

\* A work that leaves the list, called or cancelled, leaves the others as they are.
LEMMA RemoveEffect ==
    ASSUME TypeOK, DelaysAscend, NEW w \in ToSet(q), Removed(w)
    PROVE  /\ q' \in Seq(Work) /\ IsInjective(q') /\ ToSet(q') = ToSet(q) \ {w}
           /\ delay' \in [Work -> Delays] /\ age' \in [Work -> Delays]
           /\ Len(q') = Len(q) - 1
           /\ DelaysAscend'
<1>0. q \in Seq(Work) /\ IsInjective(q) /\ Len(q) \in Nat
  BY DEF TypeOK
<1>1. PICK k \in 1 .. Len(q) : q[k] = w /\ RemoveFirst(q, w) = RemoveAt(q, k)
  BY <1>0, RemoveFirstEntry
<1>2. q' = RemoveAt(q, k)
  BY <1>1 DEF Removed
<1>3. q' \in Seq(Work) /\ IsInjective(q') /\ ToSet(q') = ToSet(q) \ {w} /\ Len(q') = Len(q) - 1
  BY <1>0, <1>1, <1>2, RemoveAtEntries, RemoveAtElements
<1>4. 0 \in Delays /\ Delays \subseteq Int
  BY WqueueConstants DEF Delays
<1>5. /\ delay' = [delay EXCEPT ![w] = 0] /\ delay \in [Work -> Delays]
      /\ age' = [age EXCEPT ![w] = 0] /\ age \in [Work -> Delays]
  BY DEF Removed, TypeOK
<1>6. delay' \in [Work -> Delays] /\ age' \in [Work -> Delays]
  BY <1>4, <1>5
<1>7. ASSUME NEW i \in 1 .. Len(q'), NEW j \in 1 .. Len(q'), i < j
      PROVE  delay'[q'[i]] <= delay'[q'[j]]
  <2> DEFINE old(l) == IF l < k THEN l ELSE l + 1
  <2>1. \A l \in 1 .. Len(q) - 1 : q'[l] = IF l < k THEN q[l] ELSE q[l + 1]
    BY <1>0, <1>2, RemoveAtEntries
  <2>2. \A l \in 1 .. Len(q) - 1 : old(l) \in 1 .. Len(q) /\ old(l) # k /\ q'[l] = q[old(l)]
    BY <2>1, <1>0
  <2>3. \A l \in 1 .. Len(q) : l # k => delay'[q[l]] = delay[q[l]]
    <3>1. ASSUME NEW l \in 1 .. Len(q), l # k PROVE q[l] \in Work /\ q[l] # w
      BY <3>1, <1>0, <1>1 DEF IsInjective
    <3> QED BY <3>1, <1>5
  <2>4. i \in 1 .. Len(q) - 1 /\ j \in 1 .. Len(q) - 1 /\ old(i) < old(j)
    BY <1>0, <1>3, <1>7
  <2>5. delay[q[old(i)]] <= delay[q[old(j)]]
    BY <2>2, <2>4 DEF DelaysAscend
  <2> QED BY <2>2, <2>3, <2>4, <2>5
<1>8. DelaysAscend'
  BY <1>7 DEF DelaysAscend
<1> QED BY <1>3, <1>6, <1>8

-----------------------------------------------------------------------------
(***************************************************************************)
(* Every action preserves the invariant.                                   *)
(***************************************************************************)
LEMMA WqInvInit == Init => WqInv
<1> SUFFICES ASSUME Init PROVE WqInv
  OBVIOUS
<1>1. 0 \in Delays /\ 0 \in 0 .. MaxDelay + Period /\ 0 \in 0 .. MaxFree
  BY WqueueConstants DEF Delays
<1>2. q \in Seq(Work) /\ IsInjective(q) /\ ToSet(q) = {} /\ Len(q) = 0
  BY DEF Init, IsInjective, ToSet
<1>3. TypeOK
  BY <1>1, <1>2 DEF Init, TypeOK, Queued
<1> QED BY <1>2, <1>3 DEF Init, WqInv, DelaysAscend, CallsOne, NoLostWakeup

\* The list stays, and nobody stops to signal while the worker waits.
LEMMA ListStays ==
    ASSUME DelaysAscend, UNCHANGED <<q, delay>> PROVE DelaysAscend'
BY DEF DelaysAscend

LEMMA StepQueue ==
    ASSUME WqInv, NEW w \in Work, NEW d \in Delays,
           IsrQueue(w, d) \/ \E c \in Caller : WorkQueue(c, w, d)
    PROVE  WqInv'
<1> USE DEF WqInv
<1>1. work_qqueue(w, d)
  BY DEF IsrQueue, WorkQueue
<1>2. /\ q' \in Seq(Work) /\ IsInjective(q')
      /\ delay' \in [Work -> Delays] /\ age' = age
      /\ worker' \in [Work -> BOOLEAN] /\ \A x \in Work : worker'[x] <=> x \in ToSet(q')
      /\ DelaysAscend'
  BY <1>1, QueueEffect
<1>3. CASE IsrQueue(w, d)
  <2>1. /\ at' = (IF at \in {"sigwait", "usleep"} THEN "collect" ELSE at) /\ nap' = 0
        /\ UNCHANGED <<doing, pass, signalling, delayed>>
    BY <1>3 DEF IsrQueue, work_signal
  <2>2. 0 \in 0 .. MaxDelay + Period
    BY WqueueConstants
  <2>3. TypeOK'
    BY <1>2, <2>1, <2>2 DEF TypeOK, Queued
  <2> QED BY <1>2, <2>1, <2>3 DEF CallsOne, NoLostWakeup
<1>4. ASSUME NEW c \in Caller, WorkQueue(c, w, d) PROVE WqInv'
  <2>1. UNCHANGED <<at, doing, pass, nap, delayed>> /\ signalling' = signalling \cup {c}
    BY <1>4 DEF WorkQueue, threadVars
  <2>2. TypeOK'
    BY <1>2, <2>1 DEF TypeOK, Queued
  <2> QED BY <1>2, <2>1, <2>2 DEF CallsOne, NoLostWakeup
<1> QED BY <1>3, <1>4

LEMMA StepSignal == ASSUME WqInv, NEW c \in Caller, WorkSignal(c) PROVE WqInv'
<1> USE DEF WqInv
<1>1. /\ at' = (IF at \in {"sigwait", "usleep"} THEN "collect" ELSE at) /\ nap' = 0
      /\ signalling' = signalling \ {c}
      /\ UNCHANGED <<q, worker, delay, age, doing, pass, delayed>>
  BY DEF WorkSignal, work_signal, workVars
<1>2. 0 \in 0 .. MaxDelay + Period
  BY WqueueConstants
<1>3. TypeOK'
  BY <1>1, <1>2 DEF TypeOK, Queued
<1> QED BY <1>1, <1>3, ListStays DEF CallsOne, NoLostWakeup

LEMMA StepCancel == ASSUME WqInv, NEW w \in Work, WorkCancel(w) PROVE WqInv'
<1> USE DEF WqInv
<1>1. w \in ToSet(q) /\ Removed(w) /\ worker' = [worker EXCEPT ![w] = FALSE]
  BY DEF WorkCancel, Queued
<1>2. UNCHANGED <<at, doing, pass, nap, signalling, delayed>>
  BY DEF WorkCancel, threadVars
<1>3. /\ q' \in Seq(Work) /\ IsInjective(q') /\ ToSet(q') = ToSet(q) \ {w}
      /\ delay' \in [Work -> Delays] /\ age' \in [Work -> Delays]
      /\ DelaysAscend'
  BY <1>1, RemoveEffect
<1>4. TypeOK'
  BY <1>1, <1>2, <1>3 DEF TypeOK, Queued
<1>5. q # <<>>
  BY <1>1 DEF ToSet
<1> QED BY <1>2, <1>3, <1>4, <1>5 DEF CallsOne, NoLostWakeup

LEMMA StepFree == ASSUME WqInv, SchedUfree \/ Collect \/ CollectDone PROVE WqInv'
<1> USE DEF WqInv
<1>1. UNCHANGED <<q, worker, delay, age, doing, pass, nap, signalling>>
  BY DEF SchedUfree, Collect, CollectDone, workVars, threadVars
<1>2. at' = at \/ (at = "collect" /\ at' = "process")
  BY DEF SchedUfree, Collect, CollectDone, threadVars
<1>3. delayed' \in 0 .. MaxFree
  BY WqueueConstants DEF SchedUfree, Collect, CollectDone, TypeOK
<1>4. TypeOK'
  BY <1>1, <1>2, <1>3 DEF TypeOK, Queued
<1> QED BY <1>1, <1>2, <1>4, ListStays DEF CallsOne, NoLostWakeup

\* Queued work is not cancelled, so that what the worker finds due it calls.
LEMMA DueIsCalled ==
    ASSUME TypeOK, ProcessDue
    PROVE  /\ Head(q) \in ToSet(q) /\ Head(q) \in Work
           /\ Removed(Head(q))
           /\ worker' = [worker EXCEPT ![Head(q)] = FALSE]
           /\ doing' = Head(q) /\ at' = "call"
           /\ UNCHANGED <<pass, nap, signalling, delayed>>
           /\ age[Head(q)] >= delay[Head(q)] /\ at \in {"process", "again"}
<1>1. q \in Seq(Work) /\ IsInjective(q) /\ q # <<>>
  BY DEF TypeOK, ProcessDue
<1>2. Head(q) \in ToSet(q)
  BY <1>1, TailElements
<1>3. Head(q) \in Work
  BY <1>1
<1>4. worker[Head(q)]
  BY <1>2, <1>3 DEF TypeOK, Queued
<1> QED BY <1>2, <1>3, <1>4 DEF ProcessDue, IsDue, Processing

LEMMA StepProcessDue == ASSUME WqInv, ProcessDue PROVE WqInv'
<1> USE DEF WqInv
<1> DEFINE w == Head(q)
<1>1. /\ w \in ToSet(q) /\ w \in Work
      /\ Removed(w)
      /\ worker' = [worker EXCEPT ![w] = FALSE]
      /\ doing' = w /\ at' = "call"
      /\ UNCHANGED <<pass, nap, signalling, delayed>>
  BY DueIsCalled
<1> HIDE DEF w
<1>2. /\ q' \in Seq(Work) /\ IsInjective(q') /\ ToSet(q') = ToSet(q) \ {w}
      /\ delay' \in [Work -> Delays] /\ age' \in [Work -> Delays]
      /\ DelaysAscend'
  BY <1>1, RemoveEffect
<1>3. TypeOK'
  BY <1>1, <1>2 DEF TypeOK, Queued
<1>4. w # NoWork
  BY <1>1, WqueueConstants
<1> QED BY <1>1, <1>2, <1>3, <1>4 DEF CallsOne, NoLostWakeup

LEMMA StepProcessLater == ASSUME WqInv, ProcessLater PROVE WqInv'
<1> USE DEF WqInv
<1> DEFINE w == Head(q)
           n == IF age[w] + pass > delay[w] THEN 0 ELSE delay[w] - (age[w] + pass)
<1>1. /\ at' = (IF n > 0 THEN "usleep" ELSE "collect") /\ nap' = n /\ pass' = 0
      /\ UNCHANGED <<q, worker, delay, age, doing, signalling, delayed>>
      /\ at \in {"process", "again"}
  BY DEF ProcessLater, Usleep, workVars, Processing
<1>2. w \in Work
  BY DEF ProcessLater, TypeOK
<1>3. n \in 0 .. MaxDelay + Period /\ 0 \in Delays
  <2>1. age[w] \in 0 .. MaxDelay /\ delay[w] \in 0 .. MaxDelay /\ pass \in 0 .. MaxDelay
    BY <1>2 DEF TypeOK, Delays
  <2> QED BY <2>1, WqueueConstants DEF Delays
<1> HIDE DEF n, w
<1>4. TypeOK'
  BY <1>1, <1>3 DEF TypeOK, Queued
<1> QED BY <1>1, <1>4, ListStays DEF CallsOne, NoLostWakeup

LEMMA StepProcessEmpty == ASSUME WqInv, ProcessEmpty PROVE WqInv'
<1> USE DEF WqInv
<1>1. /\ q = <<>> /\ at \in {"process", "again"} /\ at' = "sigwait" /\ pass' = 0
      /\ UNCHANGED <<q, worker, delay, age, doing, nap, signalling, delayed>>
  BY DEF ProcessEmpty, Processing, workVars
<1>2. 0 \in Delays
  BY WqueueConstants DEF Delays
<1>3. TypeOK'
  BY <1>1, <1>2 DEF TypeOK, Queued
<1> QED BY <1>1, <1>3, ListStays DEF CallsOne, NoLostWakeup

LEMMA StepReturns == ASSUME WqInv, CallReturn \/ UsleepReturn PROVE WqInv'
<1> USE DEF WqInv
<1>1. UNCHANGED <<q, worker, delay, age, pass, nap, signalling, delayed>>
  BY DEF CallReturn, UsleepReturn, workVars
<1>2. \/ doing' = NoWork /\ at' = "again"
      \/ at = "usleep" /\ at' = "collect" /\ doing' = doing
  BY DEF CallReturn, UsleepReturn
<1>3. TypeOK'
  BY <1>1, <1>2 DEF TypeOK, Queued
<1> QED BY <1>1, <1>2, <1>3, ListStays DEF CallsOne, NoLostWakeup

LEMMA StepTick == ASSUME WqInv, Tick PROVE WqInv'
<1> USE DEF WqInv
<1>0. UNCHANGED <<q, worker, delay, at, doing, signalling, delayed>>
  BY DEF Tick
<1>1. \A n \in Delays : Capped(n + 1) \in Delays
  BY WqueueConstants DEF Delays, Capped
<1>2. age' \in [Work -> Delays]
  BY <1>1 DEF Tick, TypeOK
<1>3. nap' \in 0 .. MaxDelay + Period /\ pass' \in Delays
  BY <1>1, WqueueConstants DEF Tick, TypeOK
<1>4. TypeOK'
  BY <1>0, <1>2, <1>3 DEF TypeOK, Queued
<1> QED BY <1>0, <1>4, ListStays DEF CallsOne, NoLostWakeup

\* Every step preserves the invariant.
LEMMA WqInvStep == WqInv /\ [Next]_vars => WqInv'
<1> SUFFICES ASSUME WqInv, [Next]_vars PROVE WqInv'
  OBVIOUS
<1>1. CASE Next
  BY <1>1, StepQueue, StepSignal, StepCancel, StepFree, StepProcessDue, StepProcessLater,
     StepProcessEmpty, StepReturns, StepTick DEF Next, Thread
<1>2. CASE UNCHANGED vars
  <2>1. UNCHANGED <<q, worker, delay, age, at, doing, pass, nap, signalling, delayed>>
    BY <1>2 DEF vars, workVars, threadVars
  <2> QED BY <2>1 DEF WqInv, TypeOK, Queued, DelaysAscend, CallsOne, NoLostWakeup
<1> QED BY <1>1, <1>2

\* The inductive invariant holds in every reachable state.
LEMMA WqInvariant == Spec => []WqInv
BY WqInvInit, WqInvStep, PTL DEF Spec

-----------------------------------------------------------------------------
(***************************************************************************)
(* The theorems.                                                           *)
(***************************************************************************)
\* All state has its type, each work is at most once on the list, and a work
\* has its worker function exactly while it is on it (work_qqueue, work_qcancel,
\* work_process).
THEOREM WorkTypes == Spec => []TypeOK
<1>1. WqInv => TypeOK
  BY DEF WqInv
<1> QED BY <1>1, WqInvariant, PTL

\* The worker never waits for SIGWORK without end beside work that nobody will
\* signal (kwork_process.c).
THEOREM WakeupsKept == Spec => []NoLostWakeup
<1>1. WqInv => NoLostWakeup
  BY DEF WqInv
<1> QED BY <1>1, WqInvariant, PTL

\* work_process looks at the first entry only and sleeps for it: the list is in
\* the order of the delays (kwork_queue.c).
THEOREM ListInOrder == Spec => []DelaysAscend
<1>1. WqInv => DelaysAscend
  BY DEF WqInv
<1> QED BY <1>1, WqInvariant, PTL

-----------------------------------------------------------------------------
(***************************************************************************)
(* The refinement.  The list maps to the set of its elements; signals and  *)
(* sleeps of the worker are invisible.                                     *)
(***************************************************************************)
LEMMA AbsStutter ==
    ASSUME UNCHANGED <<q, delay, age, doing>> PROVE UNCHANGED Abs!vars
BY DEF Abs!vars

\* Every step is one of the abstract work queue, or none.
LEMMA RefStep == WqInv /\ [Next]_vars => [Abs!Next]_(Abs!vars)
<1> SUFFICES ASSUME WqInv, [Next]_vars PROVE [Abs!Next]_(Abs!vars)
  OBVIOUS
<1> USE DEF WqInv
<1>1. ASSUME NEW w \in Work, NEW d \in Delays, IsrQueue(w, d) \/ \E c \in Caller : WorkQueue(c, w, d)
      PROVE  Abs!Next
  <2>1. work_qqueue(w, d) /\ UNCHANGED doing
    BY <1>1 DEF IsrQueue, WorkQueue, work_signal, threadVars
  <2>2. ToSet(q') = ToSet(q) \cup {w} /\ age' = age
    BY <2>1, QueueEffect
  <2>3. w \notin ToSet(q) /\ delay' = [delay EXCEPT ![w] = d]
    BY <2>1 DEF work_qqueue, Queued
  <2>4. Abs!Queue(w, d)
    BY <2>1, <2>2, <2>3 DEF Abs!Queue
  <2> QED BY <2>4 DEF Abs!Next, Delays
<1>2. ASSUME NEW w \in ToSet(q), Removed(w) PROVE Abs!Remove(w)
  <2>1. ToSet(q') = ToSet(q) \ {w}
    BY <1>2, RemoveEffect
  <2> QED BY <1>2, <2>1 DEF Removed, Abs!Remove
<1>3. ASSUME NEW w \in Work, WorkCancel(w) PROVE Abs!Next
  <2>1. w \in ToSet(q) /\ Removed(w) /\ UNCHANGED doing
    BY <1>3 DEF WorkCancel, Queued, threadVars
  <2>2. Abs!Cancel(w)
    BY <1>2, <2>1 DEF Abs!Cancel
  <2> QED BY <2>2 DEF Abs!Next
<1>4. ASSUME ProcessDue PROVE Abs!Next
  <2> DEFINE w == Head(q)
  <2>1. w \in ToSet(q) /\ w \in Work /\ Removed(w) /\ doing' = w /\ age[w] >= delay[w]
        /\ at \in {"process", "again"}
    BY <1>4, DueIsCalled
  <2> HIDE DEF w
  <2>2. doing = NoWork
    BY <2>1 DEF CallsOne
  <2>3. Abs!Call(w)
    BY <1>2, <2>1, <2>2 DEF Abs!Call
  <2> QED BY <2>1, <2>3 DEF Abs!Next
<1>5. ASSUME CallReturn PROVE Abs!Next
  <2>1. doing # NoWork /\ doing' = NoWork /\ UNCHANGED <<q, delay, age>>
    BY <1>5 DEF CallReturn, CallsOne, workVars
  <2>2. Abs!Return
    BY <2>1 DEF Abs!Return
  <2> QED BY <2>2 DEF Abs!Next
<1>6. ASSUME Tick PROVE Abs!Next
  <2>1. UNCHANGED <<q, delay, doing>>
    BY <1>6 DEF Tick
  <2>2. \A n \in Delays : Capped(n + 1) = IF n < MaxDelay THEN n + 1 ELSE n
    BY WqueueConstants DEF Capped, Delays
  <2>3. \A x \in Work : age[x] \in Delays
    BY DEF TypeOK
  <2>4. age' = Abs!Aged
    BY <1>6, <2>2, <2>3 DEF Tick, Queued, Abs!Aged
  <2>5. Abs!Tick
    BY <2>1, <2>4 DEF Abs!Tick
  <2> QED BY <2>5 DEF Abs!Next
<1>7. ASSUME \/ \E c \in Caller : WorkSignal(c)
             \/ SchedUfree \/ Collect \/ CollectDone \/ ProcessLater \/ ProcessEmpty \/ UsleepReturn
             \/ UNCHANGED vars
      PROVE  UNCHANGED Abs!vars
  <2>1. UNCHANGED <<q, delay, age, doing>>
    BY <1>7 DEF WorkSignal, work_signal, SchedUfree, Collect, CollectDone, ProcessLater, ProcessEmpty,
       UsleepReturn, vars, workVars, threadVars
  <2> QED BY <2>1, AbsStutter
<1> QED BY <1>1, <1>3, <1>4, <1>5, <1>6, <1>7 DEF Next, Thread

\* Every behaviour of the list, its callers and the worker is one of WqueueAbs:
\* queued work is called once, not before its delay, or cancelled and not called.
THEOREM WorkImplements == Spec => ImplementsWqueueAbs
<1>1. Init => Abs!Init
  BY DEF Init, Abs!Init, ToSet
<1> QED BY <1>1, RefStep, WqInvariant, PTL DEF Spec, ImplementsWqueueAbs, Abs!Spec
=============================================================================
