----------------------------- MODULE SchedProof -----------------------------
(***************************************************************************)
(* The task lists of module Sched, proved for any finite set of tasks, any *)
(* blocked lists, priorities, lock counts and time slices.                 *)
(***************************************************************************)
EXTENDS Sched, SequenceLemmas, FiniteSetTheorems, FunctionTheorems

(***************************************************************************)
(* Lists in descending order of priority.                                  *)
(***************************************************************************)
Priorities == [Task -> 0 .. MaxPrio]

\* A list has each of its tasks once.
Once(q) == q \in Seq(Task) /\ \A i, j \in 1 .. Len(q) : q[i] = q[j] => i = j

Descends(q, pri) == \A i, j \in 1 .. Len(q) : i <= j => pri[q[j]] <= pri[q[i]]

\* r is q with t at place k: behind the tasks of its priority, before the lower ones.
PutAt(r, q, k, t, pri) ==
    /\ k \in 1 .. Len(q) + 1
    /\ r \in Seq(Task) /\ Len(r) = Len(q) + 1
    /\ \A j \in 1 .. k - 1 : r[j] = q[j] /\ pri[t] <= pri[q[j]]
    /\ r[k] = t
    /\ \A j \in k .. Len(q) : r[j + 1] = q[j] /\ pri[q[j]] < pri[t]

LEMMA PriorityType ==
    ASSUME NEW pri \in Priorities
    PROVE  \A t \in Task : pri[t] \in Nat
BY ListConstants DEF Priorities

\* The search of sched_addprioritized and sched_mergepending finds the place.
LEMMA InsertFromPlace ==
    ASSUME NEW q \in Seq(Task), NEW t \in Task, NEW pri \in Priorities, Descends(q, pri),
           NEW i \in 1 .. Len(q) + 1, \A j \in 1 .. i - 1 : pri[t] <= pri[q[j]]
    PROVE  \E k \in i .. Len(q) + 1 : PutAt(InsertFrom(q, i, t, pri), q, k, t, pri)
<1> DEFINE lower == {j \in i .. Len(q) : pri[q[j]] < pri[t]}
<1>0. Len(q) \in Nat /\ i \in Nat /\ i >= 1 /\ i <= Len(q) + 1
  OBVIOUS
<1>1. pri[t] \in Nat /\ \A j \in 1 .. Len(q) : pri[q[j]] \in Nat
  <2>1. \A j \in 1 .. Len(q) : q[j] \in Task
    OBVIOUS
  <2> QED BY <2>1, PriorityType
<1>2. PICK k : k = IF lower = {} THEN Len(q) + 1 ELSE Min(lower)
  OBVIOUS
<1>3. /\ k \in i .. Len(q) + 1
      /\ \A j \in i .. Len(q) : j < k => ~(pri[q[j]] < pri[t])
      /\ k <= Len(q) => pri[q[k]] < pri[t]
  <2>1. CASE lower = {}
    <3>1. \A j \in i .. Len(q) : ~(pri[q[j]] < pri[t])
      BY <2>1
    <3>2. k = Len(q) + 1
      BY <1>2, <2>1
    <3> QED BY <1>0, <3>1, <3>2
  <2>2. CASE lower # {}
    <3>1. lower \in SUBSET Nat
      BY <1>0
    <3>2. Min(lower) \in lower /\ \A m \in lower : Min(lower) <= m
      BY <2>2, <3>1, MinOfNumbers
    <3>3. k \in lower /\ \A m \in lower : k <= m
      BY <1>2, <2>2, <3>2
    <3>4. k \in i .. Len(q) /\ pri[q[k]] < pri[t]
      BY <3>3
    <3>5. ASSUME NEW j \in i .. Len(q), j < k PROVE ~(pri[q[j]] < pri[t])
      <4>1. ~(k <= j)
        BY <1>0, <3>4, <3>5
      <4> QED BY <3>3, <4>1
    <3> QED BY <1>0, <3>4, <3>5
  <2> QED BY <2>1, <2>2
<1>4. InsertFrom(q, i, t, pri) = InsertAt(q, k, t)
  BY <1>2 DEF InsertFrom
<1> HIDE DEF lower
<1>5. k \in 1 .. Len(q) + 1
  BY <1>0, <1>3
<1> DEFINE r == InsertAt(q, k, t)
<1>6. /\ r \in Seq(Task) /\ Len(r) = Len(q) + 1
      /\ \A j \in 1 .. Len(q) + 1 : r[j] = IF j < k THEN q[j] ELSE IF j = k THEN t ELSE q[j - 1]
  BY <1>5, InsertAtProperties
<1> HIDE DEF r
<1>7. \A j \in 1 .. k - 1 : r[j] = q[j] /\ pri[t] <= pri[q[j]]
  <2> TAKE j \in 1 .. k - 1
  <2>1. j \in 1 .. Len(q) /\ j \in 1 .. Len(q) + 1 /\ j < k
    BY <1>0, <1>5
  <2>2. r[j] = q[j]
    BY <1>6, <2>1
  <2>3. pri[t] <= pri[q[j]]
    <3>1. CASE j \in 1 .. i - 1
      BY <3>1
    <3>2. CASE ~(j \in 1 .. i - 1)
      <4>1. j \in i .. Len(q)
        BY <1>0, <2>1, <3>2
      <4>2. ~(pri[q[j]] < pri[t])
        BY <1>3, <2>1, <4>1
      <4> QED BY <1>1, <2>1, <4>2
    <3> QED BY <3>1, <3>2
  <2> QED BY <2>2, <2>3
<1>8. r[k] = t
  <2>1. ~(k < k)
    BY <1>0, <1>5
  <2> QED BY <1>5, <1>6, <2>1
<1>9. \A j \in k .. Len(q) : r[j + 1] = q[j] /\ pri[q[j]] < pri[t]
  <2> TAKE j \in k .. Len(q)
  <2>1. j + 1 \in 1 .. Len(q) + 1 /\ ~(j + 1 < k) /\ j + 1 # k /\ (j + 1) - 1 = j /\ j \in 1 .. Len(q) /\ k \in 1 .. Len(q) /\ k <= j
    BY <1>0, <1>5
  <2>2. r[j + 1] = q[j]
    BY <1>6, <2>1
  <2>3. pri[q[k]] < pri[t] /\ pri[q[j]] <= pri[q[k]]
    BY <1>3, <2>1 DEF Descends
  <2> QED BY <1>1, <2>1, <2>2, <2>3
<1>10. PutAt(r, q, k, t, pri)
  BY <1>5, <1>6, <1>7, <1>8, <1>9 DEF PutAt
<1> QED BY <1>3, <1>4, <1>10 DEF r

\* A place of the longer list.
IsPlace(r, q, k, t, j) ==
    \/ j = k /\ r[j] = t
    \/ j < k /\ j \in 1 .. k - 1 /\ j \in 1 .. Len(q) /\ r[j] = q[j]
    \/ k < j /\ j - 1 \in k .. Len(q) /\ j - 1 \in 1 .. Len(q) /\ r[j] = q[j - 1]

LEMMA PutPlaces ==
    ASSUME NEW r, NEW q \in Seq(Task), NEW k, NEW t, NEW pri, PutAt(r, q, k, t, pri), NEW j \in 1 .. Len(r)
    PROVE  IsPlace(r, q, k, t, j)
<1>0. Len(q) \in Nat /\ k \in 1 .. Len(q) + 1 /\ Len(r) = Len(q) + 1
  BY DEF PutAt
<1>1. CASE j < k
  <2>1. j \in 1 .. k - 1 /\ j \in 1 .. Len(q)
    BY <1>0, <1>1
  <2> QED BY <1>1, <2>1 DEF PutAt, IsPlace
<1>2. CASE j = k
  BY <1>2 DEF PutAt, IsPlace
<1>3. CASE k < j
  <2>1. j - 1 \in k .. Len(q) /\ j - 1 \in 1 .. Len(q) /\ (j - 1) + 1 = j
    BY <1>0, <1>3
  <2>2. r[(j - 1) + 1] = q[j - 1]
    BY <2>1 DEF PutAt
  <2> QED BY <1>3, <2>1, <2>2 DEF IsPlace
<1> QED BY <1>0, <1>1, <1>2, <1>3

\* The list stays in order, gains the task, and has each task once.
LEMMA PutKeeps ==
    ASSUME NEW q, Once(q), NEW t \in Task \ ToSet(q), NEW pri \in Priorities, Descends(q, pri),
           NEW r, NEW k, PutAt(r, q, k, t, pri)
    PROVE  Once(r) /\ Descends(r, pri) /\ ToSet(r) = ToSet(q) \cup {t}
<1>0. /\ q \in Seq(Task) /\ Len(q) \in Nat /\ k \in 1 .. Len(q) + 1 /\ Len(r) = Len(q) + 1 /\ r \in Seq(Task) /\ r[k] = t
      /\ DOMAIN q = 1 .. Len(q) /\ DOMAIN r = 1 .. Len(r)
  BY DEF PutAt, Once
<1>1. pri[t] \in Nat /\ \A j \in 1 .. Len(q) : pri[q[j]] \in Nat
  <2>1. \A j \in 1 .. Len(q) : q[j] \in Task
    BY <1>0
  <2> QED BY <2>1, PriorityType
<1>2. \A j \in 1 .. Len(q) : q[j] # t /\ q[j] \in ToSet(q)
  BY <1>0 DEF ToSet
<1>3. ASSUME NEW i \in 1 .. Len(r), NEW j \in 1 .. Len(r), i < j
      PROVE  r[i] # r[j] /\ pri[r[j]] <= pri[r[i]]
  <2>a. \/ i = k /\ r[i] = t
        \/ i < k /\ i \in 1 .. k - 1 /\ i \in 1 .. Len(q) /\ r[i] = q[i]
        \/ k < i /\ i - 1 \in k .. Len(q) /\ i - 1 \in 1 .. Len(q) /\ r[i] = q[i - 1]
    <3>1. q \in Seq(Task)
      BY <1>0
    <3>2. IsPlace(r, q, k, t, i)
      BY <3>1, PutPlaces
    <3> QED BY <3>2 DEF IsPlace
  <2>b. \/ j = k /\ r[j] = t
        \/ j < k /\ j \in 1 .. k - 1 /\ j \in 1 .. Len(q) /\ r[j] = q[j]
        \/ k < j /\ j - 1 \in k .. Len(q) /\ j - 1 \in 1 .. Len(q) /\ r[j] = q[j - 1]
    <3>1. q \in Seq(Task)
      BY <1>0
    <3>2. IsPlace(r, q, k, t, j)
      BY <3>1, PutPlaces
    <3> QED BY <3>2 DEF IsPlace
  <2>1. CASE i = k
    <3>1. k < j
      BY <1>3, <2>1
    <3>2. j - 1 \in k .. Len(q) /\ j - 1 \in 1 .. Len(q) /\ r[j] = q[j - 1]
      BY <1>0, <2>b, <3>1
    <3>3. pri[q[j - 1]] < pri[t]
      BY <3>2 DEF PutAt
    <3> QED BY <1>0, <1>1, <1>2, <2>1, <3>2, <3>3
  <2>2. CASE j = k
    <3>1. i \in 1 .. k - 1 /\ i \in 1 .. Len(q) /\ r[i] = q[i]
      BY <1>0, <1>3, <2>a, <2>2
    <3>2. pri[t] <= pri[q[i]]
      BY <3>1 DEF PutAt
    <3> QED BY <1>0, <1>2, <2>2, <3>1, <3>2
  <2>3. CASE i # k /\ j # k
    <3>1. PICK a \in 1 .. Len(q), b \in 1 .. Len(q) : a < b /\ r[i] = q[a] /\ r[j] = q[b]
      <4>1. CASE i < k /\ j < k
        BY <1>0, <1>3, <2>a, <2>b, <4>1
      <4>2. CASE i < k /\ k < j
        <5>1. i < j - 1
          BY <1>0, <1>3, <4>2, <2>3
        <5> QED BY <1>0, <2>a, <2>b, <4>2, <5>1
      <4>3. CASE k < i /\ k < j
        <5>1. i - 1 < j - 1
          BY <1>0, <1>3
        <5> QED BY <1>0, <2>a, <2>b, <4>3, <5>1
      <4> QED BY <1>0, <1>3, <2>3, <4>1, <4>2, <4>3
    <3>2. a # b /\ a <= b
      BY <3>1
    <3> QED BY <3>1, <3>2 DEF Once, Descends
  <2> QED BY <2>1, <2>2, <2>3
<1>4. Once(r)
  <2>1. ASSUME NEW i \in 1 .. Len(r), NEW j \in 1 .. Len(r), r[i] = r[j] PROVE i = j
    <3>1. ~(i < j) /\ ~(j < i)
      BY <1>3, <2>1
    <3> QED BY <1>0, <3>1
  <2> QED BY <1>0, <2>1 DEF Once
<1>5. Descends(r, pri)
  <2>1. ASSUME NEW i \in 1 .. Len(r), NEW j \in 1 .. Len(r), i <= j PROVE pri[r[j]] <= pri[r[i]]
    <3>1. CASE i = j
      <4>1. r[i] \in Task
        BY <1>0
      <4>2. pri[r[i]] \in Nat
        BY <4>1, PriorityType
      <4> QED BY <3>1, <4>2
    <3>2. CASE i # j
      <4>1. i < j
        BY <1>0, <2>1, <3>2
      <4> QED BY <1>3, <4>1
    <3> QED BY <3>1, <3>2
  <2> QED BY <2>1 DEF Descends
<1>6. ToSet(r) = ToSet(q) \cup {t}
  <2>1. ASSUME NEW x \in ToSet(r) PROVE x \in ToSet(q) \cup {t}
    <3>1. PICK j \in 1 .. Len(r) : x = r[j]
      BY <1>0 DEF ToSet
    <3>2. \/ r[j] = t
          \/ j \in 1 .. Len(q) /\ r[j] = q[j]
          \/ j - 1 \in 1 .. Len(q) /\ r[j] = q[j - 1]
      <4>1. q \in Seq(Task)
        BY <1>0
      <4>2. IsPlace(r, q, k, t, j)
        BY <4>1, PutPlaces
      <4> QED BY <4>2 DEF IsPlace
    <3> QED BY <1>2, <3>1, <3>2
  <2>2. ASSUME NEW x \in ToSet(q) PROVE x \in ToSet(r)
    <3>1. PICK j \in 1 .. Len(q) : x = q[j]
      BY <1>0 DEF ToSet
    <3>2. CASE j < k
      <4>1. j \in 1 .. k - 1 /\ j \in 1 .. Len(r)
        BY <1>0, <3>2
      <4>2. r[j] = q[j]
        BY <4>1 DEF PutAt
      <4> QED BY <1>0, <3>1, <4>1, <4>2 DEF ToSet
    <3>3. CASE ~(j < k)
      <4>1. j \in k .. Len(q) /\ j + 1 \in 1 .. Len(r)
        BY <1>0, <3>3
      <4>2. r[j + 1] = q[j]
        BY <4>1 DEF PutAt
      <4> QED BY <1>0, <3>1, <4>1, <4>2 DEF ToSet
    <3> QED BY <3>2, <3>3
  <2>3. t \in ToSet(r)
    <3>1. k \in 1 .. Len(r)
      BY <1>0
    <3> QED BY <1>0, <3>1 DEF ToSet
  <2> QED BY <2>1, <2>2, <2>3
<1> QED BY <1>4, <1>5, <1>6

\* The head changes only for a task of higher priority.
LEMMA PutHead ==
    ASSUME NEW q \in Seq(Task), q # <<>>, NEW t \in Task, NEW pri \in Priorities,
           NEW r, NEW k, PutAt(r, q, k, t, pri)
    PROVE  Head(r) = IF pri[Head(q)] < pri[t] THEN t ELSE Head(q)
<1>0. /\ Len(q) \in Nat /\ Len(q) >= 1 /\ Head(q) = q[1] /\ q[1] \in Task
      /\ k \in 1 .. Len(q) + 1 /\ r \in Seq(Task) /\ Len(r) = Len(q) + 1
  BY EmptySeq DEF PutAt
<1>1. Head(r) = r[1]
  <2>1. r # <<>>
    BY <1>0, EmptySeq
  <2> QED BY <1>0, <2>1
<1>2. pri[t] \in Nat /\ pri[q[1]] \in Nat
  BY <1>0, PriorityType
<1>3. CASE k = 1
  <2>1. r[1] = t
    BY <1>3 DEF PutAt
  <2>2. pri[q[1]] < pri[t]
    <3>1. 1 \in k .. Len(q)
      BY <1>0, <1>3
    <3> QED BY <3>1 DEF PutAt
  <2> QED BY <1>0, <1>1, <2>1, <2>2
<1>4. CASE k # 1
  <2>1. 1 \in 1 .. k - 1
    BY <1>0, <1>4
  <2>2. r[1] = q[1] /\ pri[t] <= pri[q[1]]
    BY <2>1 DEF PutAt
  <2>3. ~(pri[q[1]] < pri[t])
    BY <1>2, <2>2
  <2> QED BY <1>0, <1>1, <2>2, <2>3
<1> QED BY <1>3, <1>4

\* sched_addprioritized on a list that the task is not on.
Joined(r, q, t, pri) ==
    /\ Once(r)
    /\ Descends(r, pri)
    /\ ToSet(r) = ToSet(q) \cup {t}
    /\ q # <<>> => Head(r) = IF pri[Head(q)] < pri[t] THEN t ELSE Head(q)

LEMMA InsertJoins ==
    ASSUME NEW q, Once(q), NEW pri \in Priorities, Descends(q, pri), NEW t \in Task, t \notin ToSet(q)
    PROVE  Joined(InsertFrom(q, 1, t, pri), q, t, pri)
<1>0. q \in Seq(Task)
  BY DEF Once
<1>1. PICK r : r = InsertFrom(q, 1, t, pri)
  OBVIOUS
<1>2. PICK i : i = 1
  OBVIOUS
<1>3. i \in 1 .. Len(q) + 1 /\ \A j \in 1 .. i - 1 : pri[t] <= pri[q[j]]
  <2>1. Len(q) \in Nat
    BY <1>0
  <2> QED BY <1>2, <2>1
<1>4. \E k \in i .. Len(q) + 1 : PutAt(InsertFrom(q, i, t, pri), q, k, t, pri)
  BY <1>0, <1>3, InsertFromPlace
<1>5. PICK k : PutAt(r, q, k, t, pri)
  BY <1>1, <1>2, <1>4
<1>6. t \in Task \ ToSet(q)
  OBVIOUS
<1>7. Once(r) /\ Descends(r, pri) /\ ToSet(r) = ToSet(q) \cup {t}
  BY <1>5, <1>6, PutKeeps
<1>8. q # <<>> => Head(r) = IF pri[Head(q)] < pri[t] THEN t ELSE Head(q)
  BY <1>0, <1>5, PutHead
<1>9. Joined(r, q, t, pri)
  BY <1>7, <1>8 DEF Joined
<1> QED BY <1>1, <1>9

\* A list in arrival order.
LEMMA AppendJoins ==
    ASSUME NEW q, Once(q), NEW t \in Task, t \notin ToSet(q)
    PROVE  Once(Append(q, t)) /\ ToSet(Append(q, t)) = ToSet(q) \cup {t}
<1>0. q \in Seq(Task) /\ Len(q) \in Nat /\ DOMAIN q = 1 .. Len(q)
  BY DEF Once
<1>1. PICK r : r = Append(q, t)
  OBVIOUS
<1>2. /\ r \in Seq(Task) /\ Len(r) = Len(q) + 1 /\ DOMAIN r = 1 .. Len(r)
      /\ \A j \in 1 .. Len(q) : r[j] = q[j]
      /\ r[Len(q) + 1] = t
  BY <1>0, <1>1, AppendProperties
<1>3. \A j \in 1 .. Len(q) : q[j] \in ToSet(q)
  BY <1>0 DEF ToSet
<1>4. ASSUME NEW i \in 1 .. Len(r), NEW j \in 1 .. Len(r), r[i] = r[j] PROVE i = j
  <2>1. CASE i \in 1 .. Len(q) /\ j \in 1 .. Len(q)
    BY <1>2, <1>4, <2>1 DEF Once
  <2>2. CASE i \notin 1 .. Len(q)
    <3>1. i = Len(q) + 1
      BY <1>0, <1>2, <2>2
    <3>2. j \notin 1 .. Len(q)
      BY <1>2, <1>3, <1>4, <3>1
    <3> QED BY <1>0, <1>2, <3>1, <3>2
  <2>3. CASE j \notin 1 .. Len(q)
    <3>1. j = Len(q) + 1
      BY <1>0, <1>2, <2>3
    <3>2. i \notin 1 .. Len(q)
      BY <1>2, <1>3, <1>4, <3>1
    <3> QED BY <1>0, <1>2, <3>1, <3>2
  <2> QED BY <2>1, <2>2, <2>3
<1>5. Once(r)
  BY <1>2, <1>4 DEF Once
<1>6. ToSet(r) = ToSet(q) \cup {t}
  <2>1. ASSUME NEW x \in ToSet(r) PROVE x \in ToSet(q) \cup {t}
    <3>1. PICK j \in 1 .. Len(r) : x = r[j]
      BY <1>2 DEF ToSet
    <3>2. CASE j \in 1 .. Len(q)
      BY <1>2, <1>3, <3>1, <3>2
    <3>3. CASE j \notin 1 .. Len(q)
      <4>1. j = Len(q) + 1
        BY <1>0, <1>2, <3>3
      <4> QED BY <1>2, <3>1, <4>1
    <3> QED BY <3>2, <3>3
  <2>2. ASSUME NEW x \in ToSet(q) PROVE x \in ToSet(r)
    <3>1. PICK j \in 1 .. Len(q) : x = q[j]
      BY <1>0 DEF ToSet
    <3>2. j \in 1 .. Len(r)
      BY <1>0, <1>2
    <3>3. r[j] = q[j]
      BY <1>2
    <3> QED BY <1>2, <3>1, <3>2, <3>3 DEF ToSet
  <2>3. t \in ToSet(r)
    <3>1. Len(q) + 1 \in 1 .. Len(r)
      BY <1>0, <1>2
    <3> QED BY <1>2, <3>1 DEF ToSet
  <2> QED BY <2>1, <2>2, <2>3
<1> QED BY <1>1, <1>5, <1>6

\* A task leaves its list.
Left(r, q, t) ==
    /\ Once(r)
    /\ ToSet(r) = ToSet(q) \ {t}
    /\ \A pri \in Priorities : Descends(q, pri) => Descends(r, pri)
    /\ t # Head(q) => Head(r) = Head(q)

LEMMA RemoveLeaves ==
    ASSUME NEW q, Once(q), NEW t \in ToSet(q)
    PROVE  Left(RemoveFirst(q, t), q, t)
<1>0. q \in Seq(Task) /\ Len(q) \in Nat /\ DOMAIN q = 1 .. Len(q)
  BY DEF Once
<1>1. PICK r : r = RemoveFirst(q, t)
  OBVIOUS
<1>2. PICK i \in 1 .. Len(q) : q[i] = t /\ RemoveFirst(q, t) = RemoveAt(q, i)
  BY ONLY t \in ToSet(q), RemoveFirstEntry, <1>0, Zenon
<1>3. /\ r \in Seq(Task) /\ Len(r) = Len(q) - 1
      /\ \A j \in 1 .. Len(q) - 1 : r[j] = IF j < i THEN q[j] ELSE q[j + 1]
  <2>1. r = RemoveAt(q, i)
    BY <1>1, <1>2
  <2> QED BY ONLY <1>0, i \in 1 .. Len(q), <2>1, RemoveAtEntries, Zenon
<1>4. ToSet(r) = ToSet(q) \ {t}
  <2>1. IsInjective(q)
    BY <1>0 DEF Once, IsInjective
  <2>2. ToSet(RemoveAt(q, i)) = ToSet(q) \ {q[i]}
    BY <1>0, <2>1, RemoveAtElements
  <2> QED BY <1>1, <1>2, <2>2
<1>5. ASSUME NEW j \in 1 .. Len(r)
      PROVE  \E o \in 1 .. Len(q) : o = (IF j < i THEN j ELSE j + 1) /\ r[j] = q[o]
  BY <1>0, <1>3
<1>6. ASSUME NEW j \in 1 .. Len(r), NEW k \in 1 .. Len(r), j < k
      PROVE  \E a, b \in 1 .. Len(q) : a < b /\ r[j] = q[a] /\ r[k] = q[b]
  <2>1. PICK a \in 1 .. Len(q) : a = (IF j < i THEN j ELSE j + 1) /\ r[j] = q[a]
    BY <1>5
  <2>2. PICK b \in 1 .. Len(q) : b = (IF k < i THEN k ELSE k + 1) /\ r[k] = q[b]
    BY <1>5
  <2>3. a < b
    BY <1>0, <1>6, <2>1, <2>2
  <2> QED BY <2>1, <2>2, <2>3
<1>7. Once(r)
  <2>1. ASSUME NEW j \in 1 .. Len(r), NEW k \in 1 .. Len(r), j < k PROVE r[j] # r[k]
    <3>1. PICK a \in 1 .. Len(q), b \in 1 .. Len(q) : a < b /\ r[j] = q[a] /\ r[k] = q[b]
      BY <1>6, <2>1
    <3>2. a # b
      BY <3>1
    <3> QED BY <3>1, <3>2 DEF Once
  <2>2. ASSUME NEW j \in 1 .. Len(r), NEW k \in 1 .. Len(r), r[j] = r[k] PROVE j = k
    <3>1. ~(j < k) /\ ~(k < j)
      BY <2>1, <2>2
    <3> QED BY <1>3, <3>1
  <2> QED BY <1>3, <2>2 DEF Once
<1>8. ASSUME NEW pri \in Priorities, Descends(q, pri) PROVE Descends(r, pri)
  <2>1. ASSUME NEW j \in 1 .. Len(r), NEW k \in 1 .. Len(r), j <= k PROVE pri[r[k]] <= pri[r[j]]
    <3>1. CASE j = k
      <4>1. r[j] \in Task
        BY <1>3
      <4>2. pri[r[j]] \in Nat
        BY <4>1, PriorityType
      <4> QED BY <3>1, <4>2
    <3>2. CASE j < k
      <4>1. PICK a \in 1 .. Len(q), b \in 1 .. Len(q) : a < b /\ r[j] = q[a] /\ r[k] = q[b]
        BY <1>6, <3>2
      <4>2. a <= b
        BY <4>1
      <4> QED BY <1>8, <4>1, <4>2 DEF Descends
    <3> QED BY <1>3, <2>1, <3>1, <3>2
  <2> QED BY <2>1 DEF Descends
<1>9. ASSUME t # Head(q) PROVE Head(r) = Head(q)
  <2>1. q # <<>>
    BY <1>0, EmptySeq
  <2>2. Head(q) = q[1]
    BY <1>0, <2>1
  <2>3. 1 < i /\ 1 \in 1 .. Len(q) - 1
    BY <1>0, <1>2, <1>9, <2>2
  <2>4. r[1] = q[1]
    BY <1>3, <2>3
  <2>5. r # <<>>
    BY <1>3, <2>3, EmptySeq
  <2>6. Head(r) = r[1]
    BY <1>3, <2>5
  <2> QED BY <2>2, <2>4, <2>6
<1> QED BY <1>1, <1>4, <1>7, <1>8, <1>9 DEF Left

-----------------------------------------------------------------------------
(***************************************************************************)
(* sched_mergepending.  MergeSteps is a recursive function; that its       *)
(* equation has a solution follows by the least length at which it would   *)
(* have none.                                                              *)
(***************************************************************************)
MergeStart(s) == [q |-> s.list["READY"], at |-> 1, ok |-> s.ok]

Merges(g, s, n) ==
    g = [k \in 0 .. n |-> IF k = 0 THEN MergeStart(s) ELSE MergeOne(g[k - 1], s.list["PENDING"][k], s.pri)]

LEMMA MergeExists ==
    ASSUME NEW s, NEW n \in Nat
    PROVE  \E g : Merges(g, s, n)
<1> DEFINE Bad == {m \in Nat : ~\E g : Merges(g, s, m)}
<1>1. SUFFICES ASSUME Bad # {} PROVE FALSE
  OBVIOUS
<1>2. PICK m \in Bad : \A i \in Bad : m <= i
  BY <1>1, LeastNumber
<1>3. m \in Nat /\ ~\E g : Merges(g, s, m)
  OBVIOUS
<1>4. CASE m = 0
  <2> DEFINE g == [k \in 0 .. 0 |-> MergeStart(s)]
  <2>1. g = [k \in 0 .. 0 |-> IF k = 0 THEN MergeStart(s) ELSE MergeOne(g[k - 1], s.list["PENDING"][k], s.pri)]
    OBVIOUS
  <2>2. Merges(g, s, m)
    BY <1>4, <2>1 DEF Merges
  <2> QED BY <1>3, <2>2
<1>5. CASE m # 0
  <2>1. m - 1 \in Nat /\ ~(m <= m - 1)
    BY <1>3, <1>5
  <2>2. m - 1 \notin Bad
    BY <1>2, <2>1
  <2>3. PICK g : Merges(g, s, m - 1)
    BY <2>1, <2>2
  <2> DEFINE h == [k \in 0 .. m |-> IF k = m THEN MergeOne(g[m - 1], s.list["PENDING"][m], s.pri) ELSE g[k]]
  <2>4. ASSUME NEW k \in 0 .. m
        PROVE  h[k] = IF k = 0 THEN MergeStart(s) ELSE MergeOne(h[k - 1], s.list["PENDING"][k], s.pri)
    <3>1. CASE k = m
      <4>1. h[k] = MergeOne(g[m - 1], s.list["PENDING"][m], s.pri)
        BY <3>1
      <4>2. h[m - 1] = g[m - 1]
        BY <2>1, <1>3
      <4> QED BY <1>5, <3>1, <4>1, <4>2
    <3>2. CASE k # m
      <4>1. k \in 0 .. m - 1
        BY <1>3, <3>2
      <4>2. h[k] = g[k]
        BY <3>2
      <4>3. g[k] = IF k = 0 THEN MergeStart(s) ELSE MergeOne(g[k - 1], s.list["PENDING"][k], s.pri)
        BY <2>3, <4>1 DEF Merges
      <4>4. CASE k = 0
        BY <4>2, <4>3, <4>4
      <4>5. CASE k # 0
        <5>1. k - 1 \in 0 .. m /\ k - 1 # m
          BY <1>3, <4>1, <4>5
        <5>2. h[k - 1] = g[k - 1]
          BY <5>1
        <5> QED BY <4>2, <4>3, <4>5, <5>2
      <4> QED BY <4>4, <4>5
    <3> QED BY <3>1, <3>2
  <2>5. h = [k \in 0 .. m |-> h[k]]
    OBVIOUS
  <2> HIDE DEF h
  <2>6. Merges(h, s, m)
    BY <2>4, <2>5 DEF Merges
  <2> QED BY <1>3, <2>6
<1> QED BY <1>4, <1>5

LEMMA MergeStepsEquation ==
    ASSUME NEW s, s.list["PENDING"] \in Seq(Task)
    PROVE  Merges(MergeSteps(s), s, Len(s.list["PENDING"]))
<1> DEFINE n == Len(s.list["PENDING"])
<1>1. n \in Nat
  OBVIOUS
<1>2. MergeSteps(s) = CHOOSE g : g = [k \in 0 .. n |-> IF k = 0 THEN MergeStart(s)
                                        ELSE MergeOne(g[k - 1], s.list["PENDING"][k], s.pri)]
  BY DEF MergeSteps, MergeStart
<1> HIDE DEF n
<1>3. \E g : g = [k \in 0 .. n |-> IF k = 0 THEN MergeStart(s)
                                        ELSE MergeOne(g[k - 1], s.list["PENDING"][k], s.pri)]
  BY <1>1, MergeExists DEF Merges
<1>4. MergeSteps(s) = [k \in 0 .. n |-> IF k = 0 THEN MergeStart(s)
                                        ELSE MergeOne(MergeSteps(s)[k - 1], s.list["PENDING"][k], s.pri)]
  BY <1>2, <1>3
<1> QED BY <1>4 DEF Merges, n

\* The place of a task that the list has once.
PlacesOf(r, t) == {i \in 1 .. Len(r) : r[i] = t}

LEMMA PlaceFound ==
    ASSUME NEW r, Once(r), NEW k \in 1 .. Len(r), NEW t, r[k] = t
    PROVE  PlacesOf(r, t) # {} /\ Min(PlacesOf(r, t)) = k
<1>1. k \in PlacesOf(r, t) /\ \A i \in PlacesOf(r, t) : i = k
  BY DEF PlacesOf, Once
<1>2. PlacesOf(r, t) \in SUBSET Nat
  BY DEF PlacesOf
<1>3. Min(PlacesOf(r, t)) \in PlacesOf(r, t)
  BY <1>1, <1>2, MinOfNumbers
<1> QED BY <1>1, <1>3

\* The lists that sched_mergepending is given.
Mergeable(ready, pending, pri) ==
    /\ pri \in Priorities
    /\ Once(ready) /\ Once(pending) /\ Descends(ready, pri) /\ Descends(pending, pri)
    /\ ToSet(ready) \cap ToSet(pending) = {}
    /\ Idle \in ToSet(ready)
    /\ \A t \in Task : pri[t] = 0 <=> t = Idle

\* What holds once the first k pending tasks are merged.
MergedTo(m, ready, pending, pri, k) ==
    /\ Once(m.q) /\ Descends(m.q, pri)
    /\ ToSet(m.q) = ToSet(ready) \cup {pending[i] : i \in 1 .. k}
    /\ m.at \in 1 .. Len(m.q)
    /\ \A j \in 1 .. m.at - 1 : k > 0 /\ pri[pending[k]] <= pri[m.q[j]]
    /\ m.ok = TRUE
    /\ (\A i \in 1 .. k : pri[pending[i]] <= pri[Head(ready)]) => Head(m.q) = Head(ready)

LEMMA MergeOneStep ==
    ASSUME NEW ready, NEW pending, NEW pri, Mergeable(ready, pending, pri),
           NEW k \in 1 .. Len(pending), NEW m, MergedTo(m, ready, pending, pri, k - 1)
    PROVE  MergedTo(MergeOne(m, pending[k], pri), ready, pending, pri, k)
<1>0. /\ pending \in Seq(Task) /\ Len(pending) \in Nat /\ DOMAIN pending = 1 .. Len(pending)
      /\ ready \in Seq(Task) /\ pri \in Priorities
  BY DEF Mergeable, Once
<1>1. PICK q, at : q = m.q /\ at = m.at
  OBVIOUS
<1>2. PICK t : t = pending[k]
  OBVIOUS
<1>3. /\ Once(q) /\ Descends(q, pri) /\ q \in Seq(Task) /\ Len(q) \in Nat
      /\ ToSet(q) = ToSet(ready) \cup {pending[i] : i \in 1 .. k - 1}
      /\ at \in 1 .. Len(q) /\ m.ok = TRUE
  BY <1>1 DEF MergedTo, Once
<1>4. t \in Task /\ t # Idle /\ t \notin ToSet(q)
  <2>1. t \in Task /\ t \in ToSet(pending)
    BY <1>0, <1>2 DEF ToSet
  <2>2. t \notin ToSet(ready) /\ t # Idle
    BY <2>1 DEF Mergeable
  <2>3. ASSUME NEW i \in 1 .. k - 1 PROVE pending[i] # t
    <3>1. i \in 1 .. Len(pending) /\ i # k
      BY <1>0
    <3> QED BY <1>2, <3>1 DEF Mergeable, Once
  <2> QED BY <1>3, <2>1, <2>2, <2>3
<1>5. pri[t] \in Nat /\ pri[t] > 0 /\ pri[Idle] = 0
  <2>1. pri[t] \in Nat
    BY <1>0, <1>4, PriorityType
  <2>2. pri[t] # 0 /\ pri[Idle] = 0
    BY <1>4, ListConstants DEF Mergeable
  <2> QED BY <2>1, <2>2
<1>6. \A j \in 1 .. at - 1 : pri[t] <= pri[q[j]]
  <2> TAKE j \in 1 .. at - 1
  <2>1. k - 1 > 0 /\ pri[pending[k - 1]] <= pri[q[j]]
    BY <1>1 DEF MergedTo
  <2>2. k - 1 \in 1 .. Len(pending) /\ k - 1 <= k
    BY <1>0, <2>1
  <2>3. pri[t] <= pri[pending[k - 1]]
    BY <1>2, <2>2 DEF Mergeable, Descends
  <2>4. j \in 1 .. Len(q)
    BY <1>3
  <2>5. pending[k - 1] \in Task /\ q[j] \in Task
    BY <1>0, <1>3, <2>2, <2>4
  <2>6. pri[pending[k - 1]] \in Nat /\ pri[q[j]] \in Nat
    BY <1>0, <2>5, PriorityType
  <2> QED BY <1>5, <2>1, <2>3, <2>6
<1>7. PICK r : r = InsertFrom(q, at, t, pri)
  OBVIOUS
<1>8. PICK x \in at .. Len(q) + 1 : PutAt(r, q, x, t, pri)
  <2>1. at \in 1 .. Len(q) + 1
    BY <1>3
  <2>2. q \in Seq(Task) /\ t \in Task /\ pri \in Priorities /\ Descends(q, pri)
    BY <1>0, <1>3, <1>4
  <2>3. \E x \in at .. Len(q) + 1 : PutAt(InsertFrom(q, at, t, pri), q, x, t, pri)
    BY <1>6, <2>1, <2>2, InsertFromPlace
  <2> QED BY <1>7, <2>3
<1>9. Once(r) /\ Descends(r, pri) /\ ToSet(r) = ToSet(q) \cup {t}
  <2>1. t \in Task \ ToSet(q) /\ Once(q) /\ pri \in Priorities /\ Descends(q, pri)
    BY <1>0, <1>3, <1>4
  <2> QED BY <1>8, <2>1, PutKeeps
<1>10. /\ x \in 1 .. Len(q) + 1 /\ r \in Seq(Task) /\ Len(r) = Len(q) + 1 /\ r[x] = t
       /\ \A j \in 1 .. x - 1 : r[j] = q[j] /\ pri[t] <= pri[q[j]]
  BY <1>8 DEF PutAt
<1>11. x < Len(r)
  <2>1. Idle \in ToSet(q)
    BY <1>3 DEF Mergeable
  <2>2. PICK i \in 1 .. Len(q) : q[i] = Idle
    <3>1. DOMAIN q = 1 .. Len(q)
      BY <1>3
    <3> QED BY <2>1, <3>1 DEF ToSet
  <2>3. i \notin 1 .. x - 1
    BY <1>5, <1>10, <2>2
  <2> QED BY <1>3, <1>10, <2>3
<1>12. SelectInSeq(r, LAMBDA u : u = t) = x
  <2>1. x \in 1 .. Len(r)
    BY <1>10, <1>3
  <2>2. Once(r) /\ r[x] = t
    BY <1>9, <1>10
  <2>3. PlacesOf(r, t) # {} /\ Min(PlacesOf(r, t)) = x
    BY <2>1, <2>2, PlaceFound
  <2> QED BY <2>3 DEF SelectInSeq, PlacesOf
<1>13. MergeOne(m, pending[k], pri) = [q |-> r, at |-> x, ok |-> TRUE]
  <2>1. MergeOne(m, t, pri) = [q |-> r, at |-> x, ok |-> m.ok /\ x < Len(r)]
    BY <1>1, <1>7, <1>12 DEF MergeOne
  <2>2. (m.ok /\ x < Len(r)) = TRUE
    BY <1>3, <1>11
  <2> QED BY <1>2, <2>1, <2>2
<1>14. PICK m2 : m2 = MergeOne(m, pending[k], pri)
  OBVIOUS
<1>15. m2.q = r /\ m2.at = x /\ m2.ok = TRUE
  BY <1>13, <1>14
<1>16. ToSet(r) = ToSet(ready) \cup {pending[i] : i \in 1 .. k}
  <2>1. {pending[i] : i \in 1 .. k} = {pending[i] : i \in 1 .. k - 1} \cup {t}
    <3>1. 1 .. k = (1 .. k - 1) \cup {k}
      BY <1>0
    <3> QED BY <1>2, <3>1
  <2> QED BY <1>3, <1>9, <2>1
<1>17. x \in 1 .. Len(r)
  BY <1>3, <1>10
<1>18. \A j \in 1 .. x - 1 : k > 0 /\ pri[pending[k]] <= pri[r[j]]
  <2>1. k > 0
    BY <1>0
  <2> QED BY <1>2, <1>10, <2>1
<1>19. ASSUME \A i \in 1 .. k : pri[pending[i]] <= pri[Head(ready)] PROVE Head(r) = Head(ready)
  <2>1. \A i \in 1 .. k - 1 : i \in 1 .. k
    BY <1>0
  <2>2. Head(q) = Head(ready)
    BY <1>1, <1>19, <2>1 DEF MergedTo
  <2>3. pri[t] <= pri[Head(ready)]
    <3>1. k \in 1 .. k
      BY <1>0
    <3> QED BY <1>2, <1>19, <3>1
  <2>4. q # <<>>
    BY <1>3, EmptySeq
  <2>5. Head(r) = IF pri[Head(q)] < pri[t] THEN t ELSE Head(q)
    BY <1>0, <1>3, <1>4, <1>8, <2>4, PutHead
  <2>6. Head(q) \in Task
    BY <1>3, <2>4
  <2>7. pri[Head(q)] \in Nat
    BY <1>0, <2>6, PriorityType
  <2> QED BY <1>5, <2>2, <2>3, <2>5, <2>7
<1>20. MergedTo(m2, ready, pending, pri, k)
  BY <1>9, <1>15, <1>16, <1>17, <1>18, <1>19 DEF MergedTo
<1> QED BY <1>14, <1>20

LEMMA MergeStartStep ==
    ASSUME NEW s, s.ok = TRUE, Mergeable(s.list["READY"], s.list["PENDING"], s.pri)
    PROVE  MergedTo(MergeStart(s), s.list["READY"], s.list["PENDING"], s.pri, 0)
<1>1. PICK ready : ready = s.list["READY"]
  OBVIOUS
<1>2. PICK m : m = MergeStart(s)
  OBVIOUS
<1>3. m.q = ready /\ m.at = 1 /\ m.ok = TRUE
  BY <1>1, <1>2 DEF MergeStart
<1>4. Once(ready) /\ Descends(ready, s.pri) /\ Idle \in ToSet(ready) /\ ready \in Seq(Task) /\ Len(ready) \in Nat
  BY <1>1 DEF Mergeable, Once
<1>5. 1 \in 1 .. Len(ready)
  <2>1. ready # <<>>
    BY <1>4 DEF ToSet
  <2> QED BY <1>4, <2>1, EmptySeq
<1>6. {s.list["PENDING"][i] : i \in 1 .. 0} = {} /\ 1 .. 1 - 1 = {}
  OBVIOUS
<1>7. MergedTo(m, ready, s.list["PENDING"], s.pri, 0)
  BY <1>3, <1>4, <1>5, <1>6 DEF MergedTo
<1> QED BY <1>1, <1>2, <1>7

\* All pending tasks are merged.
LEMMA MergeStepsMerge ==
    ASSUME NEW s, s.ok = TRUE, Mergeable(s.list["READY"], s.list["PENDING"], s.pri)
    PROVE  MergedTo(MergeSteps(s)[Len(s.list["PENDING"])], s.list["READY"], s.list["PENDING"], s.pri,
                    Len(s.list["PENDING"]))
<1>1. PICK ready, pending, pri, n, g :
        ready = s.list["READY"] /\ pending = s.list["PENDING"] /\ pri = s.pri /\ n = Len(s.list["PENDING"])
          /\ g = MergeSteps(s)
  OBVIOUS
<1>2. s.list["PENDING"] \in Seq(Task)
  BY DEF Mergeable, Once
<1>3. n \in Nat /\ n = Len(pending)
  BY <1>1, <1>2
<1>4. Merges(g, s, n)
  BY <1>1, <1>2, MergeStepsEquation
<1>5. \A k \in 0 .. n : g[k] = IF k = 0 THEN MergeStart(s) ELSE MergeOne(g[k - 1], pending[k], pri)
  BY <1>1, <1>4 DEF Merges
<1>6. MergedTo(MergeStart(s), ready, pending, pri, 0)
  BY <1>1, MergeStartStep
<1>7. Mergeable(ready, pending, pri)
  BY <1>1
<1> DEFINE Bad == {k \in 0 .. n : ~MergedTo(g[k], ready, pending, pri, k)}
<1>8. Bad = {}
  <2>1. SUFFICES ASSUME Bad # {} PROVE FALSE
    OBVIOUS
  <2>2. Bad \in SUBSET Nat
    BY <1>3
  <2>3. PICK k \in Bad : \A i \in Bad : k <= i
    BY <2>1, <2>2, LeastNumber
  <2>4. k \in 0 .. n /\ ~MergedTo(g[k], ready, pending, pri, k)
    OBVIOUS
  <2>5. CASE k = 0
    BY <1>5, <1>6, <2>4, <2>5
  <2>6. CASE k # 0
    <3>1. k - 1 \in 0 .. n /\ ~(k <= k - 1) /\ k \in 1 .. Len(pending)
      BY <1>3, <2>4, <2>6
    <3>2. k - 1 \notin Bad
      BY <2>3, <3>1
    <3>3. MergedTo(g[k - 1], ready, pending, pri, k - 1)
      BY <3>1, <3>2
    <3>4. MergedTo(MergeOne(g[k - 1], pending[k], pri), ready, pending, pri, k)
      BY <1>7, <3>1, <3>3, MergeOneStep
    <3> QED BY <1>5, <2>4, <2>6, <3>4
  <2> QED BY <2>5, <2>6
<1>9. n \in 0 .. n
  BY <1>3
<1>10. MergedTo(g[n], ready, pending, pri, n)
  BY <1>8, <1>9
<1> QED BY <1>1, <1>10

-----------------------------------------------------------------------------
(***************************************************************************)
(* Scheduler values.                                                       *)
(***************************************************************************)
States == Lists \cup {"RUNNING", "INVALID"}

Value(L, st, pri, k) == [list |-> L, st |-> st, pri |-> pri, ok |-> k]

\* The list that a task with this state is on.
Where(st) == [t \in Task |-> IF st[t] = "RUNNING" THEN "READY" ELSE st[t]]

\* Exactly the first ready task has the state of the running task.
Runs(L, st) == \A t \in Task : st[t] = "RUNNING" <=> t = Head(L["READY"])

\* The lists and the states agree, prioritized lists are in order, and the
\* idle task, the only one of priority 0, is ready.
Placed(L, st, pri) ==
    /\ L = [l \in Lists |-> L[l]]
    /\ st \in [Task -> States]
    /\ pri \in Priorities
    /\ \A l \in Lists : Once(L[l]) /\ ToSet(L[l]) = {t \in Task : Where(st)[t] = l}
    /\ \A l \in Prioritized : Descends(L[l], pri)
    /\ Where(st)[Idle] = "READY"
    /\ \A t \in Task : pri[t] = 0 <=> t = Idle
    /\ Runs(L, st)

\* A function with one value changed.
Upd(f, x, v) == [f EXCEPT ![x] = v]

\* No ASSERT has failed; kept apart from the equations below.
Holds(k) == k = TRUE

\* The updates of a scheduler value.
SetList(s, x) == [s EXCEPT !.list = x]
SetState(s, x) == [s EXCEPT !.st = x]
SetPri(s, x) == [s EXCEPT !.pri = x]
SetOk(s, x) == [s EXCEPT !.ok = x]

Good(s) == s = Value(s.list, s.st, s.pri, s.ok) /\ Holds(s.ok) /\ Placed(s.list, s.st, s.pri)

LEMMA ListNames ==
    /\ Idle \in Task
    /\ {"READY", "PENDING"} \subseteq Prioritized /\ Prioritized \subseteq Lists
    /\ "INACTIVE" \in Lists /\ "INACTIVE" \notin Prioritized
    /\ Blocked \subseteq Lists /\ PrioBlocked \subseteq Blocked /\ FifoBlocked \subseteq Blocked
    /\ FifoBlocked \cap Prioritized = {}
    /\ "RUNNING" \notin Lists /\ "INVALID" \notin Lists
    /\ Blocked \cap {"READY", "RUNNING", "PENDING", "INACTIVE", "INVALID"} = {}
BY ListConstants DEF Lists, Prioritized, Blocked

LEMMA WhereType ==
    ASSUME NEW st \in [Task -> States]
    PROVE  /\ Where(st) \in [Task -> Lists \cup {"INVALID"}]
           /\ \A t \in Task : st[t] # "RUNNING" => Where(st)[t] = st[t]
           /\ \A t \in Task : st[t] = "RUNNING" => Where(st)[t] = "READY"
           /\ \A t \in Task : Where(st)[t] # "READY" => Where(st)[t] = st[t]
<1>1. "READY" \in Lists
  BY ListNames
<1>2. \A t \in Task : Where(st)[t] = IF st[t] = "RUNNING" THEN "READY" ELSE st[t]
  BY DEF Where
<1>3. Where(st) = [t \in Task |-> Where(st)[t]]
  BY DEF Where
<1>4. \A t \in Task : Where(st)[t] \in Lists \cup {"INVALID"}
  BY <1>1, <1>2 DEF States
<1> QED BY <1>2, <1>3, <1>4

\* The ready list has a head, the highest of its tasks.
LEMMA FirstIsHighest ==
    ASSUME NEW L, NEW st, NEW pri, Placed(L, st, pri)
    PROVE  /\ L["READY"] \in Seq(Task) /\ L["READY"] # <<>>
           /\ Head(L["READY"]) \in Task
           /\ Where(st)[Head(L["READY"])] = "READY"
           /\ st[Head(L["READY"])] = "RUNNING"
           /\ \A t \in Task : Where(st)[t] = "READY" => pri[t] <= pri[Head(L["READY"])]
<1>1. PICK q : q = L["READY"]
  OBVIOUS
<1>2. Once(q) /\ ToSet(q) = {t \in Task : Where(st)[t] = "READY"} /\ Descends(q, pri)
  BY <1>1, ListNames DEF Placed
<1>3. q \in Seq(Task) /\ Len(q) \in Nat /\ DOMAIN q = 1 .. Len(q)
  BY <1>2 DEF Once
<1>4. Idle \in ToSet(q)
  BY <1>2, ListNames DEF Placed
<1>5. PICK i \in 1 .. Len(q) : q[i] = Idle
  BY <1>3, <1>4 DEF ToSet
<1>6. q # <<>>
  BY <1>3, <1>5, EmptySeq
<1>7. Head(q) = q[1] /\ 1 \in 1 .. Len(q)
  BY <1>3, <1>5, <1>6
<1>8. Head(q) \in Task /\ Head(q) \in ToSet(q)
  BY <1>3, <1>7 DEF ToSet
<1>9. st[Head(q)] = "RUNNING"
  BY <1>1, <1>8 DEF Placed, Runs
<1>10. ASSUME NEW t \in Task, Where(st)[t] = "READY" PROVE pri[t] <= pri[Head(q)]
  <2>1. t \in ToSet(q)
    BY <1>2, <1>10
  <2>2. PICK j \in 1 .. Len(q) : q[j] = t
    BY <1>3, <2>1 DEF ToSet
  <2>3. 1 <= j
    BY <1>3
  <2> QED BY <1>2, <1>7, <2>2, <2>3 DEF Descends
<1>11. Where(st)[Head(q)] = "READY"
  BY <1>2, <1>8
<1> QED BY <1>1, <1>3, <1>6, <1>8, <1>9, <1>10, <1>11

\* A task leaves its list.
Moved(st2, st, t, b) == st2 \in [Task -> States] /\ Where(st2) = Upd(Where(st), t, b)

LEMMA PlacedLeave ==
    ASSUME NEW L, NEW st, NEW pri, Placed(L, st, pri),
           NEW t \in Task \ {Idle}, NEW a \in Lists, Where(st)[t] = a,
           NEW q, Left(q, L[a], t), NEW st2, Moved(st2, st, t, "INVALID"),
           Runs(Upd(L, a, q), st2)
    PROVE  Placed(Upd(L, a, q), st2, pri)
<1>1. PICK L2 : L2 = Upd(L, a, q)
  OBVIOUS
<1>2. PICK w : w = Where(st)
  OBVIOUS
<1>3. st \in [Task -> States] /\ pri \in Priorities /\ DOMAIN L = Lists /\ Idle \in Task /\ "INVALID" \notin Lists
  BY ListNames DEF Placed
<1>4. w \in [Task -> Lists \cup {"INVALID"}]
  BY <1>2, <1>3, WhereType
<1>5. Where(st2) = Upd(w, t, "INVALID") /\ st2 \in [Task -> States]
  BY <1>2 DEF Moved
<1>6. /\ Where(st2)[t] = "INVALID"
      /\ \A u \in Task : u # t => Where(st2)[u] = w[u]
  BY <1>4, <1>5 DEF Upd
<1>7. /\ L2 = [l \in Lists |-> L2[l]]
      /\ L2[a] = q
      /\ \A l \in Lists : l # a => L2[l] = L[l]
  BY <1>1, <1>3 DEF Placed, Upd
<1>8. ASSUME NEW l \in Lists
      PROVE  /\ Once(L2[l]) /\ ToSet(L2[l]) = {u \in Task : Where(st2)[u] = l}
             /\ l \in Prioritized => Descends(L2[l], pri)
  <2>1. Once(L[l]) /\ ToSet(L[l]) = {u \in Task : w[u] = l} /\ (l \in Prioritized => Descends(L[l], pri))
    BY <1>2 DEF Placed
  <2>2. CASE l = a
    <3>1. Once(q) /\ ToSet(q) = ToSet(L[a]) \ {t} /\ (Descends(L[a], pri) => Descends(q, pri))
      BY <1>3 DEF Left
    <3>2. {u \in Task : Where(st2)[u] = l} = {u \in Task : w[u] = l} \ {t}
      BY <1>3, <1>6
    <3> QED BY <1>7, <2>1, <2>2, <3>1, <3>2
  <2>3. CASE l # a
    <3>1. {u \in Task : Where(st2)[u] = l} = {u \in Task : w[u] = l}
      BY <1>2, <1>3, <1>6, <2>3
    <3> QED BY <1>7, <2>1, <2>3, <3>1
  <2> QED BY <2>2, <2>3
<1>9. Where(st2)[Idle] = "READY" /\ \A u \in Task : pri[u] = 0 <=> u = Idle
  BY <1>2, <1>3, <1>6 DEF Placed
<1>10. Runs(L2, st2)
  BY <1>1
<1>11. \A l \in Prioritized : l \in Lists
  BY ListNames
<1>12. Placed(L2, st2, pri)
  BY <1>3, <1>5, <1>7, <1>8, <1>9, <1>10, <1>11 DEF Placed
<1> QED BY <1>1, <1>12

\* A task that is on no list joins one.
LEMMA PlacedJoin ==
    ASSUME NEW L, NEW st, NEW pri, Placed(L, st, pri),
           NEW t \in Task, Where(st)[t] = "INVALID", NEW b \in Lists,
           NEW q, Once(q), ToSet(q) = ToSet(L[b]) \cup {t}, b \in Prioritized => Descends(q, pri),
           NEW st2, Moved(st2, st, t, b), Runs(Upd(L, b, q), st2)
    PROVE  Placed(Upd(L, b, q), st2, pri)
<1>1. PICK L2 : L2 = Upd(L, b, q)
  OBVIOUS
<1>2. PICK w : w = Where(st)
  OBVIOUS
<1>3. st \in [Task -> States] /\ pri \in Priorities /\ DOMAIN L = Lists /\ Idle \in Task /\ "INVALID" \notin Lists
  BY ListNames DEF Placed
<1>4. w \in [Task -> Lists \cup {"INVALID"}]
  BY <1>2, <1>3, WhereType
<1>5. Where(st2) = Upd(w, t, b) /\ st2 \in [Task -> States]
  BY <1>2 DEF Moved
<1>6. /\ Where(st2)[t] = b
      /\ \A u \in Task : u # t => Where(st2)[u] = w[u]
  BY <1>4, <1>5 DEF Upd
<1>7. /\ L2 = [l \in Lists |-> L2[l]]
      /\ L2[b] = q
      /\ \A l \in Lists : l # b => L2[l] = L[l]
  BY <1>1, <1>3 DEF Placed, Upd
<1>8. ASSUME NEW l \in Lists
      PROVE  /\ Once(L2[l]) /\ ToSet(L2[l]) = {u \in Task : Where(st2)[u] = l}
             /\ l \in Prioritized => Descends(L2[l], pri)
  <2>1. Once(L[l]) /\ ToSet(L[l]) = {u \in Task : w[u] = l} /\ (l \in Prioritized => Descends(L[l], pri))
    BY <1>2 DEF Placed
  <2>2. CASE l = b
    <3>1. {u \in Task : Where(st2)[u] = l} = {u \in Task : w[u] = l} \cup {t}
      BY <1>6, <2>2
    <3> QED BY <1>7, <2>1, <2>2, <3>1
  <2>3. CASE l # b
    <3>1. w[t] # l
      BY <1>2, <1>3
    <3>2. {u \in Task : Where(st2)[u] = l} = {u \in Task : w[u] = l}
      BY <1>6, <2>3, <3>1
    <3> QED BY <1>7, <2>1, <2>3, <3>2
  <2> QED BY <2>2, <2>3
<1>9. Where(st2)[Idle] = "READY" /\ \A u \in Task : pri[u] = 0 <=> u = Idle
  <2>1. t # Idle
    BY DEF Placed
  <2> QED BY <1>2, <1>3, <1>6, <2>1 DEF Placed
<1>10. Runs(L2, st2)
  BY <1>1
<1>11. \A l \in Prioritized : l \in Lists
  BY ListNames
<1>12. Placed(L2, st2, pri)
  BY <1>3, <1>5, <1>7, <1>8, <1>9, <1>10, <1>11 DEF Placed
<1> QED BY <1>1, <1>12

-----------------------------------------------------------------------------
(***************************************************************************)
(* The list operations keep the lists and the states in agreement.         *)
(***************************************************************************)
\* One state changes.
LEMMA OneMoves ==
    ASSUME NEW st \in [Task -> States], NEW t \in Task, NEW b \in States
    PROVE  Moved(Upd(st, t, b), st, t, IF b = "RUNNING" THEN "READY" ELSE b)
<1>1. PICK st2 : st2 = Upd(st, t, b)
  OBVIOUS
<1>2. st2 \in [Task -> States] /\ st2[t] = b /\ \A u \in Task : u # t => st2[u] = st[u]
  BY <1>1 DEF Upd
<1>3. Where(st2) = Upd(Where(st), t, IF b = "RUNNING" THEN "READY" ELSE b)
  BY <1>2 DEF Where, Upd
<1> QED BY <1>1, <1>2, <1>3 DEF Moved

\* A task that is not the running one leaves its list.
LEMMA TakeOther ==
    ASSUME NEW L, NEW st, NEW pri, Placed(L, st, pri), NEW t \in Task \ {Idle}, NEW a \in Lists, st[t] = a
    PROVE  /\ Placed(Upd(L, a, RemoveFirst(L[a], t)), Upd(st, t, "INVALID"), pri)
           /\ Where(Upd(st, t, "INVALID")) = Upd(Where(st), t, "INVALID")
           /\ Head(Upd(L, a, RemoveFirst(L[a], t))["READY"]) = Head(L["READY"])
           /\ Where(st)[t] = a
<1>1. PICK q, L2, st2 : /\ q = RemoveFirst(L[a], t)
                        /\ L2 = Upd(L, a, RemoveFirst(L[a], t))
                        /\ st2 = Upd(st, t, "INVALID")
  OBVIOUS
<1>2. /\ st \in [Task -> States] /\ DOMAIN L = Lists /\ "RUNNING" \notin Lists /\ "INVALID" \in States
      /\ "READY" \in Lists
  BY ListNames DEF Placed, States
<1>3. Where(st)[t] = a
  BY <1>2, WhereType
<1>4. Once(L[a]) /\ t \in ToSet(L[a])
  BY <1>3 DEF Placed
<1>5. Left(q, L[a], t)
  BY <1>1, <1>4, RemoveLeaves
<1>6. Moved(st2, st, t, "INVALID")
  <2>1. Moved(Upd(st, t, "INVALID"), st, t, IF "INVALID" = "RUNNING" THEN "READY" ELSE "INVALID")
    BY <1>2, OneMoves
  <2> QED BY <1>1, <2>1
<1>7. t # Head(L["READY"])
  BY <1>2, FirstIsHighest
<1>8. Head(L2["READY"]) = Head(L["READY"])
  <2>1. CASE a = "READY"
    BY <1>1, <1>2, <1>5, <1>7, <2>1 DEF Left, Upd
  <2>2. CASE a # "READY"
    BY <1>1, <1>2, <2>2 DEF Upd
  <2> QED BY <2>1, <2>2
<1>9. Runs(L2, st2)
  <2>1. \A u \in Task : st2[u] = "RUNNING" <=> st[u] = "RUNNING"
    BY <1>1, <1>2 DEF Upd
  <2> QED BY <1>8, <2>1 DEF Runs, Placed
<1>10. L2 = Upd(L, a, q)
  BY <1>1
<1>11. Placed(Upd(L, a, q), st2, pri)
  BY <1>3, <1>5, <1>6, <1>9, <1>10, PlacedLeave
<1> QED BY <1>1, <1>3, <1>6, <1>8, <1>10, <1>11 DEF Moved

\* The running task leaves the ready list: the next one has its state.
LEMMA TakeFirst ==
    ASSUME NEW L, NEW st, NEW pri, Placed(L, st, pri), NEW t \in Task \ {Idle}, t = Head(L["READY"]),
           NEW q, q = RemoveFirst(L["READY"], t),
           NEW st2, st2 = Upd(Upd(st, Head(q), "RUNNING"), t, "INVALID")
    PROVE  /\ Placed(Upd(L, "READY", q), st2, pri)
           /\ Where(st2) = Upd(Where(st), t, "INVALID")
<1>1. PICK L2, ready : L2 = Upd(L, "READY", q) /\ ready = L["READY"]
  OBVIOUS
<1>2. /\ st \in [Task -> States] /\ DOMAIN L = Lists /\ "READY" \in Lists
      /\ "INVALID" \in States /\ "RUNNING" \in States /\ Idle \in Task
  BY ListNames DEF Placed, States
<1>3. Once(ready) /\ ToSet(ready) = {u \in Task : Where(st)[u] = "READY"}
  BY <1>1, <1>2 DEF Placed
<1>4. t \in ToSet(ready) /\ Idle \in ToSet(ready)
  <2>1. Where(st)[t] = "READY"
    BY FirstIsHighest
  <2>2. Where(st)[Idle] = "READY"
    BY DEF Placed
  <2> QED BY <1>2, <1>3, <2>1, <2>2
<1>5. Left(q, ready, t)
  BY <1>1, <1>3, <1>4, RemoveLeaves
<1>6. q \in Seq(Task) /\ DOMAIN q = 1 .. Len(q) /\ Idle \in ToSet(q) /\ ToSet(q) = ToSet(ready) \ {t}
  BY <1>4, <1>5 DEF Left, Once
<1>7. Head(q) \in ToSet(q) /\ Head(q) \in Task
  <2>1. q # <<>>
    BY <1>6 DEF ToSet
  <2>2. Len(q) \in Nat /\ Len(q) >= 1
    BY <1>6, <2>1, EmptySeq
  <2>3. Head(q) = q[1] /\ 1 \in 1 .. Len(q)
    BY <1>6, <2>1, <2>2
  <2> QED BY <1>6, <2>3 DEF ToSet
<1>8. Head(q) # t /\ Where(st)[Head(q)] = "READY"
  BY <1>3, <1>6, <1>7
<1>9. PICK h : h = Head(q)
  OBVIOUS
<1>10. h \in Task /\ h # t /\ Where(st)[h] = "READY"
  BY <1>7, <1>8, <1>9
<1>11. /\ st2 \in [Task -> States] /\ st2[t] = "INVALID" /\ st2[h] = "RUNNING"
       /\ \A u \in Task : u # t /\ u # h => st2[u] = st[u]
  BY <1>2, <1>9, <1>10 DEF Upd
<1>12. Where(st2) = Upd(Where(st), t, "INVALID")
  BY <1>10, <1>11 DEF Where, Upd
<1>13. Moved(st2, st, t, "INVALID")
  BY <1>11, <1>12 DEF Moved
<1>14. L2["READY"] = q
  BY <1>1, <1>2 DEF Upd
<1>15. Runs(L2, st2)
  <2>1. \A u \in Task : st[u] = "RUNNING" <=> u = t
    BY <1>1 DEF Placed, Runs
  <2>2. \A u \in Task : st2[u] = "RUNNING" <=> u = h
    BY <1>11, <2>1
  <2> QED BY <1>9, <1>14, <2>2 DEF Runs
<1>16. Runs(Upd(L, "READY", q), st2)
  BY <1>1, <1>15
<1>17. Left(q, L["READY"], t) /\ Where(st)[t] = "READY"
  BY <1>1, <1>3, <1>4, <1>5
<1>18. Placed(Upd(L, "READY", q), st2, pri)
  BY <1>2, <1>13, <1>16, <1>17, PlacedLeave
<1> QED BY <1>12, <1>18

\* A task joins a list, and the running task stays.
LEMMA PutOther ==
    ASSUME NEW L, NEW st, NEW pri, Placed(L, st, pri), NEW t \in Task, st[t] = "INVALID", NEW b \in Lists,
           NEW q, Once(q), ToSet(q) = ToSet(L[b]) \cup {t}, b \in Prioritized => Descends(q, pri),
           b = "READY" => Head(q) = Head(L[b])
    PROVE  /\ Placed(Upd(L, b, q), Upd(st, t, b), pri)
           /\ Where(Upd(st, t, b)) = Upd(Where(st), t, b)
           /\ Head(Upd(L, b, q)["READY"]) = Head(L["READY"])
<1>1. PICK L2, st2 : L2 = Upd(L, b, q) /\ st2 = Upd(st, t, b)
  OBVIOUS
<1>2. /\ st \in [Task -> States] /\ DOMAIN L = Lists /\ "RUNNING" \notin Lists /\ b \in States
      /\ "READY" \in Lists
  BY ListNames DEF Placed, States
<1>3. Where(st)[t] = "INVALID"
  BY <1>2, WhereType
<1>4. Moved(st2, st, t, b)
  <2>1. Moved(Upd(st, t, b), st, t, IF b = "RUNNING" THEN "READY" ELSE b)
    BY <1>2, OneMoves
  <2>2. b # "RUNNING"
    BY <1>2
  <2> QED BY <1>1, <2>1, <2>2
<1>5. Head(L2["READY"]) = Head(L["READY"])
  BY <1>1, <1>2 DEF Upd
<1>6. Runs(L2, st2)
  <2>1. \A u \in Task : st2[u] = "RUNNING" <=> st[u] = "RUNNING"
    BY <1>1, <1>2 DEF Upd
  <2> QED BY <1>5, <2>1 DEF Runs, Placed
<1>7. Runs(Upd(L, b, q), st2)
  BY <1>1, <1>6
<1>8. Placed(Upd(L, b, q), st2, pri)
  BY <1>3, <1>4, <1>7, PlacedJoin
<1> QED BY <1>1, <1>4, <1>5, <1>8 DEF Moved

\* A task joins the ready list at its head.
LEMMA PutFirst ==
    ASSUME NEW L, NEW st, NEW pri, Placed(L, st, pri), NEW t \in Task, st[t] = "INVALID",
           NEW q, Once(q), ToSet(q) = ToSet(L["READY"]) \cup {t}, Descends(q, pri), Head(q) = t,
           NEW st2, st2 = Upd(Upd(st, t, "RUNNING"), Head(L["READY"]), "READY")
    PROVE  /\ Placed(Upd(L, "READY", q), st2, pri)
           /\ Where(st2) = Upd(Where(st), t, "READY")
<1>1. PICK L2, h : L2 = Upd(L, "READY", q) /\ h = Head(L["READY"])
  OBVIOUS
<1>2. /\ st \in [Task -> States] /\ DOMAIN L = Lists /\ "READY" \in Lists
      /\ "READY" \in States /\ "RUNNING" \in States
  BY ListNames DEF Placed, States
<1>3. h \in Task /\ Where(st)[h] = "READY" /\ st[h] = "RUNNING"
  BY <1>1, FirstIsHighest
<1>4. h # t /\ Where(st)[t] = "INVALID"
  BY <1>2, <1>3, WhereType
<1>5. /\ st2 \in [Task -> States] /\ st2[t] = "RUNNING" /\ st2[h] = "READY"
      /\ \A u \in Task : u # t /\ u # h => st2[u] = st[u]
  BY <1>1, <1>2, <1>3, <1>4 DEF Upd
<1>6. Where(st2) = Upd(Where(st), t, "READY")
  BY <1>3, <1>4, <1>5 DEF Where, Upd
<1>7. Moved(st2, st, t, "READY")
  BY <1>5, <1>6 DEF Moved
<1>8. L2["READY"] = q
  BY <1>1, <1>2 DEF Upd
<1>9. Runs(L2, st2)
  <2>1. \A u \in Task : st[u] = "RUNNING" <=> u = h
    BY <1>1 DEF Placed, Runs
  <2>2. \A u \in Task : st2[u] = "RUNNING" <=> u = t
    BY <1>4, <1>5, <2>1
  <2> QED BY <1>8, <2>2 DEF Runs
<1>10. Runs(Upd(L, "READY", q), st2)
  BY <1>1, <1>9
<1>11. Placed(Upd(L, "READY", q), st2, pri)
  BY <1>2, <1>4, <1>7, <1>10, PlacedJoin
<1> QED BY <1>6, <1>11

\* The pending tasks join the ready list.
MergedLists(m, L) == Upd(Upd(L, "READY", m.q), "PENDING", <<>>)

MergedStates(m, L, st) ==
    [t \in Task |-> IF t = Head(m.q) THEN "RUNNING"
                    ELSE IF t \in ToSet(L["PENDING"]) \/ st[t] = "RUNNING" THEN "READY"
                    ELSE st[t]]

LEMMA MergeAll ==
    ASSUME NEW L, NEW st, NEW pri, Placed(L, st, pri),
           NEW m, MergedTo(m, L["READY"], L["PENDING"], pri, Len(L["PENDING"])),
           NEW st2, st2 = MergedStates(m, L, st)
    PROVE  /\ Placed(MergedLists(m, L), st2, pri)
           /\ Where(st2) = Abs!Merged(Where(st))
           /\ m.ok = TRUE
           /\ (\A t \in Task : st[t] = "PENDING" => pri[t] <= pri[Head(L["READY"])])
                => Head(m.q) = Head(L["READY"])
<1>1. PICK L2, q, ready, pending :
        /\ L2 = MergedLists(m, L)
        /\ q = m.q /\ ready = L["READY"] /\ pending = L["PENDING"]
  OBVIOUS
<1>2. /\ st \in [Task -> States] /\ pri \in Priorities /\ DOMAIN L = Lists
      /\ "READY" \in Lists /\ "PENDING" \in Lists /\ "RUNNING" \notin Lists
      /\ "READY" \in States /\ "RUNNING" \in States /\ Idle \in Task
  BY ListNames DEF Placed, States
<1>3. /\ ToSet(ready) = {t \in Task : Where(st)[t] = "READY"}
      /\ Once(pending) /\ ToSet(pending) = {t \in Task : Where(st)[t] = "PENDING"}
  BY <1>1, <1>2 DEF Placed
<1>4. pending \in Seq(Task) /\ Len(pending) \in Nat /\ DOMAIN pending = 1 .. Len(pending)
  BY <1>3 DEF Once
<1>5. ToSet(pending) = {pending[i] : i \in 1 .. Len(pending)}
  BY <1>4 DEF ToSet
<1>6. Once(q) /\ Descends(q, pri) /\ ToSet(q) = ToSet(ready) \cup ToSet(pending) /\ m.ok = TRUE
  BY <1>1, <1>5 DEF MergedTo
<1>7. q \in Seq(Task) /\ DOMAIN q = 1 .. Len(q) /\ Idle \in ToSet(q)
  BY <1>2, <1>3, <1>6 DEF Once, Placed
<1>8. Head(q) \in ToSet(q) /\ Head(q) \in Task
  <2>1. q # <<>>
    BY <1>7 DEF ToSet
  <2>2. Len(q) \in Nat /\ Len(q) >= 1
    BY <1>7, <2>1, EmptySeq
  <2>3. Head(q) = q[1] /\ 1 \in 1 .. Len(q)
    BY <1>7, <2>1, <2>2
  <2> QED BY <1>7, <2>3 DEF ToSet
<1>9. \A t \in Task : Where(st)[t] = IF st[t] = "RUNNING" THEN "READY" ELSE st[t]
  BY DEF Where
<1>10. \A t \in Task : st2[t] = IF t = Head(q) THEN "RUNNING"
                                ELSE IF t \in ToSet(pending) \/ st[t] = "RUNNING" THEN "READY"
                                ELSE st[t]
  BY <1>1 DEF MergedStates
<1>11. st2 \in [Task -> States]
  <2>1. \A t \in Task : st2[t] \in States
    BY <1>2, <1>10
  <2>2. st2 = [t \in Task |-> st2[t]]
    BY DEF MergedStates
  <2> QED BY <2>1, <2>2
<1>12. ASSUME NEW t \in Task
       PROVE  /\ Where(st2)[t] = IF Where(st)[t] = "PENDING" THEN "READY" ELSE Where(st)[t]
              /\ st2[t] = "RUNNING" <=> t = Head(q)
  <2>1. Where(st2)[t] = IF st2[t] = "RUNNING" THEN "READY" ELSE st2[t]
    BY DEF Where
  <2>2. st[t] \in States
    BY <1>2
  <2>3. CASE t = Head(q)
    <3>1. Where(st)[t] = "READY" \/ Where(st)[t] = "PENDING"
      BY <1>3, <1>6, <1>8, <2>3
    <3> QED BY <1>10, <2>1, <2>3, <3>1
  <2>4. CASE t # Head(q) /\ st[t] = "RUNNING"
    BY <1>9, <1>10, <2>1, <2>4
  <2>5. CASE t # Head(q) /\ st[t] # "RUNNING" /\ t \in ToSet(pending)
    <3>1. Where(st)[t] = "PENDING"
      BY <1>3, <2>5
    <3> QED BY <1>10, <2>1, <2>5, <3>1
  <2>6. CASE t # Head(q) /\ st[t] # "RUNNING" /\ t \notin ToSet(pending)
    <3>1. Where(st)[t] = st[t] /\ Where(st)[t] # "PENDING"
      BY <1>3, <1>9, <2>6
    <3> QED BY <1>10, <2>1, <2>6, <3>1
  <2> QED BY <2>3, <2>4, <2>5, <2>6
<1>13. Where(st2) = Abs!Merged(Where(st))
  BY <1>12 DEF Where, Abs!Merged
<1>14. /\ L2 = [l \in Lists |-> L2[l]]
       /\ L2["READY"] = q /\ L2["PENDING"] = <<>>
       /\ \A l \in Lists : l # "READY" /\ l # "PENDING" => L2[l] = L[l]
  BY <1>1, <1>2 DEF Placed, Upd, MergedLists
<1>15. Once(<<>>) /\ Descends(<<>>, pri) /\ ToSet(<<>>) = {}
  BY DEF Once, Descends, ToSet
<1>16. ASSUME NEW l \in Lists
       PROVE  /\ Once(L2[l]) /\ ToSet(L2[l]) = {t \in Task : Where(st2)[t] = l}
              /\ l \in Prioritized => Descends(L2[l], pri)
  <2>1. CASE l = "READY"
    <3>1. {t \in Task : Where(st2)[t] = "READY"} = ToSet(ready) \cup ToSet(pending)
      BY <1>3, <1>12
    <3> QED BY <1>6, <1>14, <2>1, <3>1
  <2>2. CASE l = "PENDING"
    <3>1. {t \in Task : Where(st2)[t] = "PENDING"} = {}
      BY <1>12
    <3> QED BY <1>14, <1>15, <2>2, <3>1
  <2>3. CASE l # "READY" /\ l # "PENDING"
    <3>1. {t \in Task : Where(st2)[t] = l} = {t \in Task : Where(st)[t] = l}
      BY <1>12, <2>3
    <3>2. Once(L[l]) /\ ToSet(L[l]) = {t \in Task : Where(st)[t] = l} /\ (l \in Prioritized => Descends(L[l], pri))
      BY DEF Placed
    <3> QED BY <1>14, <2>3, <3>1, <3>2
  <2> QED BY <2>1, <2>2, <2>3
<1>17. Where(st2)[Idle] = "READY" /\ \A u \in Task : pri[u] = 0 <=> u = Idle
  BY <1>2, <1>12 DEF Placed
<1>18. Runs(L2, st2)
  BY <1>12, <1>14 DEF Runs
<1>19. \A l \in Prioritized : l \in Lists
  BY ListNames
<1>20. Placed(L2, st2, pri)
  BY <1>2, <1>11, <1>14, <1>16, <1>17, <1>18, <1>19 DEF Placed
<1>21. ASSUME \A t \in Task : st[t] = "PENDING" => pri[t] <= pri[Head(ready)] PROVE Head(q) = Head(ready)
  <2>1. \A i \in 1 .. Len(pending) : pri[pending[i]] <= pri[Head(ready)]
    <3> TAKE i \in 1 .. Len(pending)
    <3>1. pending[i] \in ToSet(pending) /\ pending[i] \in Task
      BY <1>4, <1>5
    <3>2. Where(st)[pending[i]] = "PENDING"
      BY <1>3, <3>1
    <3>3. st[pending[i]] = "PENDING"
      BY <1>9, <3>1, <3>2
    <3> QED BY <1>21, <3>1, <3>3
  <2> QED BY <1>1, <2>1 DEF MergedTo
<1> QED BY <1>1, <1>6, <1>13, <1>20, <1>21

\* A priority is written while the task is on no prioritized list.
LEMMA PlacedRetune ==
    ASSUME NEW L, NEW st, NEW pri, Placed(L, st, pri), NEW t \in Task \ {Idle}, NEW n \in 1 .. MaxPrio,
           Where(st)[t] \notin Prioritized
    PROVE  Placed(L, st, Upd(pri, t, n))
<1>1. PICK pri2 : pri2 = Upd(pri, t, n)
  OBVIOUS
<1>2. pri \in Priorities /\ MaxPrio \in Nat /\ Idle \in Task
  BY ListConstants DEF Placed
<1>3. pri2 \in Priorities /\ pri2[t] = n /\ n # 0 /\ \A u \in Task : u # t => pri2[u] = pri[u]
  BY <1>1, <1>2 DEF Priorities, Upd
<1>4. \A u \in Task : pri2[u] = 0 <=> u = Idle
  BY <1>2, <1>3 DEF Placed
<1>5. ASSUME NEW l \in Prioritized PROVE Descends(L[l], pri2)
  <2>1. Once(L[l]) /\ ToSet(L[l]) = {u \in Task : Where(st)[u] = l} /\ Descends(L[l], pri)
    BY ListNames DEF Placed
  <2>2. t \notin ToSet(L[l])
    BY <2>1
  <2>3. \A i \in 1 .. Len(L[l]) : L[l][i] \in Task /\ L[l][i] # t
    <3>1. L[l] \in Seq(Task) /\ DOMAIN L[l] = 1 .. Len(L[l])
      BY <2>1 DEF Once
    <3> QED BY <2>2, <3>1 DEF ToSet
  <2>4. \A i \in 1 .. Len(L[l]) : pri2[L[l][i]] = pri[L[l][i]]
    BY <1>3, <2>3
  <2> QED BY <2>1, <2>4 DEF Descends
<1>6. Placed(L, st, pri2)
  BY <1>3, <1>4, <1>5 DEF Placed
<1> QED BY <1>1, <1>6

\* The running task keeps the head with a priority above that of the next task.
LEMMA PlacedRetuneFirst ==
    ASSUME NEW L, NEW st, NEW pri, Placed(L, st, pri), NEW t \in Task \ {Idle}, t = Head(L["READY"]),
           NEW n \in 1 .. MaxPrio, ~(n <= pri[L["READY"][2]])
    PROVE  /\ Placed(L, st, Upd(pri, t, n))
           /\ \A u \in Task \ {t} : Where(st)[u] = "READY" => pri[u] < n
<1>1. PICK pri2, q : pri2 = Upd(pri, t, n) /\ q = L["READY"]
  OBVIOUS
<1>2. pri \in Priorities /\ MaxPrio \in Nat /\ Idle \in Task /\ n \in Nat
  BY ListConstants DEF Placed
<1>3. pri2 \in Priorities /\ pri2[t] = n /\ n # 0 /\ \A u \in Task : u # t => pri2[u] = pri[u]
  BY <1>1, <1>2 DEF Priorities, Upd
<1>4. \A u \in Task : pri2[u] = 0 <=> u = Idle
  BY <1>2, <1>3 DEF Placed
<1>5. /\ Once(q) /\ ToSet(q) = {u \in Task : Where(st)[u] = "READY"} /\ Descends(q, pri)
      /\ q \in Seq(Task) /\ Len(q) \in Nat /\ DOMAIN q = 1 .. Len(q) /\ q # <<>>
  <2>1. Once(q) /\ ToSet(q) = {u \in Task : Where(st)[u] = "READY"} /\ Descends(q, pri)
    BY <1>1, ListNames DEF Placed
  <2>2. q \in Seq(Task) /\ q # <<>>
    BY <1>1, FirstIsHighest
  <2> QED BY <2>1, <2>2
<1>6. q[1] = t /\ 1 \in 1 .. Len(q)
  <2>1. Head(q) = q[1]
    BY <1>5
  <2>2. Len(q) >= 1
    BY <1>5, EmptySeq
  <2> QED BY <1>1, <1>5, <2>1, <2>2
<1>7. \A i \in 1 .. Len(q) : q[i] \in Task /\ pri[q[i]] \in Nat
  <2>1. \A i \in 1 .. Len(q) : q[i] \in Task
    BY <1>5
  <2> QED BY <1>2, <2>1, PriorityType
<1>8. ASSUME NEW i \in 1 .. Len(q), i # 1 PROVE q[i] # t /\ pri[q[i]] < n
  <2>1. 2 \in 1 .. Len(q) /\ 2 <= i
    BY <1>5, <1>8
  <2>2. pri[q[i]] <= pri[q[2]]
    BY <1>5, <2>1 DEF Descends
  <2>3. pri[q[2]] < n
    BY <1>1, <1>2, <1>7, <2>1
  <2>4. q[i] # t
    BY <1>5, <1>6, <1>8 DEF Once
  <2> QED BY <1>2, <1>7, <2>1, <2>2, <2>3, <2>4
<1>9. Descends(q, pri2)
  <2>1. SUFFICES ASSUME NEW i \in 1 .. Len(q), NEW j \in 1 .. Len(q), i <= j PROVE pri2[q[j]] <= pri2[q[i]]
    BY DEF Descends
  <2>2. CASE j = 1
    <3>1. i = 1
      BY <1>5, <2>1, <2>2
    <3> QED BY <1>2, <1>3, <1>6, <2>2, <3>1
  <2>3. CASE j # 1 /\ i = 1
    <3>1. pri2[q[j]] = pri[q[j]] /\ pri2[q[i]] = n /\ pri[q[j]] < n
      BY <1>3, <1>6, <1>7, <1>8, <2>3
    <3> QED BY <1>2, <1>7, <3>1
  <2>4. CASE j # 1 /\ i # 1
    <3>1. pri2[q[j]] = pri[q[j]] /\ pri2[q[i]] = pri[q[i]]
      BY <1>3, <1>7, <1>8, <2>4
    <3> QED BY <1>5, <2>1, <3>1 DEF Descends
  <2> QED BY <2>2, <2>3, <2>4
<1>10. ASSUME NEW l \in Prioritized, l # "READY" PROVE Descends(L[l], pri2)
  <2>1. Once(L[l]) /\ ToSet(L[l]) = {u \in Task : Where(st)[u] = l} /\ Descends(L[l], pri)
    BY ListNames DEF Placed
  <2>2. t \notin ToSet(L[l])
    BY <1>10, <2>1, FirstIsHighest
  <2>3. \A i \in 1 .. Len(L[l]) : L[l][i] \in Task /\ L[l][i] # t
    <3>1. L[l] \in Seq(Task) /\ DOMAIN L[l] = 1 .. Len(L[l])
      BY <2>1 DEF Once
    <3> QED BY <2>2, <3>1 DEF ToSet
  <2>4. \A i \in 1 .. Len(L[l]) : pri2[L[l][i]] = pri[L[l][i]]
    BY <1>3, <2>3
  <2> QED BY <2>1, <2>4 DEF Descends
<1>11. \A l \in Prioritized : Descends(L[l], pri2)
  BY <1>1, <1>9, <1>10
<1>12. Placed(L, st, pri2)
  BY <1>3, <1>4, <1>11 DEF Placed
<1>13. ASSUME NEW u \in Task \ {t}, Where(st)[u] = "READY" PROVE pri[u] < n
  <2>1. u \in ToSet(q)
    BY <1>5, <1>13
  <2>2. PICK i \in 1 .. Len(q) : q[i] = u
    BY <1>5, <2>1 DEF ToSet
  <2>3. i # 1
    BY <1>6, <2>2
  <2> QED BY <1>8, <2>2, <2>3
<1> QED BY <1>1, <1>12, <1>13

-----------------------------------------------------------------------------
(***************************************************************************)
(* What each operation assigns.                                            *)
(***************************************************************************)
LEMMA ValueFields ==
    ASSUME NEW L, NEW st, NEW pri, NEW k
    PROVE  /\ Value(L, st, pri, k).list = L /\ Value(L, st, pri, k).st = st
           /\ Value(L, st, pri, k).pri = pri /\ Value(L, st, pri, k).ok = k
BY DEF Value

LEMMA ValueUpdates ==
    ASSUME NEW L, NEW st, NEW pri, NEW k, NEW x
    PROVE  /\ SetList(Value(L, st, pri, k), x) = Value(x, st, pri, k)
           /\ SetState(Value(L, st, pri, k), x) = Value(L, x, pri, k)
           /\ SetPri(Value(L, st, pri, k), x) = Value(L, st, x, k)
           /\ SetOk(Value(L, st, pri, k), x) = Value(L, st, pri, x)
BY DEF Value, SetList, SetState, SetPri, SetOk

LEMMA AddPrioritizedValue ==
    ASSUME NEW L, NEW st, NEW pri, NEW k, NEW t, NEW l
    PROVE  sched_addprioritized(Value(L, st, pri, k), t, l)
             = Value(Upd(L, l, InsertFrom(L[l], 1, t, pri)), st, pri, k)
BY DEF Value, sched_addprioritized, Upd

LEMMA RemoveReadyValue ==
    ASSUME NEW L, NEW st, NEW pri, NEW k, NEW t, NEW q, q = RemoveFirst(L["READY"], t)
    PROVE  sched_removereadytorun(Value(L, st, pri, k), t)
             = Value(Upd(L, "READY", q),
                     Upd(IF t = Head(L["READY"]) THEN Upd(st, Head(q), "RUNNING") ELSE st, t, "INVALID"), pri, k)
<1> DEFINE s == Value(L, st, pri, k)
           A == Upd(L, "READY", q)
           B == Upd(IF t = Head(L["READY"]) THEN Upd(st, Head(q), "RUNNING") ELSE st, t, "INVALID")
<1> HIDE DEF s
<1>1. s.list = L /\ s.st = st
  BY ValueFields DEF s
<1>2. sched_removereadytorun(s, t) = SetState(SetList(s, A), B)
  BY Zenon, <1>1 DEF sched_removereadytorun, SetState, SetList, Upd
<1> HIDE DEF A, B
<1>3. SetState(SetList(s, A), B) = Value(A, B, pri, k)
  BY ValueUpdates DEF s
<1> QED BY <1>2, <1>3 DEF s, A, B

\* The three ways of sched_addreadytorun.
LEMMA AddReadyValue ==
    ASSUME NEW L, NEW st, NEW pri, NEW k, Holds(k), NEW t, NEW h, h = Head(L["READY"]),
           NEW q, q = InsertFrom(L["READY"], 1, t, pri), "READY" \in DOMAIN L
    PROVE  /\ lockcount[h] > 0 /\ pri[h] < pri[t] =>
                sched_addreadytorun(Value(L, st, pri, k), t)
                  = Value(Upd(L, "PENDING", InsertFrom(L["PENDING"], 1, t, pri)),
                          Upd(st, t, "PENDING"), pri, k)
           /\ ~(lockcount[h] > 0 /\ pri[h] < pri[t]) /\ Head(q) = t /\ lockcount[h] = 0 =>
                sched_addreadytorun(Value(L, st, pri, k), t)
                  = Value(Upd(L, "READY", q), Upd(Upd(st, t, "RUNNING"), h, "READY"), pri, k)
           /\ ~(lockcount[h] > 0 /\ pri[h] < pri[t]) /\ Head(q) # t =>
                sched_addreadytorun(Value(L, st, pri, k), t)
                  = Value(Upd(L, "READY", q), Upd(st, t, "READY"), pri, k)
<1> DEFINE s == Value(L, st, pri, k)
           A == Upd(L, "READY", q)
           P == Upd(L, "PENDING", InsertFrom(L["PENDING"], 1, t, pri))
           B == Upd(Upd(st, t, "RUNNING"), h, "READY")
           C == Upd(st, t, "READY")
           D == Upd(st, t, "PENDING")
           added == Value(A, st, pri, k)
           waits == Value(P, st, pri, k)
<1>1. s.list = L /\ s.pri = pri
  BY ValueFields
<1>2. sched_addprioritized(s, t, "READY") = added
  BY AddPrioritizedValue
<1>3. sched_addprioritized(s, t, "PENDING") = waits
  BY AddPrioritizedValue
<1>4. A["READY"] = q
  BY DEF Upd
<1> HIDE DEF A, P, B, C, D
<1>5. added.st = st /\ added.ok = k /\ added.list = A /\ waits.st = st
  BY ValueFields
<1> HIDE DEF s, added, waits
<1>6. [waits EXCEPT !.st[t] = "PENDING"] = SetState(waits, D)
  BY Zenon, <1>5 DEF SetState, D, Upd
<1>7. [added EXCEPT !.st[t] = "READY"] = SetState(added, C)
  BY Zenon, <1>5 DEF SetState, C, Upd
<1>8. SetState(waits, D) = Value(P, D, pri, k)
  BY ValueUpdates DEF waits
<1>9. SetState(added, C) = Value(A, C, pri, k)
  BY ValueUpdates DEF added
<1>10. SetState(added, B) = Value(A, B, pri, k) /\ SetOk(Value(A, B, pri, k), k) = Value(A, B, pri, k)
  BY ValueUpdates DEF added
<1>11. CASE lockcount[h] > 0 /\ pri[h] < pri[t]
  <2>1. sched_addreadytorun(s, t) = [waits EXCEPT !.st[t] = "PENDING"]
    BY <1>1, <1>3, <1>11 DEF sched_addreadytorun
  <2>2. sched_addreadytorun(s, t) = Value(P, D, pri, k)
    BY Zenon, <1>6, <1>8, <2>1
  <2> QED BY <1>11, <2>2 DEF s, P, D
<1>12. CASE ~(lockcount[h] > 0 /\ pri[h] < pri[t]) /\ Head(q) = t
  <2>1. SUFFICES ASSUME lockcount[h] = 0 PROVE sched_addreadytorun(s, t) = Value(A, B, pri, k)
    BY <1>12 DEF s, A, B
  <2>2. (added.ok /\ lockcount[h] = 0) = k
    BY <1>5, <2>1 DEF Holds
  <2>3. sched_addreadytorun(s, t)
          = [added EXCEPT !.st[t] = "RUNNING", !.st[h] = "READY", !.ok = @ /\ lockcount[h] = 0]
    <3>1. Head(s.list["READY"]) = h /\ s.pri = pri
      BY <1>1
    <3>2. Head(added.list["READY"]) = t
      BY <1>4, <1>5, <1>12
    <3> QED BY <1>2, <1>12, <3>1, <3>2 DEF sched_addreadytorun
  <2>4. [added EXCEPT !.st[t] = "RUNNING", !.st[h] = "READY", !.ok = @ /\ lockcount[h] = 0]
          = SetOk(SetState(SetState(added, Upd(st, t, "RUNNING")), Upd(SetState(added, Upd(st, t, "RUNNING")).st, h, "READY")), k)
    BY Zenon, <1>5, <2>2 DEF SetState, SetOk, Upd
  <2>5. SetState(added, Upd(st, t, "RUNNING")) = Value(A, Upd(st, t, "RUNNING"), pri, k)
    BY ValueUpdates DEF added
  <2>6. SetState(added, Upd(st, t, "RUNNING")).st = Upd(st, t, "RUNNING")
    BY <2>5, ValueFields
  <2>7. SetState(SetState(added, Upd(st, t, "RUNNING")), B) = Value(A, B, pri, k)
    BY <2>5, ValueUpdates
  <2>8. sched_addreadytorun(s, t) = SetOk(SetState(SetState(added, Upd(st, t, "RUNNING")), B), k)
    BY Zenon, <2>3, <2>4, <2>6 DEF B
  <2> QED BY Zenon, <1>10, <2>7, <2>8
<1>13. CASE ~(lockcount[h] > 0 /\ pri[h] < pri[t]) /\ Head(q) # t
  <2>1. sched_addreadytorun(s, t) = [added EXCEPT !.st[t] = "READY"]
    BY <1>1, <1>2, <1>4, <1>5, <1>13 DEF sched_addreadytorun
  <2>2. sched_addreadytorun(s, t) = Value(A, C, pri, k)
    BY Zenon, <1>7, <1>9, <2>1
  <2> QED BY <1>13, <2>2 DEF s, A, C
<1> QED BY <1>11, <1>12, <1>13

LEMMA AddBlockedValue ==
    ASSUME NEW L, NEW st, NEW pri, NEW k, NEW t, NEW l
    PROVE  sched_addblocked(Value(L, st, pri, k), t, l)
             = Value(Upd(L, l, IF l \in PrioBlocked THEN InsertFrom(L[l], 1, t, pri) ELSE Append(L[l], t)),
                     Upd(st, t, l), pri, k)
<1> DEFINE s == Value(L, st, pri, k)
           A == Upd(L, l, InsertFrom(L[l], 1, t, pri))
           B == Upd(L, l, Append(L[l], t))
           C == Upd(st, t, l)
<1> HIDE DEF s
<1>1. s.list = L /\ s.st = st /\ Value(A, st, pri, k).st = st /\ Value(B, st, pri, k).st = st
  BY ValueFields DEF s
<1>2. sched_addprioritized(s, t, l) = Value(A, st, pri, k)
  BY AddPrioritizedValue DEF s
<1>3. [s EXCEPT !.list[l] = Append(@, t)] = SetList(s, B)
  BY Zenon, <1>1 DEF SetList, Upd
<1> HIDE DEF A, B
<1>4. SetList(s, B) = Value(B, st, pri, k)
  BY ValueUpdates DEF s
<1>5. [Value(A, st, pri, k) EXCEPT !.st[t] = l] = SetState(Value(A, st, pri, k), C)
  BY Zenon, <1>1 DEF SetState, Upd
<1>6. [Value(B, st, pri, k) EXCEPT !.st[t] = l] = SetState(Value(B, st, pri, k), C)
  BY Zenon, <1>1 DEF SetState, Upd
<1> HIDE DEF C
<1>7. SetState(Value(A, st, pri, k), C) = Value(A, C, pri, k) /\ SetState(Value(B, st, pri, k), C) = Value(B, C, pri, k)
  BY ValueUpdates
<1>8. CASE l \in PrioBlocked
  <2>1. sched_addblocked(s, t, l) = [Value(A, st, pri, k) EXCEPT !.st[t] = l]
    BY <1>2, <1>8 DEF sched_addblocked
  <2>2. sched_addblocked(s, t, l) = Value(A, C, pri, k)
    BY Zenon, <1>5, <1>7, <2>1
  <2> QED BY <1>8, <2>2 DEF s, A, C
<1>9. CASE l \notin PrioBlocked
  <2>1. sched_addblocked(s, t, l) = [Value(B, st, pri, k) EXCEPT !.st[t] = l]
    BY <1>3, <1>4, <1>9 DEF sched_addblocked
  <2>2. sched_addblocked(s, t, l) = Value(B, C, pri, k)
    BY Zenon, <1>6, <1>7, <2>1
  <2> QED BY <1>9, <2>2 DEF s, B, C
<1> QED BY <1>8, <1>9

LEMMA RemoveBlockedValue ==
    ASSUME NEW L, NEW st, NEW pri, NEW k, Holds(k), NEW t, st[t] \in Blocked \cup {"INACTIVE"}
    PROVE  sched_removeblocked(Value(L, st, pri, k), t)
             = Value(Upd(L, st[t], RemoveFirst(L[st[t]], t)), Upd(st, t, "INVALID"), pri, k)
<1> DEFINE s == Value(L, st, pri, k)
           A == Upd(L, st[t], RemoveFirst(L[st[t]], t))
           B == Upd(st, t, "INVALID")
<1> HIDE DEF s
<1>1. s.list = L /\ s.st = st /\ s.ok = k
  BY ValueFields DEF s
<1>2. (s.ok /\ s.st[t] \in Blocked \cup {"INACTIVE"}) = k
  BY <1>1 DEF Holds
<1>3. sched_removeblocked(s, t) = SetOk(SetState(SetList(s, A), B), k)
  BY Zenon, <1>1, <1>2 DEF sched_removeblocked, SetState, SetList, SetOk, Upd
<1> HIDE DEF A, B
<1>4. SetOk(SetState(SetList(s, A), B), k) = Value(A, B, pri, k)
  BY ValueUpdates DEF s
<1> QED BY <1>3, <1>4 DEF s, A, B

LEMMA MergePendingValue ==
    ASSUME NEW L, NEW st, NEW pri, NEW k,
           NEW m, m = MergeSteps(Value(L, st, pri, k))[Len(L["PENDING"])]
    PROVE  sched_mergepending(Value(L, st, pri, k))
             = Value(MergedLists(m, L), MergedStates(m, L, st), pri, m.ok)
<1> DEFINE s == Value(L, st, pri, k)
           A == MergedLists(m, L)
           B == MergedStates(m, L, st)
<1>0. m = MergeSteps(s)[Len(L["PENDING"])]
  OBVIOUS
<1> HIDE DEF s
<1>1. s.list = L /\ s.st = st
  BY ValueFields DEF s
<1>2. sched_mergepending(s) = SetOk(SetState(SetList(s, A), B), m.ok)
  BY Zenon, <1>0, <1>1 DEF sched_mergepending, SetState, SetList, SetOk, Upd, MergedStates, MergedLists
<1> HIDE DEF A, B
<1>3. SetOk(SetState(SetList(s, A), B), m.ok) = Value(A, B, pri, m.ok)
  BY ValueUpdates DEF s
<1> QED BY <1>2, <1>3 DEF s, A, B

-----------------------------------------------------------------------------
(***************************************************************************)
(* The operations on scheduler values, as the primitives of SchedAbs see   *)
(* them: which list each task is on, its priority, and the running task.   *)
(***************************************************************************)
First(s) == Head(s.list["READY"])

Reached(r, w, pri) == Good(r) /\ Where(r.st) = w /\ r.pri = pri

LEMMA GoodValue ==
    ASSUME NEW r, NEW L, NEW st, NEW pri, NEW k, r = Value(L, st, pri, k), Holds(k), Placed(L, st, pri)
    PROVE  Good(r) /\ r.list = L /\ r.st = st /\ r.pri = pri /\ r.ok = k
<1>1. r.list = L /\ r.st = st /\ r.pri = pri /\ r.ok = k
  BY ValueFields
<1> QED BY <1>1 DEF Good

LEMMA GoodFields ==
    ASSUME NEW s, Good(s)
    PROVE  /\ s = Value(s.list, s.st, s.pri, s.ok)
           /\ Holds(s.ok) /\ Placed(s.list, s.st, s.pri)
           /\ s.st \in [Task -> States] /\ s.pri \in Priorities /\ DOMAIN s.list = Lists
BY DEF Good, Placed

LEMMA RemoveReadyGood ==
    ASSUME NEW s, Good(s), NEW t \in Task \ {Idle}, Where(s.st)[t] = "READY",
           NEW r, r = sched_removereadytorun(s, t)
    PROVE  /\ Reached(r, Upd(Where(s.st), t, "INVALID"), s.pri)
           /\ t # First(s) => First(r) = First(s)
<1>1. PICK L, st, pri, k, q, st2 :
        /\ L = s.list /\ st = s.st /\ pri = s.pri /\ k = s.ok /\ q = RemoveFirst(L["READY"], t)
        /\ st2 = Upd(IF t = Head(L["READY"]) THEN Upd(st, Head(q), "RUNNING") ELSE st, t, "INVALID")
  OBVIOUS
<1>2. s = Value(L, st, pri, k)
  BY <1>1, GoodFields
<1>a. Holds(k) /\ Placed(L, st, pri)
  BY <1>1, GoodFields
<1>b. st \in [Task -> States]
  BY <1>1, GoodFields
<1>3. r = Value(Upd(L, "READY", q), st2, pri, k)
  <2>1. r = sched_removereadytorun(Value(L, st, pri, k), t)
    BY <1>2
  <2>2. q = RemoveFirst(L["READY"], t)
    BY <1>1
  <2>3. sched_removereadytorun(Value(L, st, pri, k), t)
          = Value(Upd(L, "READY", q),
                  Upd(IF t = Head(L["READY"]) THEN Upd(st, Head(q), "RUNNING") ELSE st, t, "INVALID"), pri, k)
    BY <2>2, RemoveReadyValue
  <2> QED BY <1>1, <2>1, <2>3
<1>4. CASE t = Head(L["READY"])
  <2>1. st2 = Upd(Upd(st, Head(q), "RUNNING"), t, "INVALID")
    BY <1>1, <1>4
  <2>2. q = RemoveFirst(L["READY"], t)
    BY <1>1
  <2>3. /\ Placed(Upd(L, "READY", q), st2, pri)
        /\ Where(st2) = Upd(Where(st), t, "INVALID")
    BY <1>a, <1>4, <2>1, <2>2, TakeFirst
  <2>4. Good(r) /\ r.st = st2 /\ r.pri = pri
    BY <1>3, <1>a, <2>3, GoodValue
  <2> QED BY <1>1, <1>4, <2>3, <2>4 DEF Reached, First
<1>5. CASE t # Head(L["READY"])
  <2>1. st[t] = "READY"
    <3>1. Where(st)[t] = "READY" /\ st[t] # "RUNNING"
      BY <1>1, <1>a, <1>5 DEF Placed, Runs
    <3> QED BY <1>b, <3>1, WhereType
  <2>2. "READY" \in Lists
    BY ListNames
  <2>3. /\ Placed(Upd(L, "READY", RemoveFirst(L["READY"], t)), Upd(st, t, "INVALID"), pri)
        /\ Where(Upd(st, t, "INVALID")) = Upd(Where(st), t, "INVALID")
        /\ Head(Upd(L, "READY", RemoveFirst(L["READY"], t))["READY"]) = Head(L["READY"])
    BY <1>a, <2>1, <2>2, TakeOther
  <2>4. st2 = Upd(st, t, "INVALID")
    BY <1>1, <1>5
  <2>5. Placed(Upd(L, "READY", q), st2, pri)
    BY <1>1, <2>3, <2>4
  <2>6. Good(r) /\ r.list = Upd(L, "READY", q) /\ r.st = st2 /\ r.pri = pri
    BY <1>3, <1>a, <2>5, GoodValue
  <2> QED BY <1>1, <2>3, <2>4, <2>6 DEF Reached, First
<1> QED BY <1>4, <1>5

\* A priority that is written.
Retuned(s, t, n) == [s EXCEPT !.pri[t] = n]

LEMMA RetuneValue ==
    ASSUME NEW L, NEW st, NEW pri, NEW k, NEW t, NEW n
    PROVE  Retuned(Value(L, st, pri, k), t, n) = Value(L, st, Upd(pri, t, n), k)
BY DEF Value, Upd, Retuned

LEMMA RetuneGood ==
    ASSUME NEW s, Good(s), NEW t \in Task \ {Idle}, Where(s.st)[t] \notin Prioritized, NEW n \in 1 .. MaxPrio,
           NEW r, r = Retuned(s, t, n)
    PROVE  Reached(r, Where(s.st), Upd(s.pri, t, n)) /\ First(r) = First(s)
<1>1. PICK L, st, pri, k : L = s.list /\ st = s.st /\ pri = s.pri /\ k = s.ok
  OBVIOUS
<1>2. s = Value(L, st, pri, k)
  BY <1>1, GoodFields
<1>3. Holds(k) /\ Placed(L, st, pri)
  BY <1>1, GoodFields
<1>4. r = Value(L, st, Upd(pri, t, n), k)
  <2>1. r = Retuned(Value(L, st, pri, k), t, n)
    BY <1>2
  <2> QED BY <2>1, RetuneValue
<1>5. Placed(L, st, Upd(pri, t, n))
  <2>1. Where(st)[t] \notin Prioritized
    BY <1>1
  <2> QED BY <1>3, <2>1, PlacedRetune
<1>6. Good(r) /\ r.list = L /\ r.st = st /\ r.pri = Upd(pri, t, n)
  BY <1>3, <1>4, <1>5, GoodValue
<1> QED BY <1>1, <1>6 DEF Reached, First

LEMMA RetuneFirstGood ==
    ASSUME NEW s, Good(s), NEW t \in Task \ {Idle}, t = First(s), NEW n \in 1 .. MaxPrio,
           ~(n <= s.pri[s.list["READY"][2]]), NEW r, r = Retuned(s, t, n)
    PROVE  /\ Reached(r, Where(s.st), Upd(s.pri, t, n)) /\ First(r) = First(s)
           /\ \A u \in Task \ {t} : Where(s.st)[u] = "READY" => s.pri[u] < n
<1>1. PICK L, st, pri, k : L = s.list /\ st = s.st /\ pri = s.pri /\ k = s.ok
  OBVIOUS
<1>2. s = Value(L, st, pri, k)
  BY <1>1, GoodFields
<1>3. Holds(k) /\ Placed(L, st, pri)
  BY <1>1, GoodFields
<1>4. r = Value(L, st, Upd(pri, t, n), k)
  <2>1. r = Retuned(Value(L, st, pri, k), t, n)
    BY <1>2
  <2> QED BY <2>1, RetuneValue
<1>5. t = Head(L["READY"]) /\ ~(n <= pri[L["READY"][2]])
  BY <1>1 DEF First
<1>6. /\ Placed(L, st, Upd(pri, t, n))
      /\ \A u \in Task \ {t} : Where(st)[u] = "READY" => pri[u] < n
  BY <1>3, <1>5, PlacedRetuneFirst
<1>7. Good(r) /\ r.list = L /\ r.st = st /\ r.pri = Upd(pri, t, n)
  BY <1>3, <1>4, <1>6, GoodValue
<1> QED BY <1>1, <1>6, <1>7 DEF Reached, First

LEMMA AddReadyGood ==
    ASSUME NEW s, Good(s), NEW t \in Task, s.st[t] = "INVALID", NEW r, r = sched_addreadytorun(s, t),
           lockcount \in [Task -> Nat]
    PROVE  /\ Reached(r, Abs!AddReady(First(s), Where(s.st), s.pri, lockcount, t), s.pri)
           /\ First(r) = Abs!HeadAfterAdd(First(s), s.pri, lockcount, t)
<1>1. PICK L, st, pri, k, h, q : /\ L = s.list /\ st = s.st /\ pri = s.pri /\ k = s.ok /\ h = First(s)
                                 /\ q = InsertFrom(L["READY"], 1, t, pri)
  OBVIOUS
<1>2. s = Value(L, st, pri, k)
  BY <1>1, GoodFields
<1>a. Holds(k) /\ Placed(L, st, pri)
  BY <1>1, GoodFields
<1>b. st \in [Task -> States] /\ pri \in Priorities /\ DOMAIN L = Lists
  BY <1>1, GoodFields
<1>3. h = Head(L["READY"]) /\ q = InsertFrom(L["READY"], 1, t, pri)
  BY <1>1 DEF First
<1>4. h \in Task /\ L["READY"] # <<>> /\ st[h] = "RUNNING" /\ Where(st)[h] = "READY"
  BY <1>a, <1>3, FirstIsHighest
<1>5. pri[h] \in Nat /\ pri[t] \in Nat /\ lockcount[h] \in Nat
  BY <1>b, <1>4, PriorityType
<1>6. Where(st)[t] = "INVALID" /\ st[t] = "INVALID" /\ h # t
  BY <1>1, <1>b, <1>4, WhereType
<1>7. {"READY", "PENDING"} \subseteq Lists /\ {"READY", "PENDING"} \subseteq Prioritized /\ "INVALID" \notin Lists
  BY ListNames
<1>8. ASSUME NEW l \in {"READY", "PENDING"}
      PROVE  Joined(InsertFrom(L[l], 1, t, pri), L[l], t, pri)
  <2>1. Once(L[l]) /\ Descends(L[l], pri) /\ ToSet(L[l]) = {u \in Task : Where(st)[u] = l}
    BY <1>a, <1>7 DEF Placed
  <2>2. t \notin ToSet(L[l])
    BY <1>6, <2>1
  <2> QED BY <1>b, <2>1, <2>2, InsertJoins
<1>c. r = sched_addreadytorun(Value(L, st, pri, k), t)
  BY <1>2
<1>d. "READY" \in DOMAIN L
  BY <1>b, <1>7
<1>9. CASE lockcount[h] > 0 /\ pri[h] < pri[t]
  <2>1. PICK p : p = InsertFrom(L["PENDING"], 1, t, pri)
    OBVIOUS
  <2>2. r = Value(Upd(L, "PENDING", p), Upd(st, t, "PENDING"), pri, k)
    <3>1. sched_addreadytorun(Value(L, st, pri, k), t)
             = Value(Upd(L, "PENDING", InsertFrom(L["PENDING"], 1, t, pri)), Upd(st, t, "PENDING"), pri, k)
      BY <1>a, <1>d, <1>3, <1>9, AddReadyValue
    <3> QED BY <1>c, <2>1, <3>1
  <2>3. Once(p) /\ Descends(p, pri) /\ ToSet(p) = ToSet(L["PENDING"]) \cup {t}
    BY <1>8, <2>1 DEF Joined
  <2>4. "PENDING" \in Lists
    BY <1>7
  <2>5. /\ Placed(Upd(L, "PENDING", p), Upd(st, t, "PENDING"), pri)
        /\ Where(Upd(st, t, "PENDING")) = Upd(Where(st), t, "PENDING")
        /\ Head(Upd(L, "PENDING", p)["READY"]) = Head(L["READY"])
    BY <1>a, <1>6, <2>3, <2>4, PutOther
  <2>6. /\ Good(r) /\ r.list = Upd(L, "PENDING", p) /\ r.st = Upd(st, t, "PENDING") /\ r.pri = pri
    BY <1>a, <2>2, <2>5, GoodValue
  <2>7. Abs!AddReady(h, Where(st), pri, lockcount, t) = Upd(Where(st), t, "PENDING")
    BY <1>9 DEF Abs!AddReady, Upd
  <2>8. Abs!HeadAfterAdd(h, pri, lockcount, t) = h
    BY <1>5, <1>9 DEF Abs!HeadAfterAdd
  <2>9. First(r) = h
    BY <1>3, <2>5, <2>6 DEF First
  <2> QED BY <1>1, <2>5, <2>6, <2>7, <2>8, <2>9 DEF Reached
<1>10. Joined(q, L["READY"], t, pri)
  BY <1>1, <1>8
<1>11. /\ Once(q) /\ Descends(q, pri) /\ ToSet(q) = ToSet(L["READY"]) \cup {t}
       /\ Head(q) = IF pri[h] < pri[t] THEN t ELSE h
  BY <1>3, <1>4, <1>10 DEF Joined
<1>12. CASE ~(lockcount[h] > 0) /\ pri[h] < pri[t]
  <2>1. PICK st2 : st2 = Upd(Upd(st, t, "RUNNING"), h, "READY")
    OBVIOUS
  <2>2. lockcount[h] = 0 /\ Head(q) = t
    BY <1>5, <1>11, <1>12
  <2>3. r = Value(Upd(L, "READY", q), st2, pri, k)
    <3>1. sched_addreadytorun(Value(L, st, pri, k), t)
            = Value(Upd(L, "READY", q), Upd(Upd(st, t, "RUNNING"), h, "READY"), pri, k)
      BY <1>a, <1>d, <1>3, <1>12, <2>2, AddReadyValue
    <3> QED BY <1>c, <2>1, <3>1
  <2>8. st2 = Upd(Upd(st, t, "RUNNING"), Head(L["READY"]), "READY")
    BY <1>3, <2>1
  <2>9. /\ Placed(Upd(L, "READY", q), st2, pri)
        /\ Where(st2) = Upd(Where(st), t, "READY")
    BY <1>a, <1>6, <1>11, <2>2, <2>8, PutFirst
  <2>10. Good(r) /\ r.list = Upd(L, "READY", q) /\ r.st = st2 /\ r.pri = pri
    BY <1>a, <2>3, <2>9, GoodValue
  <2>11. Abs!AddReady(h, Where(st), pri, lockcount, t) = Upd(Where(st), t, "READY")
    BY <1>12 DEF Abs!AddReady, Upd
  <2>12. Abs!HeadAfterAdd(h, pri, lockcount, t) = t
    BY <1>12, <2>2 DEF Abs!HeadAfterAdd
  <2>13. First(r) = t
    BY <1>b, <1>7, <2>2, <2>10 DEF First, Upd
  <2> QED BY <1>1, <2>9, <2>10, <2>11, <2>12, <2>13 DEF Reached
<1>13. CASE ~(pri[h] < pri[t])
  <2>1. Head(q) = h /\ Head(q) = Head(L["READY"]) /\ Head(q) # t
    BY <1>3, <1>6, <1>11, <1>13
  <2>6. r = Value(Upd(L, "READY", q), Upd(st, t, "READY"), pri, k)
    <3>1. sched_addreadytorun(Value(L, st, pri, k), t)
            = Value(Upd(L, "READY", q), Upd(st, t, "READY"), pri, k)
      BY <1>a, <1>d, <1>3, <1>13, <2>1, AddReadyValue
    <3> QED BY <1>c, <3>1
  <2>7. "READY" \in Lists
    BY <1>7
  <2>8. /\ Placed(Upd(L, "READY", q), Upd(st, t, "READY"), pri)
        /\ Where(Upd(st, t, "READY")) = Upd(Where(st), t, "READY")
        /\ Head(Upd(L, "READY", q)["READY"]) = Head(L["READY"])
    BY <1>a, <1>6, <1>11, <2>1, <2>7, PutOther
  <2>9. Good(r) /\ r.list = Upd(L, "READY", q) /\ r.st = Upd(st, t, "READY") /\ r.pri = pri
    BY <1>a, <2>6, <2>8, GoodValue
  <2>10. Abs!AddReady(h, Where(st), pri, lockcount, t) = Upd(Where(st), t, "READY")
    BY <1>13 DEF Abs!AddReady, Upd
  <2>11. Abs!HeadAfterAdd(h, pri, lockcount, t) = h
    BY <1>13 DEF Abs!HeadAfterAdd
  <2>12. First(r) = h
    BY <1>3, <2>8, <2>9 DEF First
  <2> QED BY <1>1, <2>8, <2>9, <2>10, <2>11, <2>12 DEF Reached
<1> QED BY <1>9, <1>12, <1>13

LEMMA AddBlockedGood ==
    ASSUME NEW s, Good(s), NEW t \in Task, s.st[t] = "INVALID", NEW l \in Blocked, NEW r, r = sched_addblocked(s, t, l)
    PROVE  Reached(r, Upd(Where(s.st), t, l), s.pri) /\ First(r) = First(s)
<1>1. PICK L, st, pri, k, q :
        /\ L = s.list /\ st = s.st /\ pri = s.pri /\ k = s.ok
        /\ q = IF l \in PrioBlocked THEN InsertFrom(L[l], 1, t, pri) ELSE Append(L[l], t)
  OBVIOUS
<1>2. s = Value(L, st, pri, k)
  BY <1>1, GoodFields
<1>3. Holds(k) /\ Placed(L, st, pri)
  BY <1>1, GoodFields
<1>4. st \in [Task -> States] /\ pri \in Priorities
  BY <1>1, GoodFields
<1>5. r = Value(Upd(L, l, q), Upd(st, t, l), pri, k)
  <2>1. r = sched_addblocked(Value(L, st, pri, k), t, l)
    BY <1>2
  <2>2. sched_addblocked(Value(L, st, pri, k), t, l)
          = Value(Upd(L, l, IF l \in PrioBlocked THEN InsertFrom(L[l], 1, t, pri) ELSE Append(L[l], t)),
                  Upd(st, t, l), pri, k)
    BY AddBlockedValue
  <2> QED BY <1>1, <2>1, <2>2
<1>6. l \in Lists /\ l # "READY" /\ "INVALID" \notin Lists /\ (l \in Prioritized <=> l \in PrioBlocked)
  BY ListNames DEF Blocked, Prioritized
<1>7. st[t] = "INVALID" /\ Where(st)[t] = "INVALID"
  BY <1>1, <1>4, WhereType
<1>8. Once(L[l]) /\ ToSet(L[l]) = {u \in Task : Where(st)[u] = l} /\ (l \in Prioritized => Descends(L[l], pri))
  BY <1>3, <1>6 DEF Placed
<1>9. t \notin ToSet(L[l])
  BY <1>6, <1>7, <1>8
<1>10. Once(q) /\ ToSet(q) = ToSet(L[l]) \cup {t} /\ (l \in Prioritized => Descends(q, pri))
  <2>1. CASE l \in PrioBlocked
    <3>1. Joined(InsertFrom(L[l], 1, t, pri), L[l], t, pri)
      BY <1>4, <1>6, <1>8, <1>9, <2>1, InsertJoins
    <3> QED BY <1>1, <2>1, <3>1 DEF Joined
  <2>2. CASE l \notin PrioBlocked
    <3>1. Once(Append(L[l], t)) /\ ToSet(Append(L[l], t)) = ToSet(L[l]) \cup {t}
      BY <1>8, <1>9, AppendJoins
    <3> QED BY <1>1, <1>6, <2>2, <3>1
  <2> QED BY <2>1, <2>2
<1>11. /\ Placed(Upd(L, l, q), Upd(st, t, l), pri)
       /\ Where(Upd(st, t, l)) = Upd(Where(st), t, l)
       /\ Head(Upd(L, l, q)["READY"]) = Head(L["READY"])
  BY <1>3, <1>6, <1>7, <1>10, PutOther
<1>12. Good(r) /\ r.list = Upd(L, l, q) /\ r.st = Upd(st, t, l) /\ r.pri = pri
  BY <1>3, <1>5, <1>11, GoodValue
<1> QED BY <1>1, <1>11, <1>12 DEF Reached, First

\* A task that is not running leaves its list.
Taken(s, t) == [s EXCEPT !.list[s.st[t]] = RemoveFirst(@, t), !.st[t] = "INVALID"]

LEMMA TakenValue ==
    ASSUME NEW L, NEW st, NEW pri, NEW k, NEW t
    PROVE  Taken(Value(L, st, pri, k), t) = Value(Upd(L, st[t], RemoveFirst(L[st[t]], t)), Upd(st, t, "INVALID"), pri, k)
<1> DEFINE s == Value(L, st, pri, k)
           A == Upd(L, st[t], RemoveFirst(L[st[t]], t))
           B == Upd(st, t, "INVALID")
<1> HIDE DEF s
<1>1. s.list = L /\ s.st = st
  BY ValueFields DEF s
<1>2. [s EXCEPT !.list[s.st[t]] = RemoveFirst(@, t)] = SetList(s, A)
  BY Zenon, <1>1 DEF SetList, Upd
<1> HIDE DEF A
<1>3. SetList(s, A) = Value(A, st, pri, k)
  BY ValueUpdates DEF s
<1>4. SetList(s, A).st = st
  BY <1>3, ValueFields
<1>5. Taken(s, t) = SetState(SetList(s, A), B)
  BY Zenon, <1>2, <1>4 DEF Taken, SetState, Upd
<1> HIDE DEF B
<1>6. SetState(SetList(s, A), B) = Value(A, B, pri, k)
  BY <1>3, ValueUpdates
<1> QED BY <1>5, <1>6 DEF s, A, B

LEMMA TakenGood ==
    ASSUME NEW s, Good(s), NEW t \in Task \ {Idle}, s.st[t] \in Lists, NEW r, r = Taken(s, t)
    PROVE  Reached(r, Upd(Where(s.st), t, "INVALID"), s.pri) /\ First(r) = First(s)
<1>1. PICK L, st, pri, k, a : L = s.list /\ st = s.st /\ pri = s.pri /\ k = s.ok /\ a = st[t]
  OBVIOUS
<1>2. s = Value(L, st, pri, k)
  BY <1>1, GoodFields
<1>3. Holds(k) /\ Placed(L, st, pri)
  BY <1>1, GoodFields
<1>4. r = Value(Upd(L, a, RemoveFirst(L[a], t)), Upd(st, t, "INVALID"), pri, k)
  BY <1>1, <1>2, TakenValue
<1>5. a \in Lists /\ st[t] = a
  BY <1>1
<1>6. /\ Placed(Upd(L, a, RemoveFirst(L[a], t)), Upd(st, t, "INVALID"), pri)
      /\ Where(Upd(st, t, "INVALID")) = Upd(Where(st), t, "INVALID")
      /\ Head(Upd(L, a, RemoveFirst(L[a], t))["READY"]) = Head(L["READY"])
  BY <1>3, <1>5, TakeOther
<1>7. Good(r) /\ r.list = Upd(L, a, RemoveFirst(L[a], t)) /\ r.st = Upd(st, t, "INVALID") /\ r.pri = pri
  BY <1>3, <1>4, <1>6, GoodValue
<1> QED BY <1>1, <1>6, <1>7 DEF Reached, First

LEMMA RemoveBlockedGood ==
    ASSUME NEW s, Good(s), NEW t \in Task \ {Idle}, s.st[t] \in Blocked \cup {"INACTIVE"},
           NEW r, r = sched_removeblocked(s, t)
    PROVE  Reached(r, Upd(Where(s.st), t, "INVALID"), s.pri) /\ First(r) = First(s) /\ r.st[t] = "INVALID"
<1>1. PICK L, st, pri, k : L = s.list /\ st = s.st /\ pri = s.pri /\ k = s.ok
  OBVIOUS
<1>2. s = Value(L, st, pri, k)
  BY <1>1, GoodFields
<1>3. Holds(k)
  BY <1>1, GoodFields
<1>4. r = Value(Upd(L, st[t], RemoveFirst(L[st[t]], t)), Upd(st, t, "INVALID"), pri, k)
  <2>1. r = sched_removeblocked(Value(L, st, pri, k), t)
    BY <1>2
  <2>2. st[t] \in Blocked \cup {"INACTIVE"}
    BY <1>1
  <2> QED BY <1>3, <2>1, <2>2, RemoveBlockedValue
<1>5. r = Taken(s, t)
  BY <1>2, <1>4, TakenValue
<1>6. s.st[t] \in Lists
  BY ListNames
<1>7. Reached(r, Upd(Where(s.st), t, "INVALID"), s.pri) /\ First(r) = First(s)
  BY <1>5, <1>6, TakenGood
<1>8. r.st = Upd(st, t, "INVALID")
  BY <1>4, ValueFields
<1>9. r.st[t] = "INVALID"
  <2>1. st \in [Task -> States]
    BY <1>1, GoodFields
  <2> QED BY <1>8, <2>1 DEF Upd
<1> QED BY <1>7, <1>9

LEMMA MergePendingGood ==
    ASSUME NEW s, Good(s), NEW r, r = sched_mergepending(s)
    PROVE  /\ Reached(r, Abs!Merged(Where(s.st)), s.pri)
           /\ (\A t \in Task : s.st[t] = "PENDING" => s.pri[t] <= s.pri[First(s)]) => First(r) = First(s)
<1>1. PICK L, st, pri, k : L = s.list /\ st = s.st /\ pri = s.pri /\ k = s.ok
  OBVIOUS
<1>2. s = Value(L, st, pri, k)
  BY <1>1, GoodFields
<1>3. Holds(k) /\ Placed(L, st, pri)
  BY <1>1, GoodFields
<1>4. Mergeable(L["READY"], L["PENDING"], pri)
  <2>1. "READY" \in Prioritized /\ "PENDING" \in Prioritized /\ Prioritized \subseteq Lists /\ Idle \in Task
    BY ListNames
  <2> QED BY <1>3, <2>1 DEF Mergeable, Placed
<1>5. PICK m : m = MergeSteps(s)[Len(L["PENDING"])]
  OBVIOUS
<1>6. MergedTo(m, L["READY"], L["PENDING"], pri, Len(L["PENDING"]))
  <2>1. s.ok = TRUE /\ Mergeable(s.list["READY"], s.list["PENDING"], s.pri)
    BY <1>1, <1>3, <1>4 DEF Holds
  <2>2. MergedTo(MergeSteps(s)[Len(s.list["PENDING"])], s.list["READY"], s.list["PENDING"], s.pri, Len(s.list["PENDING"]))
    BY <2>1, MergeStepsMerge
  <2> QED BY <1>1, <1>5, <2>2
<1>7. PICK L2, st2 :
        /\ L2 = MergedLists(m, L)
        /\ st2 = MergedStates(m, L, st)
  OBVIOUS
<1>8. /\ Placed(MergedLists(m, L), st2, pri)
      /\ Where(st2) = Abs!Merged(Where(st))
      /\ m.ok = TRUE
      /\ (\A t \in Task : st[t] = "PENDING" => pri[t] <= pri[Head(L["READY"])]) => Head(m.q) = Head(L["READY"])
  BY <1>3, <1>6, <1>7, MergeAll
<1>9. r = Value(L2, st2, pri, k)
  <2>1. m.ok = k
    BY <1>3, <1>8 DEF Holds
  <2>2. m = MergeSteps(Value(L, st, pri, k))[Len(L["PENDING"])]
    BY <1>2, <1>5
  <2>3. sched_mergepending(Value(L, st, pri, k))
          = Value(MergedLists(m, L), MergedStates(m, L, st), pri, m.ok)
    BY <2>2, MergePendingValue
  <2> QED BY <1>2, <1>7, <2>1, <2>3
<1>10. Placed(L2, st2, pri)
  BY <1>7, <1>8
<1>11. Good(r) /\ r.list = L2 /\ r.st = st2 /\ r.pri = pri
  BY <1>3, <1>9, <1>10, GoodValue
<1>12. L2["READY"] = m.q
  <2>1. DOMAIN L = Lists /\ "READY" \in Lists
    BY <1>3, ListNames DEF Placed
  <2> QED BY <1>7, <2>1 DEF Upd, MergedLists
<1> QED BY <1>1, <1>8, <1>11, <1>12 DEF Reached, First

-----------------------------------------------------------------------------
(***************************************************************************)
(* The context switches, with the results that SchedAbs allows.            *)
(***************************************************************************)
LEMMA GoodView ==
    ASSUME NEW s, Good(s)
    PROVE  /\ First(s) \in Task /\ s.pri \in Priorities
           /\ Where(s.st) \in [Task -> Lists \cup {"INVALID"}]
           /\ Where(s.st)[First(s)] = "READY" /\ Where(s.st)[Idle] = "READY"
           /\ \A t \in Task : Where(s.st)[t] = "READY" => s.pri[t] <= s.pri[First(s)]
           /\ \A t \in Task : s.pri[t] = 0 <=> t = Idle
<1>1. Placed(s.list, s.st, s.pri) /\ s.st \in [Task -> States] /\ s.pri \in Priorities
  BY GoodFields
<1>2. /\ First(s) \in Task /\ Where(s.st)[First(s)] = "READY"
      /\ \A t \in Task : Where(s.st)[t] = "READY" => s.pri[t] <= s.pri[First(s)]
  BY <1>1, FirstIsHighest DEF First
<1>3. Where(s.st) \in [Task -> Lists \cup {"INVALID"}]
  BY <1>1, WhereType
<1>4. Where(s.st)[Idle] = "READY" /\ \A t \in Task : s.pri[t] = 0 <=> t = Idle
  BY <1>1 DEF Placed
<1> QED BY <1>1, <1>2, <1>3, <1>4

\* The state and the list of a task that is not ready.
LEMMA GoodStates ==
    ASSUME NEW s, Good(s), NEW t \in Task
    PROVE  /\ Where(s.st)[t] # "READY" => s.st[t] = Where(s.st)[t]
           /\ s.st[t] # "RUNNING" => Where(s.st)[t] = s.st[t]
           /\ s.st[t] = "RUNNING" <=> t = First(s)
           /\ s.st[t] \in States
<1>1. Placed(s.list, s.st, s.pri) /\ s.st \in [Task -> States]
  BY GoodFields
<1>2. s.st[t] = "RUNNING" <=> t = First(s)
  BY <1>1 DEF Placed, Runs, First
<1> QED BY <1>1, <1>2, WhereType

\* The results that R allows: the running task and the lists of the tasks.
Outcome(r) == <<First(r), Where(r.st)>>

Allowed(r, R, pri) == Good(r) /\ r.pri = pri /\ Outcome(r) \in R

LEMMA MergeBlocks ==
    ASSUME NEW s, Good(s), NEW r, r = sched_mergepending(s)
    PROVE  Allowed(r, Abs!AfterBlock(Where(s.st), s.pri), s.pri)
<1>1. Good(r) /\ Where(r.st) = Abs!Merged(Where(s.st)) /\ r.pri = s.pri
  BY MergePendingGood DEF Reached
<1>2. PICK w, p, h : w = Where(s.st) /\ p = s.pri /\ h = First(r)
  OBVIOUS
<1>3. /\ h \in Task /\ Abs!Merged(w)[h] = "READY"
      /\ \A t \in Task : Abs!Merged(w)[t] = "READY" => p[t] <= p[h]
  BY <1>1, <1>2, GoodView
<1>4. h \in Abs!Runnable(w)
  BY <1>3 DEF Abs!Runnable, Abs!Merged
<1>5. \A u \in Abs!Runnable(w) : p[u] <= p[h]
  BY <1>3 DEF Abs!Runnable, Abs!Merged
<1>6. h \in Abs!Highest(Abs!Runnable(w), p)
  BY <1>4, <1>5 DEF Abs!Highest
<1>7. <<h, Abs!Merged(w)>> \in Abs!AfterBlock(w, p)
  BY <1>6 DEF Abs!AfterBlock
<1> QED BY <1>1, <1>2, <1>7 DEF Allowed, Outcome

LEMMA RemoveReadyLeaves ==
    ASSUME NEW s, Good(s), NEW t \in Task \ {Idle}, Where(s.st)[t] = "READY",
           NEW r, r = sched_removereadytorun(s, t)
    PROVE  /\ Good(r) /\ Where(r.st) = Upd(Where(s.st), t, "INVALID") /\ r.pri = s.pri
           /\ r.st[t] = "INVALID"
           /\ t # First(s) => First(r) = First(s)
<1>1. Reached(r, Upd(Where(s.st), t, "INVALID"), s.pri) /\ (t # First(s) => First(r) = First(s))
  BY RemoveReadyGood
<1>2. Good(r) /\ Where(r.st) = Upd(Where(s.st), t, "INVALID") /\ r.pri = s.pri
  BY <1>1 DEF Reached
<1>3. Where(r.st)[t] = "INVALID"
  <2>1. Where(s.st) \in [Task -> Lists \cup {"INVALID"}]
    BY GoodView
  <2> QED BY <1>2, <2>1 DEF Upd
<1>4. r.st[t] = "INVALID"
  BY <1>2, <1>3, GoodStates
<1> QED BY <1>1, <1>2, <1>4

LEMMA BlockAllowed ==
    ASSUME NEW s, Good(s), First(s) # Idle, NEW l \in Blocked, NEW r, r = up_block_task(s, l)
    PROVE  Allowed(r, Abs!AfterBlock(Upd(Where(s.st), First(s), l), s.pri), s.pri)
<1>1. PICK t, a, b : t = First(s) /\ a = sched_removereadytorun(s, t) /\ b = sched_addblocked(a, t, l)
  OBVIOUS
<1>2. t \in Task \ {Idle} /\ Where(s.st)[t] = "READY" /\ Where(s.st) \in [Task -> Lists \cup {"INVALID"}]
  BY <1>1, GoodView
<1>3. Good(a) /\ Where(a.st) = Upd(Where(s.st), t, "INVALID") /\ a.pri = s.pri /\ a.st[t] = "INVALID"
  BY <1>1, <1>2, RemoveReadyLeaves
<1>4. Reached(b, Upd(Where(a.st), t, l), a.pri)
  BY <1>1, <1>2, <1>3, AddBlockedGood
<1>5. Good(b) /\ Where(b.st) = Upd(Where(s.st), t, l) /\ b.pri = s.pri
  <2>1. Upd(Upd(Where(s.st), t, "INVALID"), t, l) = Upd(Where(s.st), t, l)
    BY <1>2 DEF Upd
  <2> QED BY <1>3, <1>4, <2>1 DEF Reached
<1>6. r = sched_mergepending(b)
  BY <1>1 DEF up_block_task, First
<1>7. Allowed(r, Abs!AfterBlock(Where(b.st), b.pri), b.pri)
  BY <1>5, <1>6, MergeBlocks
<1> QED BY <1>1, <1>5, <1>7

\* The list that a task was on does not matter to where it is added.
LEMMA AddReadyOverwrites ==
    ASSUME NEW w \in [Task -> Lists \cup {"INVALID"}], NEW t \in Task, NEW x, NEW c, NEW p
    PROVE  Abs!AddReady(c, Upd(w, t, x), p, lockcount, t) = Abs!AddReady(c, w, p, lockcount, t)
<1>1. PICK v : v = IF lockcount[c] > 0 /\ p[c] < p[t] THEN "PENDING" ELSE "READY"
  OBVIOUS
<1>2. /\ Abs!AddReady(c, Upd(w, t, x), p, lockcount, t) = Upd(Upd(w, t, x), t, v)
      /\ Abs!AddReady(c, w, p, lockcount, t) = Upd(w, t, v)
  BY <1>1 DEF Abs!AddReady, Upd
<1>3. Upd(Upd(w, t, x), t, v) = Upd(w, t, v)
  BY DEF Upd
<1> QED BY <1>2, <1>3

LEMMA UnblockReached ==
    ASSUME NEW s, Good(s), NEW t \in Task, s.st[t] \in Blocked \cup {"INACTIVE"},
           lockcount \in [Task -> Nat], NEW r, r = up_unblock_task(s, t)
    PROVE  /\ Reached(r, Abs!AddReady(First(s), Where(s.st), s.pri, lockcount, t), s.pri)
           /\ First(r) = Abs!HeadAfterAdd(First(s), s.pri, lockcount, t)
<1>1. PICK a : a = sched_removeblocked(s, t)
  OBVIOUS
<1>2. Where(s.st)[Idle] = "READY" /\ Where(s.st) \in [Task -> Lists \cup {"INVALID"}]
  BY GoodView
<1>3. t # Idle
  BY <1>2, GoodStates, ListNames
<1>4. Reached(a, Upd(Where(s.st), t, "INVALID"), s.pri) /\ First(a) = First(s) /\ a.st[t] = "INVALID"
  BY <1>1, <1>3, RemoveBlockedGood
<1>5. Good(a) /\ Where(a.st) = Upd(Where(s.st), t, "INVALID") /\ a.pri = s.pri
  BY <1>4 DEF Reached
<1>6. r = sched_addreadytorun(a, t)
  BY <1>1 DEF up_unblock_task
<1>7. /\ Reached(r, Abs!AddReady(First(a), Where(a.st), a.pri, lockcount, t), a.pri)
      /\ First(r) = Abs!HeadAfterAdd(First(a), a.pri, lockcount, t)
  BY <1>4, <1>5, <1>6, AddReadyGood
<1>8. Abs!AddReady(First(s), Upd(Where(s.st), t, "INVALID"), s.pri, lockcount, t)
        = Abs!AddReady(First(s), Where(s.st), s.pri, lockcount, t)
  BY <1>2, AddReadyOverwrites
<1> QED BY <1>4, <1>5, <1>7, <1>8

-----------------------------------------------------------------------------
(***************************************************************************)
(* Priority changes.                                                       *)
(***************************************************************************)
\* The ways of SchedAbs!AfterReprioritize when the priority of t changes.
WhereTo == [Task -> Lists \cup {"INVALID"}]

LEMMA StayAllowed ==
    ASSUME NEW w \in WhereTo, NEW c \in Task, NEW t \in Task, NEW p \in Priorities,
           t = c => \A u \in Task \ {c} : w[u] = "READY" => p[u] < p[c],
           t # c /\ w[t] = "READY" => p[t] <= p[c]
    PROVE  <<c, w>> \in Abs!AfterReprioritize(c, w, p, lockcount, {t})
<1>0. \A u \in Task : p[u] \in Nat
  BY PriorityType
<1>1. ~Abs!Yields(c, w, p, {t})
  BY <1>0 DEF Abs!Yields, Abs!Others
<1>2. Abs!Raised(c, w, p, {t}) = {}
  BY <1>0 DEF Abs!Raised, Abs!Others
<1>3. Abs!HeldOff(c, w, p, {t}) = w
  BY <1>2 DEF Abs!HeldOff, WhereTo
<1> QED BY <1>1, <1>2, <1>3 DEF Abs!AfterReprioritize

LEMMA HoldAllowed ==
    ASSUME NEW w \in WhereTo, NEW c \in Task, NEW t \in Task, NEW p \in Priorities,
           t # c, w[t] = "READY", p[c] < p[t], lockcount[c] # 0
    PROVE  <<c, Upd(w, t, "PENDING")>> \in Abs!AfterReprioritize(c, w, p, lockcount, {t})
<1>1. ~Abs!Yields(c, w, p, {t})
  BY DEF Abs!Yields
<1>2. Abs!Raised(c, w, p, {t}) = {t}
  BY DEF Abs!Raised, Abs!Others
<1>3. Abs!HeldOff(c, w, p, {t}) = Upd(w, t, "PENDING")
  BY <1>2 DEF Abs!HeldOff, WhereTo, Upd
<1> QED BY <1>1, <1>3 DEF Abs!AfterReprioritize

LEMMA PreemptAllowed ==
    ASSUME NEW w \in WhereTo, NEW c \in Task, NEW t \in Task, NEW p \in Priorities,
           t # c, w[t] = "READY", p[c] < p[t], lockcount[c] = 0
    PROVE  Abs!AfterReprioritize(c, w, p, lockcount, {t}) = Abs!AfterBlock(w, p)
<1>1. ~Abs!Yields(c, w, p, {t})
  BY DEF Abs!Yields
<1>2. Abs!Raised(c, w, p, {t}) # {}
  BY DEF Abs!Raised, Abs!Others
<1> QED BY <1>1, <1>2 DEF Abs!AfterReprioritize

LEMMA YieldAllowed ==
    ASSUME NEW w \in WhereTo, NEW c \in Task, NEW p \in Priorities,
           NEW d \in Task \ {c}, w[d] = "READY", p[c] <= p[d],
           NEW h \in Abs!Highest(Abs!Runnable(w) \ {c}, p)
    PROVE  <<h, Abs!Merged(w)>> \in Abs!AfterReprioritize(c, w, p, lockcount, {c})
<1>1. Abs!Yields(c, w, p, {c})
  BY DEF Abs!Yields, Abs!Others
<1> QED BY <1>1 DEF Abs!AfterReprioritize

\* A ready task is taken off the list, given its priority and added again; c
\* is the head in between.
Moves(s, t, n) == sched_addreadytorun(Retuned(sched_removereadytorun(s, t), t, n), t)

Between(s, t) == First(sched_removereadytorun(s, t))

LEMMA MoveReached ==
    ASSUME NEW s, Good(s), NEW t \in Task \ {Idle}, Where(s.st)[t] = "READY", NEW n \in 1 .. MaxPrio,
           lockcount \in [Task -> Nat], NEW r, r = Moves(s, t, n), NEW p, p = Upd(s.pri, t, n),
           NEW c, c = Between(s, t)
    PROVE  /\ Reached(r, Abs!AddReady(c, Where(s.st), p, lockcount, t), p)
           /\ First(r) = Abs!HeadAfterAdd(c, p, lockcount, t)
           /\ c \in Task \ {t} /\ Where(s.st)[c] = "READY"
           /\ t # First(s) => c = First(s)
<1>1. PICK a, b : a = sched_removereadytorun(s, t) /\ b = Retuned(a, t, n)
  OBVIOUS
<1>2. /\ Good(a) /\ Where(a.st) = Upd(Where(s.st), t, "INVALID") /\ a.pri = s.pri
      /\ t # First(s) => First(a) = First(s)
  BY <1>1, RemoveReadyLeaves
<1>3. Where(s.st) \in WhereTo
  BY GoodView DEF WhereTo
<1>4. Where(a.st)[t] = "INVALID" /\ \A u \in Task \ {t} : Where(a.st)[u] = Where(s.st)[u]
  BY <1>2, <1>3 DEF Upd, WhereTo
<1>5. c = First(a) /\ c \in Task /\ Where(a.st)[c] = "READY"
  BY <1>1, <1>2, GoodView DEF Between
<1>6. Reached(b, Where(a.st), Upd(a.pri, t, n)) /\ First(b) = First(a)
  <2>1. Where(a.st)[t] \notin Prioritized
    BY <1>4, ListNames
  <2> QED BY <1>1, <1>2, <2>1, RetuneGood
<1>7. Good(b) /\ Where(b.st) = Upd(Where(s.st), t, "INVALID") /\ b.pri = p /\ First(b) = c
  BY <1>2, <1>5, <1>6 DEF Reached
<1>8. b.st[t] = "INVALID"
  <2>1. Where(b.st)[t] = "INVALID"
    BY <1>2, <1>4, <1>7
  <2> QED BY <1>7, <2>1, GoodStates
<1>9. r = sched_addreadytorun(b, t)
  BY <1>1 DEF Moves
<1>10. /\ Reached(r, Abs!AddReady(c, Upd(Where(s.st), t, "INVALID"), p, lockcount, t), p)
       /\ First(r) = Abs!HeadAfterAdd(c, p, lockcount, t)
  <2>1. /\ Reached(r, Abs!AddReady(First(b), Where(b.st), b.pri, lockcount, t), b.pri)
        /\ First(r) = Abs!HeadAfterAdd(First(b), b.pri, lockcount, t)
    BY <1>7, <1>8, <1>9, AddReadyGood
  <2> QED BY <1>7, <2>1
<1>11. Abs!AddReady(c, Upd(Where(s.st), t, "INVALID"), p, lockcount, t)
         = Abs!AddReady(c, Where(s.st), p, lockcount, t)
  <2>1. Where(s.st) \in [Task -> Lists \cup {"INVALID"}]
    BY GoodView
  <2> QED BY <2>1, AddReadyOverwrites
<1>12. c \in Task \ {t} /\ Where(s.st)[c] = "READY"
  BY <1>4, <1>5
<1> QED BY <1>2, <1>5, <1>10, <1>11, <1>12

\* Where a ready task is added again.
LEMMA AddAgain ==
    ASSUME NEW w \in WhereTo, NEW t \in Task, w[t] = "READY", NEW c \in Task, NEW p \in Priorities,
           lockcount \in [Task -> Nat]
    PROVE  /\ p[t] <= p[c] => /\ Abs!AddReady(c, w, p, lockcount, t) = w
                              /\ Abs!HeadAfterAdd(c, p, lockcount, t) = c
           /\ lockcount[c] = 0 /\ p[c] < p[t] => /\ Abs!AddReady(c, w, p, lockcount, t) = w
                                                 /\ Abs!HeadAfterAdd(c, p, lockcount, t) = t
           /\ lockcount[c] # 0 /\ p[c] < p[t] =>
                /\ Abs!AddReady(c, w, p, lockcount, t) = Upd(w, t, "PENDING")
                /\ Abs!HeadAfterAdd(c, p, lockcount, t) = c
<1>1. p[t] \in Nat /\ p[c] \in Nat /\ lockcount[c] \in Nat
  BY PriorityType
<1>2. [w EXCEPT ![t] = "READY"] = w
  BY DEF WhereTo
<1>3. ASSUME p[t] <= p[c]
      PROVE  /\ Abs!AddReady(c, w, p, lockcount, t) = w
             /\ Abs!HeadAfterAdd(c, p, lockcount, t) = c
  <2>1. ~(p[c] < p[t])
    BY <1>1, <1>3
  <2> QED BY <2>1, <1>2 DEF Abs!AddReady, Abs!HeadAfterAdd
<1>4. ASSUME lockcount[c] = 0, p[c] < p[t]
      PROVE  /\ Abs!AddReady(c, w, p, lockcount, t) = w
             /\ Abs!HeadAfterAdd(c, p, lockcount, t) = t
  <2>1. ~(lockcount[c] > 0)
    BY <1>1, <1>4
  <2> QED BY <2>1, <1>2, <1>4 DEF Abs!AddReady, Abs!HeadAfterAdd
<1>5. ASSUME lockcount[c] # 0, p[c] < p[t]
      PROVE  /\ Abs!AddReady(c, w, p, lockcount, t) = Upd(w, t, "PENDING")
             /\ Abs!HeadAfterAdd(c, p, lockcount, t) = c
  <2>1. lockcount[c] > 0
    BY <1>1, <1>5
  <2> QED BY <2>1, <1>5 DEF Abs!AddReady, Abs!HeadAfterAdd, Upd
<1> QED BY <1>3, <1>4, <1>5

\* up_reprioritize_rtr in terms of the move.
LEMMA ReprioritizeMoves ==
    ASSUME NEW s, NEW t, NEW n, NEW m, m = Moves(s, t, n)
    PROVE  up_reprioritize_rtr(s, t, n) = IF First(m) # First(s) THEN sched_mergepending(m) ELSE m
BY DEF up_reprioritize_rtr, Moves, Retuned, First

\* A ready task that is not running.
LEMMA ReadyAllowed ==
    ASSUME NEW s, Good(s), NEW t \in Task \ {Idle}, s.st[t] = "READY", NEW n \in 1 .. MaxPrio,
           lockcount \in [Task -> Nat], NEW r, r = sched_setpriority(s, t, n),
           NEW p, p = Upd(s.pri, t, n)
    PROVE  Allowed(r, Abs!AfterReprioritize(First(s), Where(s.st), p, lockcount, {t}), p)
<1>1. PICK w, c, m : w = Where(s.st) /\ c = First(s) /\ m = Moves(s, t, n)
  OBVIOUS
<1>2. t # c /\ w[t] = "READY"
  BY <1>1, GoodStates
<1>3. w \in WhereTo /\ c \in Task /\ s.pri \in Priorities
  BY <1>1, GoodView DEF WhereTo
<1>4. p \in Priorities /\ p[t] = n /\ p[c] = s.pri[c]
  BY <1>2, <1>3 DEF Priorities, Upd
<1>5. /\ Reached(m, Abs!AddReady(c, w, p, lockcount, t), p)
      /\ First(m) = Abs!HeadAfterAdd(c, p, lockcount, t)
  <2>1. PICK d : d = Between(s, t)
    OBVIOUS
  <2>2. Where(s.st)[t] = "READY"
    BY <1>1, <1>2
  <2>3. /\ Reached(m, Abs!AddReady(d, Where(s.st), p, lockcount, t), p)
        /\ First(m) = Abs!HeadAfterAdd(d, p, lockcount, t)
        /\ t # First(s) => d = First(s)
    BY <1>1, <2>1, <2>2, MoveReached
  <2> QED BY <1>1, <1>2, <2>3
<1>6. r = IF n > s.pri[c] THEN up_reprioritize_rtr(s, t, n) ELSE m
  <2>1. r = IF n > s.pri[Head(s.list["READY"])] THEN up_reprioritize_rtr(s, t, n)
            ELSE sched_addreadytorun([sched_removereadytorun(s, t) EXCEPT !.pri[t] = n], t)
    BY DEF sched_setpriority
  <2>2. m = sched_addreadytorun([sched_removereadytorun(s, t) EXCEPT !.pri[t] = n], t)
    BY <1>1 DEF Moves, Retuned
  <2> QED BY <1>1, <2>1, <2>2 DEF First
<1>7. up_reprioritize_rtr(s, t, n) = IF First(m) # c THEN sched_mergepending(m) ELSE m
  BY <1>1, ReprioritizeMoves
<1>8. n \in Nat /\ s.pri[c] \in Nat /\ p[t] \in Nat /\ p[c] \in Nat
  BY <1>3, <1>4, PriorityType
<1>9. CASE ~(n > s.pri[c])
  <2>1. r = m
    BY <1>6, <1>9
  <2>2. p[t] <= p[c]
    BY <1>4, <1>8, <1>9
  <2>3. Abs!AddReady(c, w, p, lockcount, t) = w /\ Abs!HeadAfterAdd(c, p, lockcount, t) = c
    BY <1>2, <1>3, <1>4, <2>2, AddAgain
  <2>4. Good(r) /\ Where(r.st) = w /\ r.pri = p /\ First(r) = c
    BY <1>5, <2>1, <2>3 DEF Reached
  <2>5. <<c, w>> \in Abs!AfterReprioritize(c, w, p, lockcount, {t})
    BY <1>2, <1>3, <1>4, <2>2, StayAllowed
  <2> QED BY <1>1, <2>4, <2>5 DEF Allowed, Outcome
<1>10. CASE n > s.pri[c] /\ lockcount[c] # 0
  <2>1. p[c] < p[t]
    BY <1>4, <1>8, <1>10
  <2>2. Abs!AddReady(c, w, p, lockcount, t) = Upd(w, t, "PENDING") /\ Abs!HeadAfterAdd(c, p, lockcount, t) = c
    BY <1>2, <1>3, <1>4, <1>10, <2>1, AddAgain
  <2>3. r = m
    BY <1>5, <1>6, <1>7, <1>10, <2>2
  <2>4. Good(r) /\ Where(r.st) = Upd(w, t, "PENDING") /\ r.pri = p /\ First(r) = c
    BY <1>5, <2>2, <2>3 DEF Reached
  <2>5. <<c, Upd(w, t, "PENDING")>> \in Abs!AfterReprioritize(c, w, p, lockcount, {t})
    BY <1>2, <1>3, <1>4, <1>10, <2>1, HoldAllowed
  <2> QED BY <1>1, <2>4, <2>5 DEF Allowed, Outcome
<1>11. CASE n > s.pri[c] /\ lockcount[c] = 0
  <2>1. p[c] < p[t]
    BY <1>4, <1>8, <1>11
  <2>2. Abs!AddReady(c, w, p, lockcount, t) = w /\ Abs!HeadAfterAdd(c, p, lockcount, t) = t
    BY <1>2, <1>3, <1>4, <1>11, <2>1, AddAgain
  <2>3. r = sched_mergepending(m)
    BY <1>2, <1>5, <1>6, <1>7, <1>11, <2>2
  <2>4. Good(m) /\ Where(m.st) = w /\ m.pri = p
    BY <1>5, <2>2 DEF Reached
  <2>5. Allowed(r, Abs!AfterBlock(w, p), p)
    BY <2>3, <2>4, MergeBlocks
  <2>6. Abs!AfterReprioritize(c, w, p, lockcount, {t}) = Abs!AfterBlock(w, p)
    BY <1>2, <1>3, <1>4, <1>11, <2>1, PreemptAllowed
  <2> QED BY <1>1, <2>5, <2>6
<1> QED BY <1>9, <1>10, <1>11

\* The second task of the ready list is its head once the first is taken off.
LEMMA SecondIsNext ==
    ASSUME NEW s, Good(s), First(s) # Idle
    PROVE  Between(s, First(s)) = s.list["READY"][2]
<1>1. PICK L, st, pri, k, q, t : L = s.list /\ st = s.st /\ pri = s.pri /\ k = s.ok /\ q = L["READY"] /\ t = Head(q)
  OBVIOUS
<1>2. s = Value(L, st, pri, k)
  BY <1>1, GoodFields
<1>3. Placed(L, st, pri)
  BY <1>1, GoodFields
<1>4. q \in Seq(Task) /\ q # <<>> /\ IsInjective(q) /\ Idle \in ToSet(q)
  <2>1. Once(q) /\ ToSet(q) = {u \in Task : Where(st)[u] = "READY"}
    BY <1>1, <1>3, ListNames DEF Placed
  <2>2. q \in Seq(Task) /\ q # <<>>
    BY <1>1, <1>3, FirstIsHighest
  <2>3. Idle \in ToSet(q)
    BY <1>3, <2>1, ListNames DEF Placed
  <2>4. IsInjective(q)
    BY <2>1 DEF Once, IsInjective
  <2> QED BY <2>2, <2>3, <2>4
<1>5. RemoveFirst(q, t) = Tail(q)
  BY <1>1, <1>4, TailElements
<1>6. Len(q) \in Nat /\ Len(q) # 1 /\ Len(q) # 0
  <2>1. Len(q) \in Nat /\ Len(q) # 0
    BY <1>4
  <2>2. PICK i \in 1 .. Len(q) : q[i] = Idle
    BY <1>4 DEF ToSet
  <2>3. q[1] # Idle
    BY <1>1, <1>4 DEF First
  <2> QED BY <2>1, <2>2, <2>3
<1>7. Head(Tail(q)) = q[2]
  <2>1. /\ Tail(q) \in Seq(Task) /\ Len(Tail(q)) = Len(q) - 1
        /\ \A i \in 1 .. Len(Tail(q)) : Tail(q)[i] = q[i + 1]
    BY <1>4, HeadTailProperties
  <2>2. 1 \in 1 .. Len(Tail(q)) /\ 1 + 1 = 2
    BY <1>6, <2>1
  <2>3. Tail(q)[1] = q[2]
    BY <2>1, <2>2
  <2>4. PICK x : x = Tail(q)
    OBVIOUS
  <2>5. x \in Seq(Task) /\ Len(x) # 0 /\ x[1] = q[2]
    BY <1>6, <2>1, <2>3, <2>4
  <2>6. Head(x) = x[1]
    BY <2>5
  <2> QED BY <2>4, <2>5, <2>6
<1>8. sched_removereadytorun(s, t).list = Upd(L, "READY", Tail(q))
  <2>1. PICK x : x = RemoveFirst(L["READY"], t)
    OBVIOUS
  <2>2. sched_removereadytorun(Value(L, st, pri, k), t)
          = Value(Upd(L, "READY", x),
                  Upd(IF t = Head(L["READY"]) THEN Upd(st, Head(x), "RUNNING") ELSE st, t, "INVALID"), pri, k)
    BY <2>1, RemoveReadyValue
  <2>3. sched_removereadytorun(s, t).list = Upd(L, "READY", x)
    BY <1>2, <2>2, ValueFields
  <2> QED BY <1>1, <1>5, <2>1, <2>3
<1>9. Upd(L, "READY", Tail(q))["READY"] = Tail(q)
  <2>1. DOMAIN L = Lists /\ "READY" \in Lists
    BY <1>3, ListNames DEF Placed
  <2> QED BY <2>1 DEF Upd
<1>10. Between(s, t) = q[2]
  BY <1>7, <1>8, <1>9 DEF Between, First
<1> QED BY <1>1, <1>10 DEF First

\* The running task comes down to the priority of the next one, or yields.
LEMMA YieldReached ==
    ASSUME NEW s, Good(s), NEW t, t = First(s), t # Idle, NEW n \in 1 .. MaxPrio, n <= s.pri[s.list["READY"][2]],
           lockcount \in [Task -> Nat], NEW r, r = up_reprioritize_rtr(s, t, n),
           NEW p, p = Upd(s.pri, t, n)
    PROVE  Allowed(r, Abs!AfterReprioritize(First(s), Where(s.st), p, lockcount, {t}), p)
<1>1. PICK w, c, m : w = Where(s.st) /\ c = Between(s, t) /\ m = Moves(s, t, n)
  OBVIOUS
<1>2. w \in WhereTo /\ t \in Task \ {Idle} /\ w[t] = "READY" /\ s.pri \in Priorities
  BY <1>1, GoodView DEF WhereTo
<1>3. /\ Reached(m, Abs!AddReady(c, w, p, lockcount, t), p)
      /\ First(m) = Abs!HeadAfterAdd(c, p, lockcount, t)
      /\ c \in Task \ {t} /\ w[c] = "READY"
  BY <1>1, <1>2, MoveReached
<1>4. p \in Priorities /\ p[t] = n /\ p[c] = s.pri[c]
  BY <1>2, <1>3 DEF Priorities, Upd
<1>5. p[t] <= p[c]
  <2>1. c = s.list["READY"][2]
    BY <1>1, SecondIsNext
  <2> QED BY <1>4, <2>1
<1>6. Abs!AddReady(c, w, p, lockcount, t) = w /\ Abs!HeadAfterAdd(c, p, lockcount, t) = c
  BY <1>2, <1>3, <1>4, <1>5, AddAgain
<1>7. Good(m) /\ Where(m.st) = w /\ m.pri = p /\ First(m) = c
  BY <1>3, <1>6 DEF Reached
<1>8. r = sched_mergepending(m)
  <2>1. up_reprioritize_rtr(s, t, n) = IF First(m) # First(s) THEN sched_mergepending(m) ELSE m
    BY <1>1, ReprioritizeMoves
  <2> QED BY <1>3, <1>7, <2>1
<1>9. PICK h : h = First(r)
  OBVIOUS
<1>10. Good(r) /\ r.pri = p /\ Where(r.st) = Abs!Merged(w)
  BY <1>7, <1>8, MergePendingGood DEF Reached
<1>11. /\ h \in Task /\ Abs!Merged(w)[h] = "READY"
       /\ \A u \in Task : Abs!Merged(w)[u] = "READY" => p[u] <= p[h]
  BY <1>9, <1>10, GoodView
\* With the yielding task at the head again, the pending tasks would all be
\* lower than the one that took over, and that one would be the head.
<1>12. h # t
  <2>1. SUFFICES ASSUME h = t PROVE FALSE
    OBVIOUS
  <2>2. ASSUME NEW u \in Task, m.st[u] = "PENDING" PROVE m.pri[u] <= m.pri[First(m)]
    <3>1. w[u] = "PENDING"
      BY <1>7, <2>2, GoodStates
    <3>2. Abs!Merged(w)[u] = "READY"
      BY <3>1 DEF Abs!Merged
    <3>3. p[u] <= p[t]
      BY <1>11, <2>1, <3>2
    <3>4. p[u] \in Nat /\ p[t] \in Nat /\ p[c] \in Nat
      BY <1>2, <1>3, <1>4, PriorityType
    <3> QED BY <1>5, <1>7, <3>3, <3>4
  <2>3. First(r) = First(m)
    BY <1>7, <1>8, <2>2, MergePendingGood
  <2> QED BY <1>3, <1>7, <1>9, <2>1, <2>3
<1>13. h \in Abs!Highest(Abs!Runnable(w) \ {t}, p)
  <2>1. h \in Abs!Runnable(w) \ {t}
    BY <1>11, <1>12 DEF Abs!Runnable, Abs!Merged
  <2>2. \A u \in Abs!Runnable(w) \ {t} : p[u] <= p[h]
    BY <1>11 DEF Abs!Runnable, Abs!Merged
  <2> QED BY <2>1, <2>2 DEF Abs!Highest
<1>14. <<h, Abs!Merged(w)>> \in Abs!AfterReprioritize(t, w, p, lockcount, {t})
  BY <1>2, <1>3, <1>4, <1>5, <1>13, YieldAllowed
<1> QED BY <1>1, <1>9, <1>10, <1>14 DEF Allowed, Outcome

\* The running task.
LEMMA RunningAllowed ==
    ASSUME NEW s, Good(s), NEW t \in Task \ {Idle}, s.st[t] = "RUNNING", NEW n \in 1 .. MaxPrio,
           lockcount \in [Task -> Nat], NEW r, r = sched_setpriority(s, t, n),
           NEW p, p = Upd(s.pri, t, n)
    PROVE  Allowed(r, Abs!AfterReprioritize(First(s), Where(s.st), p, lockcount, {t}), p)
<1>1. t = First(s)
  BY GoodStates
<1>2. r = IF n <= s.pri[s.list["READY"][2]] THEN up_reprioritize_rtr(s, t, n) ELSE Retuned(s, t, n)
  <2>1. "RUNNING" \notin Prioritized
    BY ListNames
  <2> QED BY <2>1 DEF sched_setpriority, Retuned
<1>3. CASE n <= s.pri[s.list["READY"][2]]
  BY <1>1, <1>2, <1>3, YieldReached
<1>4. CASE ~(n <= s.pri[s.list["READY"][2]])
  <2>1. r = Retuned(s, t, n)
    BY <1>2, <1>4
  <2>2. /\ Reached(r, Where(s.st), Upd(s.pri, t, n)) /\ First(r) = First(s)
        /\ \A u \in Task \ {t} : Where(s.st)[u] = "READY" => s.pri[u] < n
    BY <1>1, <1>4, <2>1, RetuneFirstGood
  <2>3. Where(s.st) \in WhereTo /\ s.pri \in Priorities
    BY GoodView DEF WhereTo
  <2>4. p \in Priorities /\ p[t] = n /\ \A u \in Task \ {t} : p[u] = s.pri[u]
    BY <2>3 DEF Priorities, Upd
  <2>5. \A u \in Task \ {t} : Where(s.st)[u] = "READY" => p[u] < p[t]
    BY <2>2, <2>4
  <2>6. <<t, Where(s.st)>> \in Abs!AfterReprioritize(t, Where(s.st), p, lockcount, {t})
    BY <2>3, <2>4, <2>5, StayAllowed
  <2> QED BY <1>1, <2>2, <2>6 DEF Allowed, Outcome, Reached
<1> QED BY <1>3, <1>4

\* A task that is not ready, on a list that is not in order of priority.
LEMMA UnorderedAllowed ==
    ASSUME NEW s, Good(s), NEW t \in Task \ {Idle}, s.st[t] \notin Prioritized, s.st[t] # "RUNNING",
           NEW n \in 1 .. MaxPrio, NEW r, r = sched_setpriority(s, t, n),
           NEW p, p = Upd(s.pri, t, n)
    PROVE  Allowed(r, Abs!AfterReprioritize(First(s), Where(s.st), p, lockcount, {t}), p)
<1>1. Where(s.st)[t] = s.st[t] /\ t # First(s)
  BY GoodStates
<1>2. s.st[t] # "READY"
  BY ListNames
<1>3. r = Retuned(s, t, n)
  BY <1>2 DEF sched_setpriority, Retuned
<1>4. Reached(r, Where(s.st), Upd(s.pri, t, n)) /\ First(r) = First(s)
  BY <1>1, <1>3, RetuneGood
<1>5. Where(s.st) \in WhereTo /\ s.pri \in Priorities /\ First(s) \in Task
  BY GoodView DEF WhereTo
<1>6. p \in Priorities
  BY <1>5 DEF Priorities, Upd
<1>7. <<First(s), Where(s.st)>> \in Abs!AfterReprioritize(First(s), Where(s.st), p, lockcount, {t})
  BY <1>1, <1>2, <1>5, <1>6, StayAllowed
<1> QED BY <1>4, <1>7 DEF Allowed, Outcome, Reached

\* A task that waits on a list in order of priority: off the list, and on it
\* again at the place of its new priority.
Refiled(s, t, n) ==
    [s EXCEPT !.list[s.st[t]] = RemoveFirst(@, t), !.pri[t] = n]

LEMMA RefiledValue ==
    ASSUME NEW L, NEW st, NEW pri, NEW k, NEW t, NEW n
    PROVE  Refiled(Value(L, st, pri, k), t, n)
             = Value(Upd(L, st[t], RemoveFirst(L[st[t]], t)), st, Upd(pri, t, n), k)
<1> DEFINE s == Value(L, st, pri, k)
           A == Upd(L, st[t], RemoveFirst(L[st[t]], t))
           B == Upd(pri, t, n)
<1> HIDE DEF s
<1>1. s.list = L /\ s.st = st
  BY ValueFields DEF s
<1>2. [s EXCEPT !.list[s.st[t]] = RemoveFirst(@, t)] = SetList(s, A)
  BY Zenon, <1>1 DEF SetList, Upd
<1> HIDE DEF A
<1>3. SetList(s, A) = Value(A, st, pri, k)
  BY ValueUpdates DEF s
<1>4. SetList(s, A).pri = pri
  BY <1>3, ValueFields
<1>5. Refiled(s, t, n) = SetPri(SetList(s, A), B)
  BY Zenon, <1>2, <1>4 DEF Refiled, SetPri, Upd
<1> HIDE DEF B
<1>6. SetPri(SetList(s, A), B) = Value(A, st, B, k)
  BY <1>3, ValueUpdates
<1> QED BY <1>5, <1>6 DEF s, A, B

LEMMA OrderedAllowed ==
    ASSUME NEW s, Good(s), NEW t \in Task \ {Idle}, s.st[t] \in Prioritized \ {"READY"},
           NEW n \in 1 .. MaxPrio, NEW r, r = sched_setpriority(s, t, n),
           NEW p, p = Upd(s.pri, t, n)
    PROVE  Allowed(r, Abs!AfterReprioritize(First(s), Where(s.st), p, lockcount, {t}), p)
<1>1. PICK L, st, pri, k, l : L = s.list /\ st = s.st /\ pri = s.pri /\ k = s.ok /\ l = st[t]
  OBVIOUS
<1>2. s = Value(L, st, pri, k)
  BY <1>1, GoodFields
<1>3. Holds(k) /\ Placed(L, st, pri) /\ st \in [Task -> States] /\ pri \in Priorities
  BY <1>1, GoodFields
<1>4. l \in Prioritized /\ l \in Lists /\ l # "READY" /\ l # "RUNNING" /\ st[t] = l /\ "READY" \in Lists
  BY <1>1, ListNames
<1>5. PICK L1, st1, L2, q :
        /\ L1 = Upd(L, l, RemoveFirst(L[l], t))
        /\ st1 = Upd(st, t, "INVALID")
        /\ q = InsertFrom(L1[l], 1, t, p)
        /\ L2 = Upd(L1, l, q)
  OBVIOUS
<1>6. r = Value(L2, st, p, k)
  <2>1. r = sched_addprioritized(Refiled(s, t, n), t, l)
    <3>1. s.st[t] = l
      BY <1>1
    <3>2. r = sched_addprioritized([s EXCEPT !.list[l] = RemoveFirst(@, t), !.pri[t] = n], t, l)
      BY <1>4, <3>1 DEF sched_setpriority
    <3> QED BY <3>1, <3>2 DEF Refiled
  <2>2. Refiled(s, t, n) = Value(L1, st, p, k)
    <3>1. Refiled(Value(L, st, pri, k), t, n)
            = Value(Upd(L, st[t], RemoveFirst(L[st[t]], t)), st, Upd(pri, t, n), k)
      BY RefiledValue
    <3>2. st[t] = l /\ Upd(pri, t, n) = p
      BY <1>1
    <3>3. L1 = Upd(L, l, RemoveFirst(L[l], t))
      BY <1>5
    <3> QED BY <1>2, <3>1, <3>2, <3>3
  <2>3. sched_addprioritized(Value(L1, st, p, k), t, l) = Value(Upd(L1, l, InsertFrom(L1[l], 1, t, p)), st, p, k)
    BY AddPrioritizedValue
  <2> QED BY <1>5, <2>1, <2>2, <2>3
<1>7. /\ Placed(L1, st1, pri) /\ Where(st1) = Upd(Where(st), t, "INVALID")
      /\ Head(L1["READY"]) = Head(L["READY"])
  BY <1>3, <1>4, <1>5, TakeOther
<1>8. Where(st) \in [Task -> Lists \cup {"INVALID"}] /\ Where(st)[t] = l
  BY <1>3, <1>4, WhereType
<1>9. Where(st1)[t] = "INVALID" /\ st1[t] = "INVALID"
  BY <1>3, <1>5, <1>7, <1>8 DEF Upd
<1>10. Placed(L1, st1, p)
  <2>1. Where(st1)[t] \notin Prioritized
    BY <1>9, ListNames
  <2>2. p = Upd(pri, t, n)
    BY <1>1
  <2> QED BY <1>7, <2>1, <2>2, PlacedRetune
<1>11. Joined(q, L1[l], t, p)
  <2>1. Once(L1[l]) /\ ToSet(L1[l]) = {u \in Task : Where(st1)[u] = l} /\ Descends(L1[l], p) /\ p \in Priorities
    BY <1>4, <1>10 DEF Placed
  <2>2. t \notin ToSet(L1[l])
    BY <1>4, <1>9, <2>1, ListNames
  <2> QED BY <1>5, <2>1, <2>2, InsertJoins
<1>12. /\ Placed(Upd(L1, l, q), Upd(st1, t, l), p)
       /\ Head(Upd(L1, l, q)["READY"]) = Head(L1["READY"])
  <2>1. Once(q) /\ ToSet(q) = ToSet(L1[l]) \cup {t} /\ Descends(q, p)
    BY <1>11 DEF Joined
  <2> QED BY <1>4, <1>9, <1>10, <2>1, PutOther
<1>13. Upd(st1, t, l) = st
  BY <1>3, <1>4, <1>5 DEF Upd
<1>14. Placed(L2, st, p) /\ Head(L2["READY"]) = Head(L["READY"])
  BY <1>5, <1>7, <1>12, <1>13
<1>15. Good(r) /\ r.list = L2 /\ r.st = st /\ r.pri = p
  BY <1>3, <1>6, <1>14, GoodValue
<1>16. Good(r) /\ Where(r.st) = Where(s.st) /\ r.pri = p /\ First(r) = First(s)
  BY <1>1, <1>14, <1>15 DEF First
<1>17. Where(s.st) \in WhereTo /\ First(s) \in Task /\ p \in Priorities
  <2>1. p \in Priorities
    BY <1>10 DEF Placed
  <2> QED BY <2>1, GoodView DEF WhereTo
<1>18. t # First(s) /\ Where(s.st)[t] # "READY"
  <2>1. Where(s.st)[t] # "READY"
    BY <1>1, <1>4, <1>8
  <2> QED BY <2>1, GoodView
<1>19. <<First(s), Where(s.st)>> \in Abs!AfterReprioritize(First(s), Where(s.st), p, lockcount, {t})
  BY <1>17, <1>18, StayAllowed
<1> QED BY <1>16, <1>19 DEF Allowed, Outcome

LEMMA SetPriorityAllowed ==
    ASSUME NEW s, Good(s), NEW t \in Task \ {Idle}, NEW n \in 1 .. MaxPrio, lockcount \in [Task -> Nat],
           NEW r, r = sched_setpriority(s, t, n), NEW p, p = Upd(s.pri, t, n)
    PROVE  Allowed(r, Abs!AfterReprioritize(First(s), Where(s.st), p, lockcount, {t}), p)
<1>1. CASE s.st[t] = "RUNNING"
  BY <1>1, RunningAllowed
<1>2. CASE s.st[t] = "READY"
  BY <1>2, ReadyAllowed
<1>3. CASE s.st[t] \in Prioritized \ {"READY"}
  BY <1>3, OrderedAllowed
<1>4. CASE s.st[t] \notin Prioritized /\ s.st[t] # "RUNNING"
  BY <1>4, UnorderedAllowed
<1> QED BY <1>1, <1>2, <1>3, <1>4

-----------------------------------------------------------------------------
(***************************************************************************)
(* Task creation, exit and the release of the scheduler lock.              *)
(***************************************************************************)
Created(s, t, n) == [s EXCEPT !.list["INACTIVE"] = Append(@, t), !.st[t] = "INACTIVE", !.pri[t] = n]

LEMMA CreatedValue ==
    ASSUME NEW L, NEW st, NEW pri, NEW k, NEW t, NEW n
    PROVE  Created(Value(L, st, pri, k), t, n)
             = Value(Upd(L, "INACTIVE", Append(L["INACTIVE"], t)), Upd(st, t, "INACTIVE"), Upd(pri, t, n), k)
<1> DEFINE s == Value(L, st, pri, k)
           A == Upd(L, "INACTIVE", Append(L["INACTIVE"], t))
           B == Upd(st, t, "INACTIVE")
           C == Upd(pri, t, n)
<1> HIDE DEF s
<1>1. s.list = L
  BY ValueFields DEF s
<1>2. [s EXCEPT !.list["INACTIVE"] = Append(@, t)] = SetList(s, A)
  BY Zenon, <1>1 DEF SetList, Upd
<1> HIDE DEF A
<1>3. SetList(s, A) = Value(A, st, pri, k)
  BY ValueUpdates DEF s
<1>4. SetList(s, A).st = st
  BY <1>3, ValueFields
<1>5. [s EXCEPT !.list["INACTIVE"] = Append(@, t), !.st[t] = "INACTIVE"] = SetState(SetList(s, A), B)
  BY Zenon, <1>2, <1>4 DEF SetState, Upd
<1> HIDE DEF B
<1>6. SetState(SetList(s, A), B) = Value(A, B, pri, k)
  BY <1>3, ValueUpdates
<1>7. SetState(SetList(s, A), B).pri = pri
  BY <1>6, ValueFields
<1>8. Created(s, t, n) = SetPri(SetState(SetList(s, A), B), C)
  BY Zenon, <1>5, <1>7 DEF Created, SetPri, Upd
<1> HIDE DEF C
<1>9. SetPri(SetState(SetList(s, A), B), C) = Value(A, B, C, k)
  BY <1>6, ValueUpdates
<1> QED BY <1>8, <1>9 DEF s, A, B, C

LEMMA CreatedGood ==
    ASSUME NEW s, Good(s), NEW t \in Task, s.st[t] = "INVALID", NEW n \in 1 .. MaxPrio, NEW r, r = Created(s, t, n)
    PROVE  Reached(r, Upd(Where(s.st), t, "INACTIVE"), Upd(s.pri, t, n)) /\ First(r) = First(s) /\ t # Idle
<1>1. PICK L, st, pri, k : L = s.list /\ st = s.st /\ pri = s.pri /\ k = s.ok
  OBVIOUS
<1>2. s = Value(L, st, pri, k)
  BY <1>1, GoodFields
<1>3. Holds(k) /\ Placed(L, st, pri) /\ st \in [Task -> States]
  BY <1>1, GoodFields
<1>4. t # Idle
  <2>1. Where(s.st)[t] = "INVALID"
    BY GoodStates
  <2> QED BY <2>1, GoodView
<1>5. PICK L1, q, st1, p :
        /\ q = Append(L["INACTIVE"], t)
        /\ L1 = Upd(L, "INACTIVE", q)
        /\ st1 = Upd(st, t, "INACTIVE")
        /\ p = Upd(pri, t, n)
  OBVIOUS
<1>6. r = Value(L1, st1, p, k)
  <2>1. r = Created(Value(L, st, pri, k), t, n)
    BY <1>2
  <2> QED BY <1>5, <2>1, CreatedValue
<1>7. "INACTIVE" \in Lists /\ "INACTIVE" \notin Prioritized /\ "INVALID" \notin Lists
  BY ListNames
<1>8. Once(q) /\ ToSet(q) = ToSet(L["INACTIVE"]) \cup {t}
  <2>1. Once(L["INACTIVE"]) /\ ToSet(L["INACTIVE"]) = {u \in Task : Where(st)[u] = "INACTIVE"}
    BY <1>3, <1>7 DEF Placed
  <2>2. Where(st)[t] = "INVALID"
    BY <1>1, GoodStates
  <2>3. t \notin ToSet(L["INACTIVE"])
    BY <2>1, <2>2
  <2> QED BY <1>5, <2>1, <2>3, AppendJoins
<1>9. /\ Placed(L1, st1, pri) /\ Where(st1) = Upd(Where(st), t, "INACTIVE")
      /\ Head(L1["READY"]) = Head(L["READY"])
  <2>1. st[t] = "INVALID"
    BY <1>1
  <2> QED BY <1>3, <1>5, <1>7, <1>8, <2>1, PutOther
<1>10. Placed(L1, st1, p)
  <2>1. Where(st1)[t] = "INACTIVE"
    <3>1. Where(st) \in [Task -> Lists \cup {"INVALID"}]
      BY <1>3, WhereType
    <3> QED BY <1>9, <3>1 DEF Upd
  <2>2. Where(st1)[t] \notin Prioritized
    BY <1>7, <2>1
  <2> QED BY <1>4, <1>5, <1>9, <2>2, PlacedRetune
<1>11. Good(r) /\ r.list = L1 /\ r.st = st1 /\ r.pri = p
  BY <1>3, <1>6, <1>10, GoodValue
<1> QED BY <1>1, <1>4, <1>5, <1>9, <1>11 DEF Reached, First

\* With no task pending there is nothing to merge.
LEMMA NonePending ==
    ASSUME NEW s, Good(s), \A t \in Task : Where(s.st)[t] # "PENDING"
    PROVE  /\ Abs!Merged(Where(s.st)) = Where(s.st)
           /\ First(s) \in Abs!Highest(Abs!Runnable(Where(s.st)), s.pri)
           /\ Outcome(s) \in Abs!AfterBlock(Where(s.st), s.pri)
<1>1. PICK w, p, h : w = Where(s.st) /\ p = s.pri /\ h = First(s)
  OBVIOUS
<1>2. /\ w \in WhereTo /\ h \in Task /\ w[h] = "READY"
      /\ \A t \in Task : w[t] = "READY" => p[t] <= p[h]
  BY <1>1, GoodView DEF WhereTo
<1>3. \A t \in Task : w[t] # "PENDING"
  BY <1>1
<1>4. Abs!Merged(w) = w
  BY <1>2, <1>3 DEF Abs!Merged, WhereTo
<1>5. h \in Abs!Highest(Abs!Runnable(w), p)
  BY <1>2, <1>3 DEF Abs!Highest, Abs!Runnable
<1>6. <<h, w>> \in Abs!AfterBlock(w, p)
  BY <1>4, <1>5 DEF Abs!AfterBlock
<1> QED BY <1>1, <1>4, <1>5, <1>6 DEF Outcome

\* The pending list is empty when no task is pending.
LEMMA PendingList ==
    ASSUME NEW s, Good(s)
    PROVE  s.list["PENDING"] = <<>> <=> \A t \in Task : Where(s.st)[t] # "PENDING"
<1>1. PICK q : q = s.list["PENDING"]
  OBVIOUS
<1>2. Once(q) /\ ToSet(q) = {t \in Task : Where(s.st)[t] = "PENDING"}
  <2>1. Placed(s.list, s.st, s.pri)
    BY GoodFields
  <2>2. "PENDING" \in Lists
    BY ListNames
  <2> QED BY <1>1, <2>1, <2>2 DEF Placed
<1>3. q \in Seq(Task)
  BY <1>2 DEF Once
<1>4. q = <<>> <=> ToSet(q) = {}
  <2>1. Len(q) \in Nat /\ DOMAIN q = 1 .. Len(q)
    BY <1>3
  <2>2. CASE q = <<>>
    <3>1. ToSet(<<>>) = {}
      BY DEF ToSet
    <3> QED BY <2>2, <3>1
  <2>3. CASE q # <<>>
    <3>1. 1 \in 1 .. Len(q)
      BY <1>3, <2>1, <2>3
    <3>2. q[1] \in ToSet(q)
      BY <2>1, <3>1 DEF ToSet
    <3> QED BY <2>3, <3>2
  <2> QED BY <2>2, <2>3
<1> QED BY <1>1, <1>2, <1>4

\* _exit of the running task.
LEMMA ExitAllowed ==
    ASSUME NEW s, Good(s), First(s) # Idle, NEW a, a = sched_removereadytorun(s, First(s)),
           NEW r, r = IF s.list["PENDING"] # <<>> THEN sched_mergepending(a) ELSE a
    PROVE  Allowed(r, Abs!AfterBlock(Upd(Where(s.st), First(s), "INVALID"), s.pri), s.pri)
<1>1. PICK t : t = First(s)
  OBVIOUS
<1>2. t \in Task \ {Idle} /\ Where(s.st)[t] = "READY" /\ Where(s.st) \in WhereTo
  BY <1>1, GoodView DEF WhereTo
<1>3. Good(a) /\ Where(a.st) = Upd(Where(s.st), t, "INVALID") /\ a.pri = s.pri
  BY <1>1, <1>2, RemoveReadyLeaves
<1>4. CASE s.list["PENDING"] # <<>>
  <2>1. r = sched_mergepending(a)
    BY <1>4
  <2>2. Allowed(r, Abs!AfterBlock(Where(a.st), a.pri), a.pri)
    BY <1>3, <2>1, MergeBlocks
  <2> QED BY <1>1, <1>3, <2>2
<1>5. CASE s.list["PENDING"] = <<>>
  <2>1. r = a
    BY <1>5
  <2>2. \A u \in Task : Where(s.st)[u] # "PENDING"
    BY <1>5, PendingList
  <2>3. \A u \in Task : Where(a.st)[u] # "PENDING"
    BY <1>2, <1>3, <2>2 DEF Upd, WhereTo
  <2>4. Outcome(a) \in Abs!AfterBlock(Where(a.st), a.pri)
    BY <1>3, <2>3, NonePending
  <2> QED BY <1>1, <1>3, <2>1, <2>4 DEF Allowed
<1> QED BY <1>4, <1>5

\* The end of sched_unlock, lc being the lock counts then.
LEMMA UnlockAllowed ==
    ASSUME NEW s, Good(s), NEW lc, lc \in [Task -> Nat],
           NEW r, r = IF lc[First(s)] = 0 /\ s.list["PENDING"] # <<>> THEN sched_mergepending(s) ELSE s
    PROVE  Allowed(r, Abs!AfterUnlock(First(s), Where(s.st), s.pri, lc), s.pri)
<1>1. PICK w, c, p : w = Where(s.st) /\ c = First(s) /\ p = s.pri
  OBVIOUS
<1>2. c \in Task /\ lc[c] \in Nat
  BY <1>1, GoodView
<1>3. CASE lc[c] # 0
  <2>1. r = s
    BY <1>1, <1>3
  <2>2. <<c, w>> \in Abs!AfterUnlock(c, w, p, lc)
    BY <1>2, <1>3 DEF Abs!AfterUnlock
  <2> QED BY <1>1, <2>1, <2>2 DEF Allowed, Outcome
<1>4. CASE lc[c] = 0 /\ s.list["PENDING"] = <<>>
  <2>1. r = s
    BY <1>1, <1>4
  <2>2. \A u \in Task : Where(s.st)[u] # "PENDING"
    BY <1>4, PendingList
  <2>3. Abs!Merged(w) = w /\ c \in Abs!Highest(Abs!Runnable(w), p)
    BY <1>1, <2>2, NonePending
  <2>4. <<c, w>> \in Abs!AfterUnlock(c, w, p, lc)
    BY <1>4, <2>3 DEF Abs!AfterUnlock
  <2> QED BY <1>1, <2>1, <2>4 DEF Allowed, Outcome
<1>5. CASE lc[c] = 0 /\ s.list["PENDING"] # <<>>
  <2>1. r = sched_mergepending(s)
    BY <1>1, <1>5
  <2>2. Allowed(r, Abs!AfterBlock(w, p), p)
    BY <1>1, <2>1, MergeBlocks
  <2>3. CASE c \notin Abs!Highest(Abs!Runnable(w), p)
    <3>1. Abs!AfterUnlock(c, w, p, lc) = Abs!AfterBlock(w, p)
      BY <1>5, <2>3 DEF Abs!AfterUnlock
    <3> QED BY <1>1, <2>2, <3>1
  <2>4. CASE c \in Abs!Highest(Abs!Runnable(w), p)
    <3>1. ASSUME NEW u \in Task, s.st[u] = "PENDING" PROVE s.pri[u] <= s.pri[First(s)]
      <4>1. w[u] = "PENDING"
        BY <1>1, <3>1, GoodStates
      <4>2. u \in Abs!Runnable(w)
        BY <4>1 DEF Abs!Runnable
      <4> QED BY <1>1, <2>4, <4>2 DEF Abs!Highest
    <3>2. First(r) = c /\ Where(r.st) = Abs!Merged(w) /\ Good(r) /\ r.pri = p
      BY <1>1, <2>1, <3>1, MergePendingGood DEF Reached
    <3>3. <<c, Abs!Merged(w)>> \in Abs!AfterUnlock(c, w, p, lc)
      BY <1>5, <2>4 DEF Abs!AfterUnlock
    <3> QED BY <1>1, <3>2, <3>3 DEF Allowed, Outcome
  <2> QED BY <2>3, <2>4
<1> QED BY <1>3, <1>4, <1>5

-----------------------------------------------------------------------------
(***************************************************************************)
(* The inductive invariant.  Apart from the lists being in order: a task   *)
(* waits in g_pendingtasks only while the running task holds the scheduler *)
(* lock, and a call of sched_setparam or sched_setscheduler that is not    *)
(* over holds the lock of its caller.  Until the priority is set, the      *)
(* caller runs and the task it names exists; that task is not the idle     *)
(* task, whose priority and policy never change.                           *)
(***************************************************************************)
CallRecords ==
    [pc : {"run", "locked", "reprioritized"}, tcb : Task, pri : 0 .. MaxPrio, policy : {"none", "FIFO", "RR"}]

Waits(h, w, lc) == \A t \in Task : w[t] = "PENDING" => lc[h] > 0

InCall(t, c, h, w, lc) ==
    /\ c.pc # "run" => lc[t] > 0 /\ w[t] # "INVALID" /\ c.tcb # Idle /\ c.pri # 0
    /\ c.pc = "locked" => t = h /\ w[c.tcb] # "INVALID"

Linked(h, w, lc, cl) == Waits(h, w, lc) /\ \A t \in Task : InCall(t, cl[t], h, w, lc)

TcbTypes(base, lc, rb, ts, cl) ==
    /\ base \in Priorities
    /\ lc \in [Task -> 0 .. MaxLock]
    /\ rb \in [Task -> BOOLEAN] /\ ~rb[Idle]
    /\ ts \in [Task -> 0 .. Slice]
    /\ cl \in [Task -> CallRecords]

SchedInv ==
    /\ Good(S)
    /\ TcbTypes(base_priority, lockcount, rr, timeslice, call)
    /\ Linked(head, Where(task_state), lockcount, call)

LEMMA Bounds == MaxPrio \in Nat /\ MaxLock \in Nat /\ Slice \in Nat /\ MaxPrio > 0 /\ MaxLock > 0 /\ Slice > 0
BY ListConstants

LEMMA CurrentValue ==
    /\ S.list = list /\ S.st = task_state /\ S.pri = sched_priority /\ S.ok = ok
    /\ First(S) = head
BY DEF S, First, head

\* What the invariant says of the current value.
LEMMA Current ==
    ASSUME SchedInv
    PROVE  /\ Good(S) /\ First(S) = head /\ S.list = list /\ S.st = task_state /\ S.pri = sched_priority
           /\ head \in Task /\ Where(task_state) \in WhereTo /\ sched_priority \in Priorities
           /\ Where(task_state)[head] = "READY" /\ Where(task_state)[Idle] = "READY"
           /\ lockcount \in [Task -> Nat] /\ lockcount \in [Task -> 0 .. MaxLock]
           /\ Linked(head, Where(task_state), lockcount, call)
<1>1. Good(S) /\ lockcount \in [Task -> 0 .. MaxLock] /\ Linked(head, Where(task_state), lockcount, call)
  BY DEF SchedInv, TcbTypes
<1>2. lockcount \in [Task -> Nat]
  BY <1>1, Bounds
<1>3. /\ First(S) \in Task /\ S.pri \in Priorities /\ Where(S.st) \in WhereTo
      /\ Where(S.st)[First(S)] = "READY" /\ Where(S.st)[Idle] = "READY"
  BY <1>1, GoodView DEF WhereTo
<1> QED BY <1>1, <1>2, <1>3, CurrentValue

LEMMA NextValue ==
    ASSUME NEW r, Good(r), Becomes(r)
    PROVE  /\ Good(S)' /\ Good(S') /\ head' = First(r)
           /\ list' = r.list /\ task_state' = r.st /\ sched_priority' = r.pri
           /\ Outcome(S') = Outcome(r)
<1>1. list' = r.list /\ task_state' = r.st /\ sched_priority' = r.pri /\ ok' = r.ok
  BY DEF Becomes
<1>2. r = Value(r.list, r.st, r.pri, r.ok)
  BY GoodFields
<1>3. S' = Value(list', task_state', sched_priority', ok')
  BY DEF S, Value
<1>4. S' = r
  BY <1>1, <1>2, <1>3
<1>5. head' = First(r)
  BY <1>1 DEF head, First
<1> QED BY <1>1, <1>4, <1>5

\* The running task and the lists become an allowed result.
LEMMA AllowedStep ==
    ASSUME NEW r, NEW R, NEW p, Allowed(r, R, p), Becomes(r)
    PROVE  /\ Good(S)' /\ sched_priority' = p
           /\ <<head', Where(task_state')>> \in R
           /\ \E x \in R : head' = x[1] /\ Where(task_state') = x[2]
<1>1. Good(r) /\ r.pri = p /\ <<First(r), Where(r.st)>> \in R
  BY DEF Allowed, Outcome
<1>2. Good(S)' /\ head' = First(r) /\ task_state' = r.st /\ sched_priority' = r.pri
  BY <1>1, NextValue
<1>3. <<head', Where(task_state')>> \in R
  BY <1>1, <1>2
<1>4. PICK x : x = <<head', Where(task_state')>>
  OBVIOUS
<1>5. x \in R /\ head' = x[1] /\ Where(task_state') = x[2]
  BY <1>3, <1>4
<1> QED BY <1>1, <1>2, <1>3, <1>5

-----------------------------------------------------------------------------
(***************************************************************************)
(* Where the tasks are after the steps of SchedAbs.                        *)
(***************************************************************************)
\* No task is created or deleted.
SameTasks(w1, w) == \A t \in Task : w1[t] = "INVALID" <=> w[t] = "INVALID"

LEMMA BlockResult ==
    ASSUME NEW w, NEW p, NEW h, NEW w1, <<h, w1>> \in Abs!AfterBlock(w, p)
    PROVE  SameTasks(w1, w) /\ \A t \in Task : w1[t] # "PENDING"
<1>1. w1 = Abs!Merged(w)
  BY DEF Abs!AfterBlock
<1> QED BY <1>1 DEF Abs!Merged, SameTasks

LEMMA UnlockResult ==
    ASSUME NEW c \in Task, NEW w, NEW p, NEW lc \in [Task -> Nat],
           NEW h, NEW w1, <<h, w1>> \in Abs!AfterUnlock(c, w, p, lc)
    PROVE  SameTasks(w1, w) /\ Waits(h, w1, lc)
<1>1. CASE lc[c] > 0
  <2>1. h = c /\ w1 = w
    BY <1>1 DEF Abs!AfterUnlock
  <2> QED BY <1>1, <2>1 DEF SameTasks, Waits
<1>2. CASE ~(lc[c] > 0)
  <2>1. w1 = Abs!Merged(w)
    BY <1>2 DEF Abs!AfterUnlock, Abs!AfterBlock
  <2> QED BY <2>1 DEF Abs!Merged, SameTasks, Waits
<1> QED BY <1>1, <1>2

LEMMA ReprioritizeResult ==
    ASSUME NEW c \in Task, NEW w, NEW p, NEW lc \in [Task -> Nat], NEW T, Waits(c, w, lc),
           NEW h, NEW w1, <<h, w1>> \in Abs!AfterReprioritize(c, w, p, lc, T)
    PROVE  SameTasks(w1, w) /\ Waits(h, w1, lc)
<1>1. CASE w1 = Abs!Merged(w)
  BY <1>1 DEF Abs!Merged, SameTasks, Waits
<1>2. CASE w1 # Abs!Merged(w)
  <2>1. /\ h = c /\ w1 = Abs!HeldOff(c, w, p, T)
        /\ ~(lc[c] = 0 /\ Abs!Raised(c, w, p, T) # {})
    BY <1>2 DEF Abs!AfterReprioritize, Abs!AfterBlock
  <2>2. ASSUME NEW t \in Task, w1[t] = "PENDING" PROVE lc[c] > 0
    <3>1. CASE t \in Abs!Raised(c, w, p, T)
      <4>1. lc[c] \in Nat /\ lc[c] # 0
        BY <2>1, <3>1
      <4> QED BY <4>1
    <3>2. CASE t \notin Abs!Raised(c, w, p, T)
      <4>1. w[t] = "PENDING"
        BY <2>1, <2>2, <3>2 DEF Abs!HeldOff
      <4> QED BY <4>1 DEF Waits
    <3> QED BY <3>1, <3>2
  <2>3. SameTasks(w1, w)
    BY <2>1 DEF SameTasks, Abs!HeldOff, Abs!Raised, Abs!Others
  <2> QED BY <2>1, <2>2, <2>3 DEF Waits
<1> QED BY <1>1, <1>2

LEMMA UnblockResult ==
    ASSUME NEW c \in Task, NEW w \in WhereTo, NEW p \in Priorities, NEW lc \in [Task -> Nat], Waits(c, w, lc),
           NEW t \in Task, w[t] # "INVALID",
           NEW h, h = Abs!HeadAfterAdd(c, p, lc, t), NEW w1, w1 = Abs!AddReady(c, w, p, lc, t)
    PROVE  SameTasks(w1, w) /\ Waits(h, w1, lc) /\ (lc[c] > 0 => h = c)
<1>1. lc[c] \in Nat
  OBVIOUS
<1>2. SameTasks(w1, w)
  BY DEF SameTasks, Abs!AddReady, WhereTo
<1>3. lc[c] > 0 => h = c
  BY <1>1 DEF Abs!HeadAfterAdd
<1>4. ASSUME NEW u \in Task, w1[u] = "PENDING" PROVE lc[c] > 0
  <2>1. CASE u = t
    BY <1>4, <2>1 DEF Abs!AddReady, WhereTo
  <2>2. CASE u # t
    <3>1. w[u] = "PENDING"
      BY <1>4, <2>2 DEF Abs!AddReady, WhereTo
    <3> QED BY <3>1 DEF Waits
  <2> QED BY <2>1, <2>2
<1> QED BY <1>2, <1>3, <1>4 DEF Waits

\* No call has yet to set its priority when the running task is in no call.
LEMMA NoneLocked ==
    ASSUME SchedInv, InTask
    PROVE  \A t \in Task : call[t].pc # "locked"
BY Current DEF InTask, Linked, InCall

LEMMA LinkedKept ==
    ASSUME NEW h, NEW w, NEW lc, NEW cl, Linked(h, w, lc, cl), NEW h1, NEW w1, NEW lc1,
           \A t \in Task : cl[t].pc # "locked",
           \A t \in Task : cl[t].pc # "run" => (w[t] # "INVALID" => w1[t] # "INVALID") /\ (lc[t] > 0 => lc1[t] > 0),
           Waits(h1, w1, lc1)
    PROVE  Linked(h1, w1, lc1, cl)
BY DEF Linked, InCall

-----------------------------------------------------------------------------
(***************************************************************************)
(* One step per action: the invariant is kept, and SchedAbs allows it.     *)
(***************************************************************************)
LEMMA SameValue ==
    ASSUME SchedInv, UNCHANGED <<list, task_state, sched_priority, ok>>
    PROVE  /\ Good(S)' /\ head' = head
           /\ Where(task_state)' = Where(task_state)
           /\ sched_priority' = sched_priority
<1>1. Good(S) /\ S' = S
  BY DEF SchedInv, S
<1>2. Good(S)'
  BY <1>1
<1>3. head' = head /\ Where(task_state)' = Where(task_state)
  BY DEF head, Where
<1> QED BY <1>2, <1>3

LEMMA LockStep ==
    ASSUME SchedInv, SchedLock
    PROVE  SchedInv' /\ Abs!Lock
<1>1. PICK c, w, lc : c = head /\ w = Where(task_state) /\ lc = lockcount
  OBVIOUS
<1>2. /\ c \in Task /\ lc \in [Task -> 0 .. MaxLock] /\ lc \in [Task -> Nat] /\ lc[c] < MaxLock
      /\ lockcount' = Upd(lc, c, lc[c] + 1)
      /\ UNCHANGED <<list, task_state, sched_priority, ok>>
      /\ UNCHANGED <<base_priority, rr, timeslice, call>>
  BY <1>1, Current DEF SchedLock, Upd
<1>3. Good(S)' /\ head' = c /\ Where(task_state)' = w /\ sched_priority' = sched_priority
  BY <1>1, <1>2, SameValue
<1>4. lockcount' \in [Task -> 0 .. MaxLock]
  <2>1. lc[c] + 1 \in 0 .. MaxLock
    BY <1>2, Bounds
  <2> QED BY <1>2, <2>1 DEF Upd
<1>5. TcbTypes(base_priority, lockcount, rr, timeslice, call)'
  BY <1>2, <1>4 DEF SchedInv, TcbTypes
<1>6. Linked(head, Where(task_state), lockcount, call)'
  <2>1. Linked(c, w, lc, call)
    BY <1>1, Current
  <2>2. \A t \in Task : call[t].pc # "locked"
    BY NoneLocked DEF SchedLock
  <2>3. \A t \in Task : lc[t] > 0 => lockcount'[t] > 0
    BY <1>2 DEF Upd
  <2>4. Waits(c, w, lockcount')
    BY <1>2 DEF Waits, Upd
  <2>5. Linked(c, w, lockcount', call)
    BY <2>1, <2>2, <2>3, <2>4, LinkedKept
  <2> QED BY <1>2, <1>3, <2>5
<1>7. Abs!Lock
  BY <1>1, <1>2, <1>3 DEF Abs!Lock, Where, Upd
<1> QED BY <1>3, <1>5, <1>6, <1>7 DEF SchedInv

LEMMA UnlockShared ==
    ASSUME SchedInv, lockcount[head] > 0, sched_unlock
    PROVE  /\ Good(S)' /\ lockcount' \in [Task -> 0 .. MaxLock]
           /\ \A t \in Task \ {head} : lockcount'[t] = lockcount[t]
           /\ Waits(head', Where(task_state'), lockcount')
           /\ SameTasks(Where(task_state'), Where(task_state))
           /\ Abs!Unlock
<1>1. PICK c, w, p, lc, lc1 :
        c = head /\ w = Where(task_state) /\ p = sched_priority /\ lc = lockcount /\ lc1 = lockcount'
  OBVIOUS
<1>2. /\ Good(S) /\ First(S) = c /\ Where(S.st) = w /\ S.pri = p /\ S.list = list
      /\ c \in Task /\ lc \in [Task -> 0 .. MaxLock] /\ lc \in [Task -> Nat]
  BY <1>1, Current
<1>3. lc[c] \in Nat /\ lc[c] > 0 /\ lc[c] \in 0 .. MaxLock
  BY <1>1, <1>2
<1>4. lc1 = Upd(lc, c, lc[c] - 1)
  BY <1>1, <1>3 DEF sched_unlock, Upd
<1>5. lc1 \in [Task -> 0 .. MaxLock] /\ lc1 \in [Task -> Nat] /\ lc1[c] = lc[c] - 1
  <2>1. lc[c] - 1 \in 0 .. MaxLock /\ lc[c] - 1 \in Nat
    BY <1>3, Bounds
  <2> QED BY <1>2, <1>4, <2>1 DEF Upd
<1>6. PICK r : r = IF lc1[First(S)] = 0 /\ S.list["PENDING"] # <<>> THEN sched_mergepending(S) ELSE S
  OBVIOUS
<1>7. Becomes(r)
  <2>1. lockcount[head] <= 1 <=> lc1[First(S)] = 0
    BY <1>1, <1>2, <1>3, <1>5
  <2>2. r = IF lockcount[head] <= 1 /\ list["PENDING"] # <<>> THEN up_release_pending(S) ELSE S
    BY <1>2, <1>6, <2>1 DEF up_release_pending
  <2> QED BY <2>2 DEF sched_unlock
<1>8. Allowed(r, Abs!AfterUnlock(c, w, p, lc1), p)
  BY <1>2, <1>5, <1>6, UnlockAllowed
<1>9. PICK R : R = Abs!AfterUnlock(c, w, p, lc1)
  OBVIOUS
<1>10. /\ Good(S)' /\ sched_priority' = p
       /\ <<head', Where(task_state')>> \in R
       /\ \E x \in R : head' = x[1] /\ Where(task_state') = x[2]
  <2>1. Allowed(r, R, p)
    BY <1>8, <1>9
  <2> QED BY <1>7, <2>1, AllowedStep
<1>11. SameTasks(Where(task_state'), w) /\ Waits(head', Where(task_state'), lc1)
  <2>1. <<head', Where(task_state')>> \in Abs!AfterUnlock(c, w, p, lc1)
    BY <1>9, <1>10
  <2> QED BY <1>2, <1>5, <2>1, UnlockResult
<1>12. Abs!Unlock
  <2>1. R = Abs!AfterUnlock(head, [t \in Task |-> IF task_state[t] = "RUNNING" THEN "READY" ELSE task_state[t]],
                            sched_priority, lockcount')
    BY <1>1, <1>9 DEF Where
  <2>2. lockcount' = [lockcount EXCEPT ![head] = @ - 1]
    BY <1>1, <1>4 DEF Upd
  <2>3. \E x \in Abs!AfterUnlock(head,
            [t \in Task |-> IF task_state[t] = "RUNNING" THEN "READY" ELSE task_state[t]], sched_priority, lockcount') :
          head' = x[1] /\ Where(task_state') = x[2]
    BY <1>10, <2>1
  <2>4. UNCHANGED sched_priority
    BY <1>1, <1>10
  <2> QED BY <2>2, <2>3, <2>4 DEF Abs!Unlock, Abs!Switch, Where
<1>13. \A t \in Task \ {head} : lockcount'[t] = lockcount[t]
  BY <1>1, <1>2, <1>4 DEF Upd
<1> QED BY <1>1, <1>5, <1>10, <1>11, <1>12, <1>13

LEMMA UnlockStep ==
    ASSUME SchedInv, SchedUnlock
    PROVE  SchedInv' /\ Abs!Unlock
<1>1. lockcount[head] > 0 /\ sched_unlock /\ InTask /\ UNCHANGED <<base_priority, rr, timeslice, call>>
  BY DEF SchedUnlock
<1>2. /\ Good(S)' /\ lockcount' \in [Task -> 0 .. MaxLock]
      /\ \A t \in Task \ {head} : lockcount'[t] = lockcount[t]
      /\ Waits(head', Where(task_state'), lockcount')
      /\ SameTasks(Where(task_state'), Where(task_state))
      /\ Abs!Unlock
  BY <1>1, UnlockShared
<1>3. TcbTypes(base_priority, lockcount, rr, timeslice, call)'
  BY <1>1, <1>2 DEF SchedInv, TcbTypes
<1>4. Linked(head, Where(task_state), lockcount, call)'
  <2>1. Linked(head, Where(task_state), lockcount, call)
    BY DEF SchedInv
  <2>2. \A t \in Task : call[t].pc # "locked"
    BY <1>1, NoneLocked
  <2>3. \A t \in Task : call[t].pc # "run" =>
          (Where(task_state)[t] # "INVALID" => Where(task_state')[t] # "INVALID") /\ (lockcount[t] > 0 => lockcount'[t] > 0)
    <3>1. call[head].pc = "run"
      BY <1>1 DEF InTask
    <3> QED BY <1>2, <3>1 DEF SameTasks
  <2>4. Linked(head', Where(task_state'), lockcount', call)
    BY <1>2, <2>1, <2>2, <2>3, LinkedKept
  <2> QED BY <1>1, <2>4
<1> QED BY <1>2, <1>3, <1>4 DEF SchedInv

\* The steps of the running task that only move tasks.
LEMMA MoveLinked ==
    ASSUME SchedInv, InTask, SameTasks(Where(task_state'), Where(task_state)),
           Waits(head', Where(task_state'), lockcount), UNCHANGED <<lockcount, call>>
    PROVE  Linked(head, Where(task_state), lockcount, call)'
<1>1. Linked(head, Where(task_state), lockcount, call)
  BY DEF SchedInv
<1>2. \A t \in Task : call[t].pc # "locked"
  BY NoneLocked
<1>3. \A t \in Task : call[t].pc # "run" =>
        (Where(task_state)[t] # "INVALID" => Where(task_state')[t] # "INVALID") /\ (lockcount[t] > 0 => lockcount[t] > 0)
  BY DEF SameTasks
<1>4. Linked(head', Where(task_state'), lockcount, call)
  BY <1>1, <1>2, <1>3, LinkedKept
<1> QED BY <1>4

LEMMA BlockStep ==
    ASSUME SchedInv, BlockTask
    PROVE  SchedInv' /\ Abs!Block
<1>1. PICK l \in Blocked : Becomes(up_block_task(S, l))
  BY DEF BlockTask
<1>2. InTask /\ UNCHANGED <<base_priority, lockcount, rr, timeslice, call>> /\ head # Idle
  BY DEF BlockTask, InTask
<1>3. PICK c, w, p, r, R :
        /\ c = head /\ w = Where(task_state) /\ p = sched_priority /\ r = up_block_task(S, l)
        /\ R = Abs!AfterBlock(Upd(w, c, l), p)
  OBVIOUS
<1>4. Good(S) /\ First(S) = c /\ Where(S.st) = w /\ S.pri = p /\ c \in Task /\ w \in WhereTo /\ w[c] = "READY"
  BY <1>3, Current
<1>5. Allowed(r, R, p)
  <2>1. First(S) # Idle
    BY <1>2, <1>3, <1>4
  <2>2. Allowed(r, Abs!AfterBlock(Upd(Where(S.st), First(S), l), S.pri), S.pri)
    BY <1>3, <1>4, <2>1, BlockAllowed
  <2> QED BY <1>3, <1>4, <2>2
<1>6. /\ Good(S)' /\ sched_priority' = p
      /\ <<head', Where(task_state')>> \in R
      /\ \E x \in R : head' = x[1] /\ Where(task_state') = x[2]
  BY <1>1, <1>3, <1>5, AllowedStep
<1>7. SameTasks(Where(task_state'), Upd(w, c, l)) /\ \A t \in Task : Where(task_state')[t] # "PENDING"
  <2>1. <<head', Where(task_state')>> \in Abs!AfterBlock(Upd(w, c, l), p)
    BY <1>3, <1>6
  <2> QED BY <2>1, BlockResult
<1>8. SameTasks(Where(task_state'), w)
  <2>1. l # "INVALID"
    BY ListNames
  <2> QED BY <1>4, <1>7, <2>1 DEF SameTasks, Upd, WhereTo
<1>9. Linked(head, Where(task_state), lockcount, call)'
  <2>1. Waits(head', Where(task_state'), lockcount)
    BY <1>7 DEF Waits
  <2> QED BY <1>2, <1>3, <1>8, <2>1, MoveLinked
<1>10. TcbTypes(base_priority, lockcount, rr, timeslice, call)'
  BY <1>2 DEF SchedInv, TcbTypes
<1>11. Abs!Block
  <2>1. R = Abs!AfterBlock([[t \in Task |-> IF task_state[t] = "RUNNING" THEN "READY" ELSE task_state[t]]
                              EXCEPT ![head] = l], sched_priority)
    BY <1>3 DEF Where, Upd
  <2>2. \E x \in Abs!AfterBlock([[t \in Task |-> IF task_state[t] = "RUNNING" THEN "READY" ELSE task_state[t]]
                              EXCEPT ![head] = l], sched_priority) :
          head' = x[1] /\ Where(task_state') = x[2]
    BY <1>6, <2>1
  <2>3. UNCHANGED <<sched_priority, lockcount>> /\ head # Idle
    BY <1>2, <1>3, <1>6
  <2> QED BY <2>2, <2>3 DEF Abs!Block, Abs!Switch, Where
<1> QED BY <1>6, <1>9, <1>10, <1>11 DEF SchedInv

LEMMA PrioritySet ==
    ASSUME SchedInv, NEW t \in Task \ {Idle}, NEW n \in 1 .. MaxPrio, Where(task_state)[t] # "INVALID",
           NEW p, p = Upd(sched_priority, t, n),
           NEW r, Allowed(r, Abs!AfterReprioritize(head, Where(task_state), p, lockcount, {t}), p), Becomes(r),
           UNCHANGED lockcount
    PROVE  /\ Good(S)'
           /\ SameTasks(Where(task_state'), Where(task_state))
           /\ Waits(head', Where(task_state'), lockcount)
           /\ Abs!SetPriority
<1>1. PICK R : R = Abs!AfterReprioritize(head, Where(task_state), p, lockcount, {t})
  OBVIOUS
<1>2. /\ Good(S)' /\ sched_priority' = p
      /\ <<head', Where(task_state')>> \in R
      /\ \E x \in R : head' = x[1] /\ Where(task_state') = x[2]
  <2>1. Allowed(r, R, p)
    BY <1>1
  <2> QED BY <2>1, AllowedStep
<1>3. /\ head \in Task /\ lockcount \in [Task -> Nat] /\ Waits(head, Where(task_state), lockcount)
  BY Current DEF Linked
<1>4. SameTasks(Where(task_state'), Where(task_state)) /\ Waits(head', Where(task_state'), lockcount)
  <2>1. <<head', Where(task_state')>> \in Abs!AfterReprioritize(head, Where(task_state), p, lockcount, {t})
    BY <1>1, <1>2
  <2> QED BY <1>3, <2>1, ReprioritizeResult
<1>5. Abs!SetPriority
  <2>1. sched_priority' = [sched_priority EXCEPT ![t] = n]
    BY <1>2 DEF Upd
  <2>2. R = Abs!AfterReprioritize(head, [u \in Task |-> IF task_state[u] = "RUNNING" THEN "READY" ELSE task_state[u]],
                                  sched_priority', lockcount, {t})
    BY <1>1, <1>2 DEF Where
  <2>3. \E x \in Abs!AfterReprioritize(head, [u \in Task |-> IF task_state[u] = "RUNNING" THEN "READY" ELSE task_state[u]],
                                       sched_priority', lockcount, {t}) :
          head' = x[1] /\ Where(task_state') = x[2]
    BY <1>2, <2>2
  <2>4. [u \in Task |-> IF task_state[u] = "RUNNING" THEN "READY" ELSE task_state[u]][t] # "INVALID"
    BY DEF Where
  <2> QED BY <2>1, <2>3, <2>4 DEF Abs!SetPriority, Abs!Switch, Where
<1> QED BY <1>2, <1>4, <1>5

\* The running task, when it is not the idle task, has a priority to keep.
LEMMA KeepsPriority ==
    ASSUME SchedInv, head # Idle
    PROVE  /\ head \in Task \ {Idle} /\ sched_priority[head] \in 1 .. MaxPrio
           /\ Upd(sched_priority, head, sched_priority[head]) = sched_priority
           /\ Where(task_state)[head] # "INVALID"
<1>1. Good(S) /\ head \in Task /\ sched_priority \in Priorities /\ Where(task_state)[head] = "READY"
  BY Current
<1>2. sched_priority[head] # 0
  BY <1>1, GoodView, CurrentValue
<1>3. sched_priority[head] \in 1 .. MaxPrio
  BY <1>1, <1>2, Bounds DEF Priorities
<1>4. Upd(sched_priority, head, sched_priority[head]) = sched_priority
  BY <1>1 DEF Priorities, Upd
<1> QED BY <1>1, <1>3, <1>4

LEMMA YieldStep ==
    ASSUME SchedInv, SchedYield
    PROVE  SchedInv' /\ Abs!SetPriority
<1>1. /\ InTask /\ head # Idle /\ Becomes(sched_setpriority(S, head, sched_priority[head]))
      /\ UNCHANGED <<base_priority, lockcount, rr, timeslice, call>>
  BY DEF SchedYield, InTask
<1>2. PICK t, n, p, r :
        /\ t = head /\ n = sched_priority[head] /\ p = Upd(sched_priority, t, n)
        /\ r = sched_setpriority(S, t, n)
  OBVIOUS
<1>3. t \in Task \ {Idle} /\ n \in 1 .. MaxPrio /\ Where(task_state)[t] # "INVALID"
  BY <1>1, <1>2, KeepsPriority
<1>4. Allowed(r, Abs!AfterReprioritize(head, Where(task_state), p, lockcount, {t}), p)
  <2>1. /\ Good(S) /\ First(S) = head /\ S.st = task_state /\ p = Upd(S.pri, t, n)
        /\ lockcount \in [Task -> Nat]
    BY <1>2, Current
  <2>2. Allowed(r, Abs!AfterReprioritize(First(S), Where(S.st), p, lockcount, {t}), p)
    BY <1>2, <1>3, <2>1, SetPriorityAllowed
  <2> QED BY <2>1, <2>2
<1>5. Becomes(r)
  BY <1>1, <1>2
<1>6. /\ Good(S)'
      /\ SameTasks(Where(task_state'), Where(task_state))
      /\ Waits(head', Where(task_state'), lockcount)
      /\ Abs!SetPriority
  BY <1>1, <1>2, <1>3, <1>4, <1>5, PrioritySet
<1>7. Linked(head, Where(task_state), lockcount, call)'
  BY <1>1, <1>6, MoveLinked
<1>8. TcbTypes(base_priority, lockcount, rr, timeslice, call)'
  BY <1>1 DEF SchedInv, TcbTypes
<1> QED BY <1>6, <1>7, <1>8 DEF SchedInv

\* A call that enters the critical section.
LEMMA SetParamLockStep ==
    ASSUME SchedInv, NEW t \in Task, NEW n \in 1 .. MaxPrio, NEW policy \in Policies, SetParamLock(t, n, policy)
    PROVE  SchedInv' /\ Abs!Lock
<1>1. PICK c, w, lc, cl : c = head /\ w = Where(task_state) /\ lc = lockcount /\ cl = call
  OBVIOUS
<1>2. PICK rec : rec = [pc |-> "locked", tcb |-> t, pri |-> n, policy |-> policy]
  OBVIOUS
<1>3. /\ c \in Task /\ lc \in [Task -> 0 .. MaxLock] /\ lc \in [Task -> Nat] /\ lc[c] < MaxLock
      /\ lockcount' = Upd(lc, c, lc[c] + 1)
      /\ call' = Upd(cl, c, rec)
      /\ t # Idle /\ task_state[t] # "INVALID"
      /\ UNCHANGED <<list, task_state, sched_priority, ok>>
      /\ UNCHANGED <<base_priority, rr, timeslice>>
  BY <1>1, <1>2, Current DEF SetParamLock, Upd
<1>4. Good(S)' /\ head' = c /\ Where(task_state)' = w /\ sched_priority' = sched_priority
  BY <1>1, <1>3, SameValue
<1>5. lockcount' \in [Task -> 0 .. MaxLock]
  <2>1. lc[c] + 1 \in 0 .. MaxLock
    BY <1>3, Bounds
  <2> QED BY <1>3, <2>1 DEF Upd
<1>6. cl \in [Task -> CallRecords]
  BY <1>1 DEF SchedInv, TcbTypes
<1>7. rec \in CallRecords
  BY <1>2, Bounds, ListConstants DEF CallRecords
<1>8. call' \in [Task -> CallRecords]
  BY <1>3, <1>6, <1>7 DEF Upd
<1>9. TcbTypes(base_priority, lockcount, rr, timeslice, call)'
  BY <1>3, <1>5, <1>8 DEF SchedInv, TcbTypes
<1>10. w[t] # "INVALID" /\ w[c] = "READY" /\ n # 0
  <2>1. Good(S) /\ S.st = task_state /\ w[c] = "READY"
    BY <1>1, Current
  <2>2. w[t] # "INVALID"
    <3>1. w[t] = IF task_state[t] = "RUNNING" THEN "READY" ELSE task_state[t]
      BY <1>1 DEF Where
    <3> QED BY <1>3, <3>1
  <2> QED BY <2>1, <2>2
<1>11. Linked(head, Where(task_state), lockcount, call)'
  <2>1. Linked(c, w, lc, cl)
    BY <1>1, Current
  <2>2. \A u \in Task : cl[u].pc # "locked"
    BY <1>1, NoneLocked DEF SetParamLock
  <2>3. \A u \in Task : lc[u] > 0 => lockcount'[u] > 0
    BY <1>3 DEF Upd
  <2>4. Waits(c, w, lockcount')
    BY <1>3 DEF Waits, Upd
  <2>5. Linked(c, w, lockcount', cl)
    BY <2>1, <2>2, <2>3, <2>4, LinkedKept
  <2>6. ASSUME NEW u \in Task PROVE InCall(u, call'[u], c, w, lockcount')
    <3>1. CASE u # c
      <4>1. call'[u] = cl[u]
        BY <1>3, <1>6, <3>1 DEF Upd
      <4> QED BY <2>5, <4>1 DEF Linked
    <3>2. CASE u = c
      <4>1. call'[u] = rec /\ lockcount'[c] > 0
        BY <1>3, <1>6, <3>2 DEF Upd
      <4>2. rec.pc = "locked" /\ rec.tcb = t /\ rec.pri = n
        BY <1>2
      <4> QED BY <1>3, <1>10, <3>2, <4>1, <4>2 DEF InCall
    <3> QED BY <3>1, <3>2
  <2>7. Linked(c, w, lockcount', call')
    BY <2>4, <2>6 DEF Linked
  <2> QED BY <1>3, <1>4, <2>7
<1>12. Abs!Lock
  BY <1>1, <1>3, <1>4 DEF Abs!Lock, Where, Upd
<1> QED BY <1>4, <1>9, <1>11, <1>12 DEF SchedInv

\* The policy and the priority of the call in progress are set.
LEMMA SetParamReprioritizeStep ==
    ASSUME SchedInv, SetParamReprioritize
    PROVE  SchedInv' /\ Abs!SetPriority
<1>1. PICK h, c, t, n : h = head /\ c = call[head] /\ t = c.tcb /\ n = c.pri
  OBVIOUS
<1>2. /\ call \in [Task -> CallRecords] /\ h \in Task /\ lockcount \in [Task -> Nat]
      /\ c \in CallRecords /\ c.pc = "locked"
  <2>1. call \in [Task -> CallRecords]
    BY DEF SchedInv, TcbTypes
  <2>2. h \in Task /\ lockcount \in [Task -> Nat]
    BY <1>1, Current
  <2>3. c.pc = "locked"
    BY <1>1 DEF SetParamReprioritize
  <2> QED BY <1>1, <2>1, <2>2, <2>3
<1>3. \A u \in Task : InCall(u, call[u], h, Where(task_state), lockcount)
  BY <1>1, Current DEF Linked
<1>4. /\ t \in Task \ {Idle} /\ n \in 1 .. MaxPrio /\ Where(task_state)[t] # "INVALID"
      /\ lockcount[h] > 0 /\ Where(task_state)[h] # "INVALID"
  <2>1. InCall(h, c, h, Where(task_state), lockcount)
    BY <1>1, <1>2, <1>3
  <2>2. c.tcb \in Task /\ c.pri \in 0 .. MaxPrio
    BY <1>2 DEF CallRecords
  <2> QED BY <1>1, <1>2, <2>1, <2>2, Bounds DEF InCall
<1>5. PICK p, r : p = Upd(sched_priority, t, n) /\ r = sched_setpriority(S, t, n)
  OBVIOUS
<1>6. Allowed(r, Abs!AfterReprioritize(head, Where(task_state), p, lockcount, {t}), p)
  <2>1. Good(S) /\ First(S) = head /\ S.st = task_state /\ p = Upd(S.pri, t, n)
    BY <1>5, Current
  <2>2. Allowed(r, Abs!AfterReprioritize(First(S), Where(S.st), p, lockcount, {t}), p)
    BY <1>2, <1>4, <1>5, <2>1, SetPriorityAllowed
  <2> QED BY <2>1, <2>2
<1>7. Becomes(r) /\ UNCHANGED <<base_priority, lockcount>>
  BY <1>1, <1>5 DEF SetParamReprioritize
<1>8. /\ Good(S)'
      /\ SameTasks(Where(task_state'), Where(task_state))
      /\ Waits(head', Where(task_state'), lockcount)
      /\ Abs!SetPriority
  BY <1>4, <1>5, <1>6, <1>7, PrioritySet
<1>9. PICK d : d = [c EXCEPT !.pc = "reprioritized"]
  OBVIOUS
<1>10. d \in CallRecords /\ d.pc = "reprioritized" /\ d.tcb = t /\ d.pri = n
  BY <1>1, <1>2, <1>9 DEF CallRecords
<1>11. call' = Upd(call, h, d)
  BY <1>1, <1>9 DEF SetParamReprioritize, Upd
<1>12. call' \in [Task -> CallRecords] /\ call'[h] = d /\ \A u \in Task \ {h} : call'[u] = call[u]
  BY <1>2, <1>10, <1>11 DEF Upd
<1>13. rr' \in [Task -> BOOLEAN] /\ ~rr'[Idle]
  <2>1. rr \in [Task -> BOOLEAN] /\ ~rr[Idle]
    BY DEF SchedInv, TcbTypes
  <2>2. PICK b \in BOOLEAN : rr' = Upd(rr, t, b)
    <3>1. rr' = Upd(rr, t, IF c.policy = "none" THEN rr[t] ELSE c.policy = "RR")
      BY <1>1 DEF SetParamReprioritize, Upd
    <3>2. rr[t] \in BOOLEAN
      BY <1>4, <2>1
    <3> QED BY <3>1, <3>2
  <2> QED BY <1>4, <2>1, <2>2, ListNames DEF Upd
<1>14. timeslice' \in [Task -> 0 .. Slice]
  <2>1. timeslice \in [Task -> 0 .. Slice]
    BY DEF SchedInv, TcbTypes
  <2>2. PICK v : v = CASE c.policy = "none" -> timeslice[t] [] c.policy = "RR" -> Slice [] OTHER -> 0
    OBVIOUS
  <2>3. timeslice' = Upd(timeslice, t, v)
    BY <1>1, <2>2 DEF SetParamReprioritize, Upd
  <2>4. v \in 0 .. Slice
    BY <1>4, <2>1, <2>2, Bounds
  <2> QED BY <2>1, <2>3, <2>4 DEF Upd
<1>15. TcbTypes(base_priority, lockcount, rr, timeslice, call)'
  BY <1>7, <1>12, <1>13, <1>14 DEF SchedInv, TcbTypes
<1>16. Linked(head, Where(task_state), lockcount, call)'
  <2>1. ASSUME NEW u \in Task PROVE InCall(u, call'[u], head', Where(task_state'), lockcount)
    <3>1. CASE u = h
      BY <1>4, <1>8, <1>10, <1>12, <3>1 DEF InCall, SameTasks
    <3>2. CASE u # h
      <4>1. call'[u] = call[u] /\ InCall(u, call[u], h, Where(task_state), lockcount)
        BY <1>3, <1>12, <3>2
      <4> QED BY <1>8, <3>2, <4>1 DEF InCall, SameTasks
    <3> QED BY <3>1, <3>2
  <2>2. Linked(head', Where(task_state'), lockcount, call')
    BY <1>8, <2>1 DEF Linked
  <2> QED BY <1>7, <2>2
<1> QED BY <1>8, <1>15, <1>16 DEF SchedInv

\* The call returns.
LEMMA SetParamReturnStep ==
    ASSUME SchedInv, SetParamReturn
    PROVE  SchedInv' /\ Abs!Unlock
<1>1. PICK h, c : h = head /\ c = call[head]
  OBVIOUS
<1>2. /\ call \in [Task -> CallRecords] /\ h \in Task /\ c \in CallRecords
      /\ c.pc = "reprioritized" /\ sched_unlock /\ UNCHANGED <<rr, timeslice>>
      /\ base_priority' = Upd(base_priority, c.tcb, c.pri)
      /\ call' = Upd(call, h, NoCall)
  <2>1. call \in [Task -> CallRecords]
    BY DEF SchedInv, TcbTypes
  <2>2. h \in Task
    BY <1>1, Current
  <2> QED BY <1>1, <2>1, <2>2 DEF SetParamReturn, Upd
<1>3. \A u \in Task : InCall(u, call[u], h, Where(task_state), lockcount)
  BY <1>1, Current DEF Linked
<1>4. lockcount[head] > 0
  <2>1. InCall(h, c, h, Where(task_state), lockcount)
    BY <1>1, <1>2, <1>3
  <2> QED BY <1>1, <1>2, <2>1 DEF InCall
<1>5. /\ Good(S)' /\ lockcount' \in [Task -> 0 .. MaxLock]
      /\ \A u \in Task \ {head} : lockcount'[u] = lockcount[u]
      /\ Waits(head', Where(task_state'), lockcount')
      /\ SameTasks(Where(task_state'), Where(task_state))
      /\ Abs!Unlock
  BY <1>2, <1>4, UnlockShared
<1>6. NoCall \in CallRecords /\ NoCall.pc = "run"
  BY ListNames, Bounds DEF NoCall, CallRecords
<1>7. call' \in [Task -> CallRecords] /\ call'[h] = NoCall /\ \A u \in Task \ {h} : call'[u] = call[u]
  BY <1>2, <1>6 DEF Upd
<1>8. base_priority' \in Priorities
  <2>1. c.tcb \in Task /\ c.pri \in 0 .. MaxPrio
    BY <1>2 DEF CallRecords
  <2>2. base_priority \in Priorities
    BY DEF SchedInv, TcbTypes
  <2> QED BY <1>2, <2>1, <2>2 DEF Priorities, Upd
<1>9. TcbTypes(base_priority, lockcount, rr, timeslice, call)'
  BY <1>2, <1>5, <1>7, <1>8 DEF SchedInv, TcbTypes
<1>10. Linked(head, Where(task_state), lockcount, call)'
  <2>1. ASSUME NEW u \in Task PROVE InCall(u, call'[u], head', Where(task_state'), lockcount')
    <3>1. CASE u = h
      BY <1>6, <1>7, <3>1 DEF InCall
    <3>2. CASE u # h
      <4>1. call'[u] = call[u] /\ lockcount'[u] = lockcount[u] /\ InCall(u, call[u], h, Where(task_state), lockcount)
        BY <1>1, <1>3, <1>5, <1>7, <3>2
      <4> QED BY <1>5, <3>2, <4>1 DEF InCall, SameTasks
    <3> QED BY <3>1, <3>2
  <2> QED BY <1>5, <2>1 DEF Linked
<1> QED BY <1>5, <1>9, <1>10 DEF SchedInv

LEMMA ExitStep ==
    ASSUME SchedInv, TaskExit
    PROVE  SchedInv' /\ Abs!Exit
<1>1. PICK c, w, p, a, r, R :
        /\ c = head /\ w = Where(task_state) /\ p = sched_priority
        /\ a = sched_removereadytorun(S, head)
        /\ r = IF S.list["PENDING"] # <<>> THEN sched_mergepending(a) ELSE a
        /\ R = Abs!AfterBlock(Upd(w, c, "INVALID"), p)
  OBVIOUS
<1>2. /\ Good(S) /\ First(S) = c /\ Where(S.st) = w /\ S.pri = p /\ S.list = list
      /\ c \in Task /\ w \in WhereTo
  BY <1>1, Current
<1>3. InTask /\ c # Idle /\ UNCHANGED <<base_priority, lockcount, rr, timeslice, call>>
  BY <1>1 DEF TaskExit, InTask
<1>4. Becomes(r)
  BY <1>1, <1>2 DEF TaskExit
<1>5. Allowed(r, R, p)
  <2>1. First(S) # Idle /\ a = sched_removereadytorun(S, First(S))
    BY <1>1, <1>2, <1>3
  <2>2. Allowed(r, Abs!AfterBlock(Upd(Where(S.st), First(S), "INVALID"), S.pri), S.pri)
    BY <1>1, <1>2, <2>1, ExitAllowed
  <2> QED BY <1>1, <1>2, <2>2
<1>6. /\ Good(S)' /\ sched_priority' = p
      /\ <<head', Where(task_state')>> \in R
      /\ \E x \in R : head' = x[1] /\ Where(task_state') = x[2]
  BY <1>4, <1>5, AllowedStep
<1>7. SameTasks(Where(task_state'), Upd(w, c, "INVALID")) /\ \A t \in Task : Where(task_state')[t] # "PENDING"
  <2>1. <<head', Where(task_state')>> \in Abs!AfterBlock(Upd(w, c, "INVALID"), p)
    BY <1>1, <1>6
  <2> QED BY <2>1, BlockResult
<1>8. \A t \in Task \ {c} : w[t] # "INVALID" => Where(task_state')[t] # "INVALID"
  BY <1>2, <1>7 DEF SameTasks, Upd, WhereTo
<1>9. Linked(head, Where(task_state), lockcount, call)'
  <2>1. Linked(c, w, lockcount, call)
    BY <1>1 DEF SchedInv
  <2>2. \A t \in Task : call[t].pc # "locked"
    BY <1>3, NoneLocked
  <2>3. call[c].pc = "run"
    BY <1>1, <1>3 DEF InTask
  <2>4. \A t \in Task : call[t].pc # "run" =>
          (w[t] # "INVALID" => Where(task_state')[t] # "INVALID") /\ (lockcount[t] > 0 => lockcount[t] > 0)
    BY <1>8, <2>3
  <2>5. Waits(head', Where(task_state'), lockcount)
    BY <1>7 DEF Waits
  <2>6. Linked(head', Where(task_state'), lockcount, call)
    BY <2>1, <2>2, <2>4, <2>5, LinkedKept
  <2> QED BY <1>3, <2>6
<1>10. TcbTypes(base_priority, lockcount, rr, timeslice, call)'
  BY <1>3 DEF SchedInv, TcbTypes
<1>11. Abs!Exit
  <2>1. R = Abs!AfterBlock([[t \in Task |-> IF task_state[t] = "RUNNING" THEN "READY" ELSE task_state[t]]
                              EXCEPT ![head] = "INVALID"], sched_priority)
    BY <1>1 DEF Where, Upd
  <2>2. \E x \in Abs!AfterBlock([[t \in Task |-> IF task_state[t] = "RUNNING" THEN "READY" ELSE task_state[t]]
                              EXCEPT ![head] = "INVALID"], sched_priority) :
          head' = x[1] /\ Where(task_state') = x[2]
    BY <1>6, <2>1
  <2>3. UNCHANGED <<sched_priority, lockcount>> /\ head # Idle
    BY <1>1, <1>3, <1>6
  <2> QED BY <2>2, <2>3 DEF Abs!Exit, Abs!Switch, Where
<1> QED BY <1>6, <1>9, <1>10, <1>11 DEF SchedInv

LEMMA TerminateStep ==
    ASSUME SchedInv, NEW t \in Task, TaskTerminate(t)
    PROVE  SchedInv' /\ Abs!Terminate
<1>1. PICK c, w, r : c = head /\ w = Where(task_state) /\ r = Taken(S, t)
  OBVIOUS
<1>2. /\ Good(S) /\ First(S) = c /\ Where(S.st) = w /\ S.st = task_state /\ S.pri = sched_priority
      /\ c \in Task /\ w \in WhereTo
  BY <1>1, Current
<1>3. /\ InTask /\ t # c /\ t # Idle /\ task_state[t] # "INVALID"
      /\ call' = Upd(call, t, NoCall)
      /\ UNCHANGED <<base_priority, lockcount, rr, timeslice>>
  BY <1>1 DEF TaskTerminate, Upd
<1>4. Becomes(r)
  <2>1. r = [S EXCEPT !.list[task_state[t]] = RemoveFirst(@, t), !.st[t] = "INVALID"]
    BY <1>1, <1>2 DEF Taken
  <2> QED BY <2>1 DEF TaskTerminate
<1>5. S.st[t] \in Lists /\ w[t] # "INVALID"
  <2>1. S.st[t] # "RUNNING" /\ S.st[t] \in States /\ w[t] = S.st[t]
    BY <1>2, <1>3, GoodStates
  <2> QED BY <1>2, <1>3, <2>1 DEF States
<1>6. Reached(r, Upd(Where(S.st), t, "INVALID"), S.pri) /\ First(r) = First(S)
  BY <1>1, <1>2, <1>3, <1>5, TakenGood
<1>7. Good(r) /\ Where(r.st) = Upd(w, t, "INVALID") /\ r.pri = sched_priority /\ First(r) = c
  BY <1>2, <1>6 DEF Reached
<1>8. Good(S)' /\ head' = c /\ Where(task_state') = Upd(w, t, "INVALID") /\ sched_priority' = sched_priority
  <2>1. Good(S)' /\ head' = First(r) /\ task_state' = r.st /\ sched_priority' = r.pri
    BY <1>4, <1>7, NextValue
  <2> QED BY <1>7, <2>1
<1>9. NoCall \in CallRecords /\ NoCall.pc = "run"
  BY ListNames, Bounds DEF NoCall, CallRecords
<1>10. call \in [Task -> CallRecords]
  BY DEF SchedInv, TcbTypes
<1>11. call' \in [Task -> CallRecords] /\ call'[t] = NoCall /\ \A u \in Task \ {t} : call'[u] = call[u]
  BY <1>3, <1>9, <1>10 DEF Upd
<1>12. TcbTypes(base_priority, lockcount, rr, timeslice, call)'
  BY <1>3, <1>11 DEF SchedInv, TcbTypes
<1>13. Linked(head, Where(task_state), lockcount, call)'
  <2>1. Waits(c, w, lockcount) /\ \A u \in Task : InCall(u, call[u], c, w, lockcount)
    BY <1>1 DEF SchedInv, Linked
  <2>2. \A u \in Task : call[u].pc # "locked"
    BY <1>3, NoneLocked
  <2>3. PICK w1 : w1 = Upd(w, t, "INVALID")
    OBVIOUS
  <2>4. \A u \in Task \ {t} : w1[u] = w[u]
    BY <1>2, <2>3 DEF Upd, WhereTo
  <2>5. w1[t] = "INVALID"
    BY <1>2, <2>3 DEF Upd, WhereTo
  <2>6. Waits(c, w1, lockcount)
    BY <2>1, <2>4, <2>5 DEF Waits
  <2>7. ASSUME NEW u \in Task PROVE InCall(u, call'[u], c, w1, lockcount)
    <3>1. CASE u = t
      BY <1>9, <1>11, <3>1 DEF InCall
    <3>2. CASE u # t
      BY <1>11, <2>1, <2>2, <2>4, <3>2 DEF InCall
    <3> QED BY <3>1, <3>2
  <2>8. Linked(c, w1, lockcount, call')
    BY <2>6, <2>7 DEF Linked
  <2> QED BY <1>3, <1>8, <2>3, <2>8
<1>14. Abs!Terminate
  <2>1. t \in Task \ {head, Idle} /\ Where(task_state)[t] # "INVALID"
    BY <1>1, <1>3, <1>5
  <2>2. Where(task_state') = [Where(task_state) EXCEPT ![t] = "INVALID"]
    BY <1>1, <1>8 DEF Upd
  <2>3. UNCHANGED <<head, sched_priority, lockcount>>
    BY <1>1, <1>3, <1>8
  <2> QED BY <2>1, <2>2, <2>3 DEF Abs!Terminate, Where
<1> QED BY <1>8, <1>12, <1>13, <1>14 DEF SchedInv

LEMMA CreateStep ==
    ASSUME SchedInv, NEW t \in Task, NEW n \in 1 .. MaxPrio, TaskCreate(t, n)
    PROVE  SchedInv' /\ Abs!Create
<1>1. PICK c, w, r : c = head /\ w = Where(task_state) /\ r = Created(S, t, n)
  OBVIOUS
<1>2. /\ Good(S) /\ First(S) = c /\ Where(S.st) = w /\ S.st = task_state /\ S.pri = sched_priority
      /\ c \in Task /\ w \in WhereTo /\ w[c] = "READY"
      /\ lockcount \in [Task -> 0 .. MaxLock]
  BY <1>1, Current
<1>3. /\ InTask /\ task_state[t] = "INVALID" /\ Becomes(r)
      /\ base_priority' = Upd(base_priority, t, n)
      /\ lockcount' = Upd(lockcount, t, 0)
      /\ rr' = Upd(rr, t, TRUE)
      /\ timeslice' = Upd(timeslice, t, Slice)
      /\ UNCHANGED call
  BY <1>1 DEF TaskCreate, Created, Upd
<1>4. Reached(r, Upd(Where(S.st), t, "INACTIVE"), Upd(S.pri, t, n)) /\ First(r) = First(S) /\ t # Idle
  BY <1>1, <1>2, <1>3, CreatedGood
<1>5. Good(r) /\ Where(r.st) = Upd(w, t, "INACTIVE") /\ r.pri = Upd(sched_priority, t, n) /\ First(r) = c
  BY <1>2, <1>4 DEF Reached
<1>6. Good(S)' /\ head' = c /\ Where(task_state') = Upd(w, t, "INACTIVE") /\ sched_priority' = Upd(sched_priority, t, n)
  <2>1. Good(S)' /\ head' = First(r) /\ task_state' = r.st /\ sched_priority' = r.pri
    BY <1>3, <1>5, NextValue
  <2> QED BY <1>5, <2>1
<1>7. w[t] = "INVALID" /\ t # c
  <2>1. w[t] = "INVALID"
    BY <1>2, <1>3, GoodStates
  <2> QED BY <1>2, <2>1
<1>8. TcbTypes(base_priority, lockcount, rr, timeslice, call)'
  <2>1. /\ base_priority \in Priorities
        /\ rr \in [Task -> BOOLEAN] /\ ~rr[Idle]
        /\ timeslice \in [Task -> 0 .. Slice]
        /\ call \in [Task -> CallRecords]
    BY DEF SchedInv, TcbTypes
  <2>2. 0 \in 0 .. MaxLock /\ Slice \in 0 .. Slice /\ n \in 0 .. MaxPrio /\ Idle \in Task
    BY Bounds, ListNames
  <2>3. base_priority' \in Priorities
    BY <1>3, <2>1, <2>2 DEF Upd, Priorities
  <2>4. lockcount' \in [Task -> 0 .. MaxLock]
    BY <1>2, <1>3, <2>2 DEF Upd
  <2>5. rr' \in [Task -> BOOLEAN] /\ ~rr'[Idle]
    BY <1>3, <1>4, <2>1, <2>2 DEF Upd
  <2>6. timeslice' \in [Task -> 0 .. Slice]
    BY <1>3, <2>1, <2>2 DEF Upd
  <2> QED BY <1>3, <2>1, <2>3, <2>4, <2>5, <2>6 DEF TcbTypes
<1>9. Linked(head, Where(task_state), lockcount, call)'
  <2>1. Linked(c, w, lockcount, call)
    BY <1>1 DEF SchedInv
  <2>2. \A u \in Task : call[u].pc # "locked"
    BY <1>3, NoneLocked
  <2>3. PICK w1, lc1 : w1 = Upd(w, t, "INACTIVE") /\ lc1 = Upd(lockcount, t, 0)
    OBVIOUS
  <2>4. w1[t] = "INACTIVE" /\ \A u \in Task \ {t} : w1[u] = w[u] /\ lc1[u] = lockcount[u]
    BY <1>2, <2>3 DEF Upd, WhereTo
  <2>5. Waits(c, w1, lc1)
    BY <1>2, <1>7, <2>1, <2>4 DEF Waits, Linked
  <2>6. \A u \in Task : call[u].pc # "run" =>
          (w[u] # "INVALID" => w1[u] # "INVALID") /\ (lockcount[u] > 0 => lc1[u] > 0)
    <3>1. call[t].pc = "run"
      BY <1>7, <2>1 DEF Linked, InCall
    <3> QED BY <2>4, <3>1
  <2>7. Linked(c, w1, lc1, call)
    BY <2>1, <2>2, <2>5, <2>6, LinkedKept
  <2> QED BY <1>3, <1>6, <2>3, <2>7
<1>10. Abs!Create
  <2>1. t \in Task \ {Idle} /\ Where(task_state)[t] = "INVALID"
    BY <1>1, <1>4, <1>7
  <2>2. Where(task_state') = [Where(task_state) EXCEPT ![t] = "INACTIVE"]
    BY <1>1, <1>6 DEF Upd
  <2>3. sched_priority' = [sched_priority EXCEPT ![t] = n] /\ lockcount' = [lockcount EXCEPT ![t] = 0] /\ UNCHANGED head
    BY <1>1, <1>3, <1>6 DEF Upd
  <2> QED BY <2>1, <2>2, <2>3 DEF Abs!Create, Where
<1> QED BY <1>6, <1>8, <1>9, <1>10 DEF SchedInv

LEMMA UnblockStep ==
    ASSUME SchedInv, NEW t \in Task, UnblockTask(t)
    PROVE  SchedInv' /\ Abs!Unblock
<1>1. PICK c, w, p, lc, r, h, w1 :
        /\ c = head /\ w = Where(task_state) /\ p = sched_priority /\ lc = lockcount
        /\ r = up_unblock_task(S, t)
        /\ h = Abs!HeadAfterAdd(c, p, lc, t) /\ w1 = Abs!AddReady(c, w, p, lc, t)
  OBVIOUS
<1>2. /\ Good(S) /\ First(S) = c /\ Where(S.st) = w /\ S.st = task_state /\ S.pri = p
      /\ c \in Task /\ w \in WhereTo /\ p \in Priorities /\ lc \in [Task -> Nat] /\ lockcount \in [Task -> Nat]
      /\ Linked(c, w, lc, call)
  BY <1>1, Current
<1>3. /\ task_state[t] \in Blocked \cup {"INACTIVE"} /\ Becomes(r)
      /\ UNCHANGED <<base_priority, lockcount, rr, timeslice, call>>
  BY <1>1 DEF UnblockTask
<1>4. w[t] = task_state[t] /\ w[t] # "INVALID"
  <2>1. task_state[t] # "RUNNING" /\ task_state[t] # "INVALID"
    BY <1>3, ListNames
  <2> QED BY <1>2, <2>1, GoodStates
<1>5. /\ Reached(r, Abs!AddReady(First(S), Where(S.st), S.pri, lockcount, t), S.pri)
      /\ First(r) = Abs!HeadAfterAdd(First(S), S.pri, lockcount, t)
  BY <1>1, <1>2, <1>3, UnblockReached
<1>6. Good(r) /\ Where(r.st) = w1 /\ r.pri = p /\ First(r) = h
  BY <1>1, <1>2, <1>5 DEF Reached
<1>7. Good(S)' /\ head' = h /\ Where(task_state') = w1 /\ sched_priority' = p
  <2>1. Good(S)' /\ head' = First(r) /\ task_state' = r.st /\ sched_priority' = r.pri
    BY <1>3, <1>6, NextValue
  <2> QED BY <1>6, <2>1
<1>8. SameTasks(w1, w) /\ Waits(h, w1, lc) /\ (lc[c] > 0 => h = c)
  <2>1. Waits(c, w, lc)
    BY <1>2 DEF Linked
  <2> QED BY <1>1, <1>2, <1>4, <2>1, UnblockResult
<1>9. TcbTypes(base_priority, lockcount, rr, timeslice, call)'
  BY <1>3 DEF SchedInv, TcbTypes
<1>10. Linked(head, Where(task_state), lockcount, call)'
  <2>1. call \in [Task -> CallRecords]
    BY DEF SchedInv, TcbTypes
  <2>2. ASSUME NEW u \in Task PROVE InCall(u, call[u], h, w1, lc)
    <3>1. InCall(u, call[u], c, w, lc)
      BY <1>2 DEF Linked
    <3>2. call[u].tcb \in Task
      BY <2>1 DEF CallRecords
    <3> QED BY <1>8, <3>1, <3>2 DEF InCall, SameTasks
  <2>3. Linked(h, w1, lc, call)
    BY <1>8, <2>2 DEF Linked
  <2> QED BY <1>1, <1>3, <1>7, <2>3
<1>11. Abs!Unblock
  <2>1. Where(task_state)[t] \in Blocked \cup {"INACTIVE"}
    BY <1>1, <1>3, <1>4
  <2>2. Where(task_state') = Abs!AddReady(head, Where(task_state), sched_priority, lockcount, t)
    BY <1>1, <1>7
  <2>3. head' = Abs!HeadAfterAdd(head, sched_priority, lockcount, t)
    BY <1>1, <1>7
  <2>4. UNCHANGED <<sched_priority, lockcount>>
    BY <1>1, <1>3, <1>7
  <2> QED BY <2>1, <2>2, <2>3, <2>4 DEF Abs!Unblock, Where
<1> QED BY <1>7, <1>9, <1>10, <1>11 DEF SchedInv

\* The timer interrupt: only the end of a slice in front of an equal is seen
\* by SchedAbs, as a priority that is set to what it was.
LEMMA TickStep ==
    ASSUME SchedInv, Tick
    PROVE  SchedInv' /\ (Abs!SetPriority \/ UNCHANGED Abs!schedVars)
<1>1. rr[head] /\ UNCHANGED <<base_priority, lockcount, rr, call>>
  BY DEF Tick
<1>2. rr \in [Task -> BOOLEAN] /\ ~rr[Idle] /\ timeslice \in [Task -> 0 .. Slice] /\ head \in Task
  BY Current DEF SchedInv, TcbTypes
<1>3. head # Idle
  BY <1>1, <1>2
<1>4. timeslice' \in [Task -> 0 .. Slice]
  <2>1. CASE timeslice[head] > 1
    <3>1. timeslice' = Upd(timeslice, head, timeslice[head] - 1)
      BY <2>1 DEF Tick, Upd
    <3>2. timeslice[head] - 1 \in 0 .. Slice
      BY <1>2, <2>1, Bounds
    <3> QED BY <1>2, <3>1, <3>2 DEF Upd
  <2>2. CASE ~(timeslice[head] > 1)
    <3>1. timeslice' = Upd(timeslice, head, Slice)
      BY <2>2 DEF Tick, Upd
    <3>2. Slice \in 0 .. Slice
      BY Bounds
    <3> QED BY <1>2, <3>1, <3>2 DEF Upd
  <2> QED BY <2>1, <2>2
<1>5. TcbTypes(base_priority, lockcount, rr, timeslice, call)'
  BY <1>1, <1>4 DEF SchedInv, TcbTypes
<1>6. CASE Becomes(S)
  <2>1. UNCHANGED <<list, task_state, sched_priority, ok>>
    BY <1>6, CurrentValue DEF Becomes
  <2>2. Good(S)' /\ head' = head /\ Where(task_state)' = Where(task_state) /\ sched_priority' = sched_priority
    BY <2>1, SameValue
  <2>3. Linked(head, Where(task_state), lockcount, call)'
    BY <1>1, <2>2 DEF SchedInv
  <2>4. UNCHANGED Abs!schedVars
    BY <1>1, <2>2 DEF Abs!schedVars, Where
  <2> QED BY <1>5, <2>2, <2>3, <2>4 DEF SchedInv
<1>7. CASE ~Becomes(S)
  <2>1. PICK t, n, p, r :
          /\ t = head /\ n = sched_priority[head] /\ p = Upd(sched_priority, t, n)
          /\ r = up_reprioritize_rtr(S, t, n)
    OBVIOUS
  <2>2. /\ lockcount[head] = 0 /\ Becomes(r)
        /\ sched_priority[list["READY"][2]] >= sched_priority[head]
    BY <1>7, <2>1 DEF Tick
  <2>3. t \in Task \ {Idle} /\ n \in 1 .. MaxPrio /\ Where(task_state)[t] # "INVALID"
    BY <1>3, <2>1, KeepsPriority
  <2>4. Allowed(r, Abs!AfterReprioritize(head, Where(task_state), p, lockcount, {t}), p)
    <3>1. /\ Good(S) /\ First(S) = head /\ S.st = task_state /\ p = Upd(S.pri, t, n)
          /\ lockcount \in [Task -> Nat] /\ t = First(S) /\ t # Idle
      BY <1>3, <2>1, Current
    <3>2. n <= S.pri[S.list["READY"][2]]
      BY <2>1, <2>2, Current
    <3>3. Allowed(r, Abs!AfterReprioritize(First(S), Where(S.st), p, lockcount, {t}), p)
      BY <2>1, <2>3, <3>1, <3>2, YieldReached
    <3> QED BY <3>1, <3>3
  <2>5. /\ Good(S)'
        /\ SameTasks(Where(task_state'), Where(task_state))
        /\ Waits(head', Where(task_state'), lockcount)
        /\ Abs!SetPriority
    BY <1>1, <2>1, <2>2, <2>3, <2>4, PrioritySet
  <2>6. Linked(head, Where(task_state), lockcount, call)'
    <3>1. Linked(head, Where(task_state), lockcount, call)
      BY DEF SchedInv
    <3>2. \A u \in Task : call[u].pc # "locked"
      BY <2>2, <3>1, Current DEF Linked, InCall
    <3>3. \A u \in Task : call[u].pc # "run" =>
            (Where(task_state)[u] # "INVALID" => Where(task_state')[u] # "INVALID") /\ (lockcount[u] > 0 => lockcount[u] > 0)
      BY <2>5 DEF SameTasks
    <3>4. Linked(head', Where(task_state'), lockcount, call)
      BY <2>5, <3>1, <3>2, <3>3, LinkedKept
    <3> QED BY <1>1, <3>4
  <2> QED BY <1>5, <2>5, <2>6 DEF SchedInv
<1> QED BY <1>6, <1>7

-----------------------------------------------------------------------------
(***************************************************************************)
(* The initial state.                                                      *)
(***************************************************************************)
\* A sequence of all tasks of a set, each once.
LEMMA AllOfThem ==
    ASSUME NEW T \in SUBSET Task, NEW q \in SetToSeqs(T)
    PROVE  Once(q) /\ ToSet(q) = T
<1>1. IsFiniteSet(T) /\ Cardinality(T) \in Nat
  <2>1. IsFiniteSet(Task)
    BY ListConstants
  <2>2. IsFiniteSet(T)
    BY <2>1, FS_Subset
  <2> QED BY <2>2, FS_CardinalityType
<1>2. PICK n : n = Cardinality(T)
  OBVIOUS
<1>3. q \in [1 .. n -> T] /\ \A i, j \in 1 .. n : i # j => q[i] # q[j]
  BY <1>2 DEF SetToSeqs
<1>4. n \in Nat /\ q \in Seq(T) /\ Len(q) = n
  BY <1>1, <1>2, <1>3
<1>5. q \in Seq(Task)
  BY <1>4
<1>6. Once(q)
  BY <1>3, <1>4, <1>5 DEF Once
<1>7. q \in Surjection(1 .. n, T)
  <2>1. q \in Injection(1 .. n, T)
    BY <1>3 DEF Injection, IsInjective
  <2>2. Cardinality(1 .. n) = n
    <3>1. 1 \in Int /\ n \in Int
      BY <1>4
    <3>2. Cardinality(1 .. n) = IF 1 > n THEN 0 ELSE n - 1 + 1
      BY <3>1, FS_Interval
    <3> QED BY <1>4, <3>2
  <2>3. Cardinality(1 .. n) = Cardinality(T)
    BY <1>2, <2>2
  <2> QED BY <1>1, <2>1, <2>3, FS_Injection
<1>8. ToSet(q) = T
  <2>1. \A x \in T : \E i \in 1 .. n : q[i] = x
    BY <1>7 DEF Surjection
  <2>2. DOMAIN q = 1 .. n
    BY <1>3
  <2> QED BY <1>3, <2>1, <2>2 DEF ToSet
<1> QED BY <1>6, <1>8

LEMMA InitInv == Init => SchedInv
<1> SUFFICES ASSUME Init PROVE SchedInv
  OBVIOUS
<1>1. Idle \in Task /\ "READY" \in Lists /\ "INACTIVE" \in Lists /\ "PENDING" \in Lists /\ "RUNNING" \notin Lists
  BY ListNames
<1>2. PICK q \in SetToSeqs(Task \ {Idle}) :
        list = [l \in Lists |-> CASE l = "READY" -> <<Idle>> [] l = "INACTIVE" -> q [] OTHER -> <<>>]
  BY DEF Init
<1>3. Once(q) /\ ToSet(q) = Task \ {Idle}
  BY AllOfThem
<1>4. /\ list["READY"] = <<Idle>> /\ list["INACTIVE"] = q
      /\ \A l \in Lists \ {"READY", "INACTIVE"} : list[l] = <<>>
      /\ list = [l \in Lists |-> list[l]]
  BY <1>1, <1>2
<1>5. /\ task_state = [t \in Task |-> IF t = Idle THEN "RUNNING" ELSE "INACTIVE"]
      /\ sched_priority \in Priorities /\ \A t \in Task : sched_priority[t] = 0 <=> t = Idle
      /\ base_priority = sched_priority /\ lockcount = [t \in Task |-> 0]
      /\ rr = [t \in Task |-> t # Idle] /\ timeslice = [t \in Task |-> IF t = Idle THEN 0 ELSE Slice]
      /\ call = [t \in Task |-> NoCall] /\ ok = TRUE
  BY DEF Init, Priorities
<1>6. PICK w : w = Where(task_state)
  OBVIOUS
<1>7. task_state \in [Task -> States] /\ \A t \in Task : w[t] = IF t = Idle THEN "READY" ELSE "INACTIVE"
  BY <1>1, <1>5, <1>6 DEF States, Where
<1>8. Once(<<Idle>>) /\ ToSet(<<Idle>>) = {Idle} /\ Head(<<Idle>>) = Idle
  BY <1>1 DEF Once, ToSet
<1>9. Once(<<>>) /\ ToSet(<<>>) = {}
  BY DEF Once, ToSet
<1>10. \A l \in Lists : Once(list[l]) /\ ToSet(list[l]) = {t \in Task : w[t] = l}
  <2> SUFFICES ASSUME NEW l \in Lists PROVE Once(list[l]) /\ ToSet(list[l]) = {t \in Task : w[t] = l}
    OBVIOUS
  <2>1. CASE l = "READY"
    BY <1>1, <1>4, <1>7, <1>8, <2>1
  <2>2. CASE l = "INACTIVE"
    BY <1>1, <1>3, <1>4, <1>7, <2>2
  <2>3. CASE l \notin {"READY", "INACTIVE"}
    <3>1. list[l] = <<>>
      BY <1>4, <2>3
    <3>2. {t \in Task : w[t] = l} = {}
      BY <1>7, <2>3
    <3> QED BY <1>9, <3>1, <3>2
  <2> QED BY <2>1, <2>2, <2>3
<1>11. \A l \in Prioritized : Descends(list[l], sched_priority)
  <2> SUFFICES ASSUME NEW l \in Prioritized PROVE Descends(list[l], sched_priority)
    OBVIOUS
  <2>1. l \in Lists /\ l # "INACTIVE"
    BY ListNames
  <2>2. CASE l = "READY"
    <3>1. sched_priority[Idle] \in Nat
      BY <1>1, <1>5, PriorityType
    <3>2. Descends(<<Idle>>, sched_priority)
      BY <3>1 DEF Descends
    <3> QED BY <1>4, <2>2, <3>2
  <2>3. CASE l # "READY"
    <3>1. list[l] = <<>>
      BY <1>4, <2>1, <2>3
    <3>2. Descends(<<>>, sched_priority)
      BY DEF Descends
    <3> QED BY <3>1, <3>2
  <2> QED BY <2>2, <2>3
<1>12. Runs(list, task_state)
  BY <1>4, <1>5, <1>8 DEF Runs
<1>13. Placed(list, task_state, sched_priority)
  <2>1. Where(task_state)[Idle] = "READY"
    BY <1>1, <1>6, <1>7
  <2>2. \A l \in Lists : Once(list[l]) /\ ToSet(list[l]) = {t \in Task : Where(task_state)[t] = l}
    BY <1>6, <1>10
  <2> QED BY <1>4, <1>5, <1>7, <1>11, <1>12, <2>1, <2>2 DEF Placed
<1>14. Good(S)
  <2>1. S = Value(list, task_state, sched_priority, ok)
    BY DEF S, Value
  <2>2. Holds(ok)
    BY <1>5 DEF Holds
  <2> QED BY <1>13, <2>1, <2>2, GoodValue
<1>15. TcbTypes(base_priority, lockcount, rr, timeslice, call)
  <2>1. NoCall \in CallRecords
    BY <1>1, Bounds DEF NoCall, CallRecords
  <2>2. base_priority \in Priorities /\ lockcount \in [Task -> 0 .. MaxLock] /\ timeslice \in [Task -> 0 .. Slice]
    BY <1>5, Bounds
  <2>3. rr \in [Task -> BOOLEAN] /\ ~rr[Idle]
    BY <1>1, <1>5
  <2>4. call \in [Task -> CallRecords]
    BY <1>5, <2>1
  <2> QED BY <2>2, <2>3, <2>4 DEF TcbTypes
<1>16. Linked(head, Where(task_state), lockcount, call)
  <2>1. \A t \in Task : call[t].pc = "run"
    BY <1>5 DEF NoCall
  <2>2. \A t \in Task : InCall(t, call[t], head, w, lockcount)
    BY <2>1 DEF InCall
  <2>3. Waits(head, w, lockcount)
    BY <1>7 DEF Waits
  <2> QED BY <1>6, <2>2, <2>3 DEF Linked
<1> QED BY <1>14, <1>15, <1>16 DEF SchedInv

-----------------------------------------------------------------------------
(***************************************************************************)
(* The theorems.                                                           *)
(***************************************************************************)
LEMMA SchedStep ==
    ASSUME SchedInv, [Next]_vars
    PROVE  SchedInv' /\ [Abs!Next]_(Abs!schedVars)
<1>1. CASE SchedLock
  BY <1>1, LockStep DEF Abs!Next
<1>2. CASE SchedUnlock
  BY <1>2, UnlockStep DEF Abs!Next
<1>3. CASE BlockTask
  BY <1>3, BlockStep DEF Abs!Next
<1>4. CASE SchedYield
  BY <1>4, YieldStep DEF Abs!Next
<1>5. ASSUME NEW t \in Task, NEW n \in 1 .. MaxPrio, NEW policy \in Policies, SetParamLock(t, n, policy)
      PROVE  SchedInv' /\ [Abs!Next]_(Abs!schedVars)
  BY <1>5, SetParamLockStep DEF Abs!Next
<1>6. CASE SetParamReprioritize
  BY <1>6, SetParamReprioritizeStep DEF Abs!Next
<1>7. CASE SetParamReturn
  BY <1>7, SetParamReturnStep DEF Abs!Next
<1>8. CASE TaskExit
  BY <1>8, ExitStep DEF Abs!Next
<1>9. ASSUME NEW t \in Task, TaskTerminate(t)
      PROVE  SchedInv' /\ [Abs!Next]_(Abs!schedVars)
  BY <1>9, TerminateStep DEF Abs!Next
<1>10. ASSUME NEW t \in Task, NEW n \in 1 .. MaxPrio, TaskCreate(t, n)
       PROVE  SchedInv' /\ [Abs!Next]_(Abs!schedVars)
  BY <1>10, CreateStep DEF Abs!Next
<1>11. ASSUME NEW t \in Task, UnblockTask(t)
       PROVE  SchedInv' /\ [Abs!Next]_(Abs!schedVars)
  BY <1>11, UnblockStep DEF Abs!Next
<1>12. CASE Tick
  BY <1>12, TickStep DEF Abs!Next
<1>13. CASE UNCHANGED vars
  <2>1. UNCHANGED <<list, task_state, sched_priority, ok>> /\ UNCHANGED <<base_priority, lockcount, rr, timeslice, call>>
    BY <1>13 DEF vars
  <2>2. Good(S)' /\ head' = head /\ Where(task_state)' = Where(task_state) /\ sched_priority' = sched_priority
    BY <2>1, SameValue
  <2>3. TcbTypes(base_priority, lockcount, rr, timeslice, call)' /\ Linked(head, Where(task_state), lockcount, call)'
    BY <2>1, <2>2 DEF SchedInv
  <2>4. UNCHANGED Abs!schedVars
    BY <2>1, <2>2 DEF Abs!schedVars, Where
  <2> QED BY <2>2, <2>3, <2>4 DEF SchedInv
<1> QED BY <1>1, <1>2, <1>3, <1>4, <1>5, <1>6, <1>7, <1>8, <1>9, <1>10, <1>11, <1>12, <1>13 DEF Next

LEMMA InvLists == SchedInv => ListsConsistent
<1> SUFFICES ASSUME SchedInv PROVE ListsConsistent
  OBVIOUS
<1>1. /\ Placed(list, task_state, sched_priority) /\ Holds(ok)
      /\ task_state \in [Task -> States] /\ sched_priority \in Priorities /\ DOMAIN list = Lists
  BY GoodFields, CurrentValue DEF SchedInv
<1>2. TcbTypes(base_priority, lockcount, rr, timeslice, call)
  BY DEF SchedInv
<1>3. \A t \in Task : ListOf(t) = Where(task_state)[t]
  BY DEF ListOf, Where
<1>4. \A l \in Lists : list[l] \in Seq(Task) /\ DOMAIN list[l] = 1 .. Len(list[l])
  <2> SUFFICES ASSUME NEW l \in Lists PROVE list[l] \in Seq(Task) /\ DOMAIN list[l] = 1 .. Len(list[l])
    OBVIOUS
  <2>1. list[l] \in Seq(Task)
    BY <1>1 DEF Placed, Once
  <2> QED BY <2>1
<1>5. TypeOK
  <2>1. \A l \in Lists : \A i \in DOMAIN list[l] : list[l][i] \in Task
    BY <1>4
  <2>2. \A t \in Task : call[t].pc \in {"run", "locked", "reprioritized"}
    BY <1>2 DEF TcbTypes, CallRecords
  <2>3. /\ sched_priority \in [Task -> 0 .. MaxPrio] /\ base_priority \in [Task -> 0 .. MaxPrio]
        /\ lockcount \in [Task -> 0 .. MaxLock] /\ rr \in [Task -> BOOLEAN] /\ timeslice \in [Task -> 0 .. Slice]
    BY <1>1, <1>2 DEF TcbTypes, Priorities
  <2>4. ok \in BOOLEAN /\ task_state \in [Task -> Lists \cup {"RUNNING", "INVALID"}]
    BY <1>1 DEF Holds, States
  <2> QED BY <1>1, <2>1, <2>2, <2>3, <2>4 DEF TypeOK
<1>6. ASSUME NEW l \in Lists
      PROVE  /\ ToSet(list[l]) = {t \in Task : ListOf(t) = l}
             /\ \A i, j \in DOMAIN list[l] : i # j => list[l][i] # list[l][j]
             /\ l \in Prioritized =>
                  \A i, j \in DOMAIN list[l] : i < j => sched_priority[list[l][i]] >= sched_priority[list[l][j]]
  <2>1. Once(list[l]) /\ ToSet(list[l]) = {t \in Task : Where(task_state)[t] = l}
    BY <1>1 DEF Placed
  <2>2. ToSet(list[l]) = {t \in Task : ListOf(t) = l}
    BY <1>3, <2>1
  <2>3. \A i, j \in DOMAIN list[l] : i # j => list[l][i] # list[l][j]
    BY <1>4, <2>1 DEF Once
  <2>4. ASSUME l \in Prioritized, NEW i \in DOMAIN list[l], NEW j \in DOMAIN list[l], i < j
        PROVE  sched_priority[list[l][i]] >= sched_priority[list[l][j]]
    <3>1. Descends(list[l], sched_priority)
      BY <1>1, <2>4 DEF Placed
    <3>2. i \in 1 .. Len(list[l]) /\ j \in 1 .. Len(list[l]) /\ Len(list[l]) \in Nat
      BY <1>4, <2>4
    <3>3. sched_priority[list[l][j]] <= sched_priority[list[l][i]]
      BY <2>4, <3>1, <3>2 DEF Descends
    <3>4. list[l][i] \in Task /\ list[l][j] \in Task
      BY <1>4, <2>4
    <3>5. sched_priority[list[l][i]] \in Nat /\ sched_priority[list[l][j]] \in Nat
      BY <1>1, <3>4, PriorityType
    <3> QED BY <3>3, <3>5
  <2> QED BY <2>2, <2>3, <2>4
<1>7. {t \in Task : task_state[t] = "RUNNING"} = {head}
  <2>1. head \in Task
    BY Current
  <2>2. \A t \in Task : task_state[t] = "RUNNING" <=> t = head
    BY <1>1 DEF Placed, Runs, head
  <2> QED BY <2>1, <2>2
<1>8. ok
  BY <1>1 DEF Holds
<1> QED BY <1>5, <1>6, <1>7, <1>8 DEF ListsConsistent

LEMMA InvHighest == SchedInv => RunningIsHighest
<1> SUFFICES ASSUME SchedInv PROVE RunningIsHighest
  OBVIOUS
<1>1. Good(S) /\ S.list = list /\ S.st = task_state /\ S.pri = sched_priority /\ First(S) = head
  BY Current
<1>2. Waits(head, Where(task_state), lockcount) /\ lockcount \in [Task -> Nat] /\ head \in Task
  BY Current DEF Linked
<1>3. \A t \in Task : Where(task_state)[t] = "READY" => sched_priority[t] <= sched_priority[head]
  BY <1>1, GoodView
<1>4. list["PENDING"] # <<>> => lockcount[head] > 0
  <2>1. list["PENDING"] = <<>> <=> \A t \in Task : Where(task_state)[t] # "PENDING"
    BY <1>1, PendingList
  <2> QED BY <1>2, <2>1 DEF Waits
<1>5. ASSUME NEW t \in Task, task_state[t] = "READY" \/ (task_state[t] = "PENDING" /\ lockcount[head] = 0)
      PROVE  sched_priority[t] <= sched_priority[head]
  <2>1. task_state[t] \in {"READY", "PENDING"} => Where(task_state)[t] = task_state[t]
    BY DEF Where
  <2> QED BY <1>2, <1>3, <1>5, <2>1 DEF Waits
<1> QED BY <1>4, <1>5 DEF RunningIsHighest

LEMMA InitAbs == Init => Abs!Init
<1> SUFFICES ASSUME Init PROVE Abs!Init
  OBVIOUS
<1>1. Idle \in Task /\ "READY" \in Lists
  BY ListNames
<1>2. list["READY"] = <<Idle>>
  BY <1>1 DEF Init
<1>3. head = Idle
  BY <1>2 DEF head
<1>4. task_state = [t \in Task |-> IF t = Idle THEN "RUNNING" ELSE "INACTIVE"]
  BY DEF Init
<1>5. /\ sched_priority \in [Task -> 0 .. MaxPrio] /\ lockcount = [t \in Task |-> 0]
      /\ \A t \in Task : sched_priority[t] = 0 <=> t = Idle
  BY DEF Init
<1>6. sched_priority[Idle] = 0 /\ \A t \in Task \ {Idle} : sched_priority[t] > 0
  <2>1. \A t \in Task : sched_priority[t] \in Nat
    BY <1>5, Bounds
  <2> QED BY <1>1, <1>5, <2>1
<1>7. PICK w : w = [t \in Task |-> IF task_state[t] = "RUNNING" THEN "READY" ELSE task_state[t]]
  OBVIOUS
<1>8. w = [t \in Task |-> IF t = Idle THEN "READY" ELSE "INACTIVE"]
  BY <1>4, <1>7
<1>9. w \in [Task -> {"READY", "INACTIVE"}] /\ {t \in Task : w[t] = "READY"} = {Idle}
  BY <1>1, <1>8
<1> QED BY <1>3, <1>5, <1>6, <1>7, <1>9 DEF Abs!Init, Abs!Prio

\* SchedInv holds in every reachable state.
LEMMA AlwaysSchedInv == Spec => []SchedInv
<1>1. Init => SchedInv
  BY InitInv
<1>2. SchedInv /\ [Next]_vars => SchedInv'
  BY SchedStep
<1> QED BY <1>1, <1>2, PTL DEF Spec

(***************************************************************************)
(* The task lists stay consistent with the task states, with each task on  *)
(* one list, prioritized lists in descending order, the head of            *)
(* g_readytorun the only running task, and no ASSERT of the list           *)
(* operations failing (sched_addreadytorun.c, sched_removereadytorun.c,    *)
(* sched_addprioritized.c, sched_mergepending.c, sched_setpriority.c), for *)
(* every finite set of tasks.                                              *)
(***************************************************************************)
THEOREM ListsStayConsistent == Spec => []ListsConsistent
<1>1. SchedInv => ListsConsistent
  BY InvLists
<1> QED BY <1>1, AlwaysSchedInv, PTL

(***************************************************************************)
(* The running task has the highest priority of g_readytorun, and a task   *)
(* is left in g_pendingtasks only while the running task holds the         *)
(* scheduler lock (sched_unlock.c, sched_setpriority.c, up_block_task).    *)
(***************************************************************************)
THEOREM HighestTaskRuns == Spec => []RunningIsHighest
<1>1. SchedInv => RunningIsHighest
  BY InvHighest
<1> QED BY <1>1, AlwaysSchedInv, PTL

(***************************************************************************)
(* The ordered lists of g_tasklisttable implement the scheduler of module  *)
(* SchedAbs: every operation of the kernel on the lists is one of its      *)
(* steps on sets of tasks, or is not seen by it.                           *)
(***************************************************************************)
THEOREM ListsImplement == Spec => ImplementsSchedAbs
<1>1. Init => Abs!Init
  BY InitAbs
<1>2. SchedInv /\ [Next]_vars => [Abs!Next]_(Abs!schedVars)
  BY SchedStep
<1> QED BY <1>1, <1>2, AlwaysSchedInv, PTL DEF Spec, ImplementsSchedAbs, Abs!Spec

-----------------------------------------------------------------------------
(***************************************************************************)
(* The order of the tasks.                                                 *)
(***************************************************************************)
\* Task u comes before task t in the list q.
Ahead(q, u, t) == \E i, j \in 1 .. Len(q) : i < j /\ q[i] = u /\ q[j] = t

\* The tasks outside X are the same in both lists, and in the same order.
SameOrder(q2, q, X) ==
    /\ \A u \in Task \ X : u \in ToSet(q2) <=> u \in ToSet(q)
    /\ \A u, t \in Task \ X : Ahead(q, u, t) => Ahead(q2, u, t)

\* The task t comes after every task of its priority that is in q.
GoesBehind(q2, q, t, pri) == \A u \in Task : u \in ToSet(q) /\ pri[u] = pri[t] => Ahead(q2, u, t)

LEMMA PutAhead ==
    ASSUME NEW r, NEW q \in Seq(Task), NEW k, NEW t, NEW pri, PutAt(r, q, k, t, pri), NEW u, NEW v, Ahead(q, u, v)
    PROVE  Ahead(r, u, v)
<1>0. Len(q) \in Nat /\ k \in 1 .. Len(q) + 1 /\ Len(r) = Len(q) + 1
  BY DEF PutAt
<1>1. PICK i \in 1 .. Len(q), j \in 1 .. Len(q) : i < j /\ q[i] = u /\ q[j] = v
  BY DEF Ahead
<1>2. ASSUME NEW a \in 1 .. Len(q)
      PROVE  \E b \in 1 .. Len(r) : b = (IF a < k THEN a ELSE a + 1) /\ r[b] = q[a]
  <2>1. CASE a < k
    <3>1. a \in 1 .. k - 1 /\ a \in 1 .. Len(r)
      BY <1>0, <2>1
    <3> QED BY <2>1, <3>1 DEF PutAt
  <2>2. CASE ~(a < k)
    <3>1. a \in k .. Len(q) /\ a + 1 \in 1 .. Len(r)
      BY <1>0, <2>2
    <3> QED BY <2>2, <3>1 DEF PutAt
  <2> QED BY <2>1, <2>2
<1>3. PICK a \in 1 .. Len(r) : a = (IF i < k THEN i ELSE i + 1) /\ r[a] = q[i]
  BY <1>2
<1>4. PICK b \in 1 .. Len(r) : b = (IF j < k THEN j ELSE j + 1) /\ r[b] = q[j]
  BY <1>2
<1>5. a < b
  BY <1>0, <1>1, <1>3, <1>4
<1> QED BY <1>1, <1>3, <1>4, <1>5 DEF Ahead

LEMMA PutBehind ==
    ASSUME NEW r, NEW q \in Seq(Task), NEW k, NEW t \in Task, NEW pri \in Priorities, PutAt(r, q, k, t, pri)
    PROVE  GoesBehind(r, q, t, pri)
<1>0. Len(q) \in Nat /\ k \in 1 .. Len(q) + 1 /\ Len(r) = Len(q) + 1 /\ r[k] = t /\ DOMAIN q = 1 .. Len(q)
  BY DEF PutAt
<1>1. ASSUME NEW u \in Task, u \in ToSet(q), pri[u] = pri[t] PROVE Ahead(r, u, t)
  <2>1. PICK j \in 1 .. Len(q) : q[j] = u
    BY <1>0, <1>1 DEF ToSet
  <2>2. pri[t] \in Nat
    BY PriorityType
  <2>3. ~(j \in k .. Len(q))
    <3>1. ASSUME j \in k .. Len(q) PROVE FALSE
      <4>1. pri[q[j]] < pri[t]
        BY <3>1 DEF PutAt
      <4> QED BY <1>1, <2>1, <2>2, <4>1
    <3> QED BY <3>1
  <2>4. j \in 1 .. k - 1 /\ j < k /\ j \in 1 .. Len(r) /\ k \in 1 .. Len(r)
    BY <1>0, <2>3
  <2>5. r[j] = u
    BY <2>1, <2>4 DEF PutAt
  <2> QED BY <1>0, <2>4, <2>5 DEF Ahead
<1> QED BY <1>1 DEF GoesBehind

\* sched_addprioritized: the others keep their order, the task goes behind its equals.
LEMMA InsertOrder ==
    ASSUME NEW q, Once(q), NEW pri \in Priorities, Descends(q, pri), NEW t \in Task, t \notin ToSet(q),
           NEW r, r = InsertFrom(q, 1, t, pri), NEW X, X = {t}
    PROVE  SameOrder(r, q, X) /\ GoesBehind(r, q, t, pri) /\ t \in ToSet(r)
<1>0. q \in Seq(Task) /\ Len(q) \in Nat
  BY DEF Once
<1>1. PICK i : i = 1
  OBVIOUS
<1>2. i \in 1 .. Len(q) + 1 /\ \A j \in 1 .. i - 1 : pri[t] <= pri[q[j]]
  BY <1>0, <1>1
<1>3. \E k \in i .. Len(q) + 1 : PutAt(InsertFrom(q, i, t, pri), q, k, t, pri)
  BY <1>0, <1>2, InsertFromPlace
<1>4. PICK k : PutAt(r, q, k, t, pri)
  BY <1>1, <1>3
<1>5. ToSet(r) = ToSet(q) \cup {t}
  <2>1. t \in Task \ ToSet(q)
    OBVIOUS
  <2> QED BY <1>4, <2>1, PutKeeps
<1>6. \A u, v \in Task \ X : Ahead(q, u, v) => Ahead(r, u, v)
  BY <1>0, <1>4, PutAhead
<1>7. GoesBehind(r, q, t, pri)
  BY <1>0, <1>4, PutBehind
<1> QED BY <1>5, <1>6, <1>7 DEF SameOrder

\* dq_rem: the others keep their order.
LEMMA RemoveOrder ==
    ASSUME NEW q, Once(q), NEW t \in ToSet(q), NEW r, r = RemoveFirst(q, t), NEW X, X = {t}
    PROVE  SameOrder(r, q, X)
<1>0. q \in Seq(Task) /\ Len(q) \in Nat /\ DOMAIN q = 1 .. Len(q)
  BY DEF Once
<1>2. PICK i \in 1 .. Len(q) : q[i] = t /\ RemoveFirst(q, t) = RemoveAt(q, i)
  BY ONLY t \in ToSet(q), RemoveFirstEntry, <1>0, Zenon
<1>3. /\ r \in Seq(Task) /\ Len(r) = Len(q) - 1
      /\ \A j \in 1 .. Len(q) - 1 : r[j] = IF j < i THEN q[j] ELSE q[j + 1]
  <2>1. r = RemoveAt(q, i)
    BY <1>2
  <2> QED BY ONLY <1>0, i \in 1 .. Len(q), <2>1, RemoveAtEntries, Zenon
<1>4. ToSet(r) = ToSet(q) \ {t}
  BY RemoveLeaves DEF Left
<1>5. ASSUME NEW a \in 1 .. Len(q), q[a] # t
      PROVE  \E b \in 1 .. Len(r) : b = (IF a < i THEN a ELSE a - 1) /\ r[b] = q[a]
  <2>1. a # i
    BY <1>2, <1>5
  <2>2. CASE a < i
    <3>1. a \in 1 .. Len(q) - 1 /\ a \in 1 .. Len(r)
      BY <1>0, <1>3, <2>2
    <3> QED BY <1>3, <2>2, <3>1
  <2>3. CASE ~(a < i)
    <3>1. a - 1 \in 1 .. Len(q) - 1 /\ a - 1 \in 1 .. Len(r) /\ ~(a - 1 < i) /\ (a - 1) + 1 = a
      BY <1>0, <1>3, <2>1, <2>3
    <3> QED BY <1>3, <2>3, <3>1
  <2> QED BY <2>2, <2>3
<1>6. ASSUME NEW u \in Task \ X, NEW v \in Task \ X, Ahead(q, u, v) PROVE Ahead(r, u, v)
  <2>1. PICK a \in 1 .. Len(q), b \in 1 .. Len(q) : a < b /\ q[a] = u /\ q[b] = v
    BY <1>6 DEF Ahead
  <2>2. q[a] # t /\ q[b] # t
    BY <2>1
  <2>3. PICK c \in 1 .. Len(r) : c = (IF a < i THEN a ELSE a - 1) /\ r[c] = q[a]
    BY <1>5, <2>2
  <2>4. PICK d \in 1 .. Len(r) : d = (IF b < i THEN b ELSE b - 1) /\ r[d] = q[b]
    BY <1>5, <2>2
  <2>5. c < d
    <3>1. a # i /\ b # i
      BY <1>2, <2>2
    <3> QED BY <1>0, <2>1, <2>3, <2>4, <3>1
  <2> QED BY <2>1, <2>3, <2>4, <2>5 DEF Ahead
<1> QED BY <1>4, <1>6 DEF SameOrder

\* The place that sched_mergepending finds for a pending task.
LEMMA MergeOnePlace ==
    ASSUME NEW ready, NEW pending, NEW pri, Mergeable(ready, pending, pri),
           NEW k \in 1 .. Len(pending), NEW m, MergedTo(m, ready, pending, pri, k - 1),
           NEW m2, m2 = MergeOne(m, pending[k], pri), NEW t, t = pending[k]
    PROVE  t \in Task /\ m.q \in Seq(Task) /\ \E x : PutAt(m2.q, m.q, x, t, pri)
<1>0. /\ pending \in Seq(Task) /\ Len(pending) \in Nat /\ pri \in Priorities
  BY DEF Mergeable, Once
<1>1. PICK q, at : q = m.q /\ at = m.at
  OBVIOUS
<1>2. /\ Once(q) /\ Descends(q, pri) /\ q \in Seq(Task) /\ Len(q) \in Nat /\ at \in 1 .. Len(q)
  BY <1>1 DEF MergedTo, Once
<1>3. t \in Task /\ pri[t] \in Nat
  BY <1>0, PriorityType
<1>4. \A j \in 1 .. at - 1 : pri[t] <= pri[q[j]]
  <2> TAKE j \in 1 .. at - 1
  <2>1. k - 1 > 0 /\ pri[pending[k - 1]] <= pri[q[j]]
    BY <1>1 DEF MergedTo
  <2>2. k - 1 \in 1 .. Len(pending) /\ k - 1 <= k
    BY <1>0, <2>1
  <2>3. pri[t] <= pri[pending[k - 1]]
    BY <2>2 DEF Mergeable, Descends
  <2>4. j \in 1 .. Len(q)
    BY <1>2
  <2>5. pending[k - 1] \in Task /\ q[j] \in Task
    BY <1>0, <1>2, <2>2, <2>4
  <2>6. pri[pending[k - 1]] \in Nat /\ pri[q[j]] \in Nat
    BY <1>0, <2>5, PriorityType
  <2> QED BY <1>3, <2>1, <2>3, <2>6
<1>5. at \in 1 .. Len(q) + 1
  BY <1>2
<1>6. \E x \in at .. Len(q) + 1 : PutAt(InsertFrom(q, at, t, pri), q, x, t, pri)
  BY <1>0, <1>2, <1>3, <1>4, <1>5, InsertFromPlace
<1>7. m2.q = InsertFrom(q, at, t, pri)
  BY <1>1 DEF MergeOne
<1> QED BY <1>1, <1>2, <1>3, <1>6, <1>7

\* The order once the first k pending tasks are merged: behind their equals of
\* both lists.
MergedOrder(q, ready, pending, pri, k) ==
    /\ \A u, t \in Task : Ahead(ready, u, t) => Ahead(q, u, t)
    /\ \A u \in Task, i \in 1 .. k : u \in ToSet(ready) /\ pri[u] = pri[pending[i]] => Ahead(q, u, pending[i])
    /\ \A i, j \in 1 .. k : i < j /\ pri[pending[i]] = pri[pending[j]] => Ahead(q, pending[i], pending[j])

LEMMA MergeOneOrder ==
    ASSUME NEW ready, NEW pending, NEW pri, Mergeable(ready, pending, pri),
           NEW k \in 1 .. Len(pending), NEW m, MergedTo(m, ready, pending, pri, k - 1),
           MergedOrder(m.q, ready, pending, pri, k - 1),
           NEW m2, m2 = MergeOne(m, pending[k], pri)
    PROVE  MergedOrder(m2.q, ready, pending, pri, k)
<1>0. /\ pending \in Seq(Task) /\ Len(pending) \in Nat /\ k \in Nat /\ pri \in Priorities
  BY DEF Mergeable, Once
<1>1. PICK q, r, t : q = m.q /\ r = m2.q /\ t = pending[k]
  OBVIOUS
<1>2. t \in Task /\ q \in Seq(Task) /\ \E x : PutAt(r, q, x, t, pri)
  BY <1>1, MergeOnePlace
<1>3. PICK x : PutAt(r, q, x, t, pri)
  BY <1>2
<1>4. \A u, v \in Task : Ahead(q, u, v) => Ahead(r, u, v)
  BY <1>2, <1>3, PutAhead
<1>5. GoesBehind(r, q, t, pri)
  BY <1>0, <1>2, <1>3, PutBehind
<1>6. ToSet(q) = ToSet(ready) \cup {pending[i] : i \in 1 .. k - 1}
  BY <1>1 DEF MergedTo
<1>7. MergedOrder(q, ready, pending, pri, k - 1)
  BY <1>1
<1>8. \A u, v \in Task : Ahead(ready, u, v) => Ahead(r, u, v)
  BY <1>4, <1>7 DEF MergedOrder
<1>9. \A i \in 1 .. k : pending[i] \in Task
  BY <1>0
<1>10. ASSUME NEW u \in Task, NEW i \in 1 .. k, u \in ToSet(ready), pri[u] = pri[pending[i]]
       PROVE  Ahead(r, u, pending[i])
  <2>1. CASE i = k
    BY <1>1, <1>5, <1>6, <1>10, <2>1 DEF GoesBehind
  <2>2. CASE i # k
    <3>1. i \in 1 .. k - 1
      BY <1>0, <2>2
    <3>2. Ahead(q, u, pending[i])
      BY <1>7, <1>10, <3>1 DEF MergedOrder
    <3> QED BY <1>4, <1>9, <3>2
  <2> QED BY <2>1, <2>2
<1>11. ASSUME NEW i \in 1 .. k, NEW j \in 1 .. k, i < j, pri[pending[i]] = pri[pending[j]]
       PROVE  Ahead(r, pending[i], pending[j])
  <2>0. i \in 1 .. k - 1
    BY <1>0, <1>11
  <2>1. CASE j = k
    <3>1. pending[i] \in ToSet(q) /\ pending[i] \in Task
      BY <1>6, <1>9, <2>0
    <3> QED BY <1>1, <1>5, <1>11, <2>1, <3>1 DEF GoesBehind
  <2>2. CASE j # k
    <3>1. j \in 1 .. k - 1
      BY <1>0, <2>2
    <3>2. Ahead(q, pending[i], pending[j])
      BY <1>7, <1>11, <2>0, <3>1 DEF MergedOrder
    <3> QED BY <1>4, <1>9, <3>2
  <2> QED BY <2>1, <2>2
<1> QED BY <1>1, <1>8, <1>10, <1>11 DEF MergedOrder

LEMMA MergeStepsOrder ==
    ASSUME NEW s, s.ok = TRUE, NEW ready, ready = s.list["READY"], NEW pending, pending = s.list["PENDING"],
           NEW pri, pri = s.pri, Mergeable(ready, pending, pri), NEW n, n = Len(pending)
    PROVE  MergedOrder(MergeSteps(s)[n].q, ready, pending, pri, n)
<1>1. PICK g : g = MergeSteps(s)
  OBVIOUS
<1>2. pending \in Seq(Task) /\ n \in Nat
  BY DEF Mergeable, Once
<1>3. Merges(g, s, n)
  BY <1>1, <1>2, MergeStepsEquation
<1>4. \A k \in 0 .. n : g[k] = IF k = 0 THEN MergeStart(s) ELSE MergeOne(g[k - 1], pending[k], pri)
  BY <1>3 DEF Merges
<1>5. MergedTo(MergeStart(s), ready, pending, pri, 0)
  BY MergeStartStep
<1>6. MergedOrder(MergeStart(s).q, ready, pending, pri, 0)
  BY DEF MergedOrder, MergeStart
<1> DEFINE Both(k) == MergedTo(g[k], ready, pending, pri, k) /\ MergedOrder(g[k].q, ready, pending, pri, k)
           Bad == {k \in 0 .. n : ~Both(k)}
<1>7. Bad = {}
  <2>1. SUFFICES ASSUME Bad # {} PROVE FALSE
    OBVIOUS
  <2>2. Bad \in SUBSET Nat
    BY <1>2
  <2>3. PICK k \in Bad : \A i \in Bad : k <= i
    BY <2>1, <2>2, LeastNumber
  <2>4. k \in 0 .. n /\ ~Both(k)
    OBVIOUS
  <2>5. CASE k = 0
    BY <1>4, <1>5, <1>6, <2>4, <2>5
  <2>6. CASE k # 0
    <3>1. k - 1 \in 0 .. n /\ ~(k <= k - 1) /\ k \in 1 .. Len(pending)
      BY <1>2, <2>4, <2>6
    <3>2. k - 1 \notin Bad
      BY <2>3, <3>1
    <3>3. MergedTo(g[k - 1], ready, pending, pri, k - 1) /\ MergedOrder(g[k - 1].q, ready, pending, pri, k - 1)
      BY <3>1, <3>2
    <3>4. g[k] = MergeOne(g[k - 1], pending[k], pri)
      BY <1>4, <2>4, <2>6
    <3>5. MergedTo(MergeOne(g[k - 1], pending[k], pri), ready, pending, pri, k)
      BY <3>1, <3>3, MergeOneStep
    <3>6. MergedOrder(g[k].q, ready, pending, pri, k)
      BY <3>1, <3>3, <3>4, MergeOneOrder
    <3> QED BY <2>4, <3>4, <3>5, <3>6
  <2> QED BY <2>5, <2>6
<1>8. n \in 0 .. n
  BY <1>2
<1>9. MergedOrder(g[n].q, ready, pending, pri, n)
  BY <1>7, <1>8
<1> QED BY <1>1, <1>9

-----------------------------------------------------------------------------
(***************************************************************************)
(* The order of the runnable tasks, those of g_readytorun before those of  *)
(* g_pendingtasks.                                                         *)
(***************************************************************************)
Precedes(L, u, t) ==
    \/ Ahead(L["READY"], u, t)
    \/ Ahead(L["PENDING"], u, t)
    \/ u \in ToSet(L["READY"]) /\ t \in ToSet(L["PENDING"])

Runnables(L) == ToSet(L["READY"]) \cup ToSet(L["PENDING"])

\* Outside X, the same tasks are runnable, none leaves g_readytorun, and equals
\* are in the same order.
Keeps(L2, L, pri, X) ==
    /\ \A u \in Task \ X : u \in Runnables(L2) <=> u \in Runnables(L)
    /\ \A u \in Task \ X : u \in ToSet(L["READY"]) => u \in ToSet(L2["READY"])
    /\ \A u, t \in Task \ X : pri[u] = pri[t] /\ Precedes(L, u, t) => Precedes(L2, u, t)

\* The task t is behind the equals that were in g_readytorun.
JoinsLast(L2, L, pri, t) ==
    \A u \in Task : u # t /\ u \in ToSet(L["READY"]) /\ pri[u] = pri[t] => Precedes(L2, u, t)

LEMMA KeepsLists ==
    ASSUME NEW L, NEW L2, NEW pri, NEW X, SameOrder(L2["READY"], L["READY"], X),
           SameOrder(L2["PENDING"], L["PENDING"], X)
    PROVE  Keeps(L2, L, pri, X)
BY DEF Keeps, SameOrder, Precedes, Runnables

LEMMA KeepsSame ==
    ASSUME NEW L, NEW L2, NEW pri, NEW X, L2["READY"] = L["READY"], L2["PENDING"] = L["PENDING"]
    PROVE  Keeps(L2, L, pri, X)
BY DEF Keeps, Precedes, Runnables

LEMMA KeepsThen ==
    ASSUME NEW L, NEW L1, NEW L2, NEW pri, NEW p, NEW X, \A u \in Task \ X : p[u] = pri[u],
           Keeps(L1, L, pri, X), Keeps(L2, L1, p, X)
    PROVE  Keeps(L2, L, pri, X)
BY DEF Keeps

LEMMA KeepsMore ==
    ASSUME NEW L, NEW L2, NEW pri, NEW X, NEW Y, X = {}, Keeps(L2, L, pri, X)
    PROVE  Keeps(L2, L, pri, Y)
BY DEF Keeps

LEMMA LastThen ==
    ASSUME NEW L, NEW L1, NEW L2, NEW pri, NEW t \in Task, NEW X, X = {}, JoinsLast(L1, L, pri, t), Keeps(L2, L1, pri, X)
    PROVE  JoinsLast(L2, L, pri, t)
BY DEF Keeps, JoinsLast

\* The ready and the pending list of a scheduler value.
LEMMA RunnableLists ==
    ASSUME NEW s, Good(s), NEW l \in {"READY", "PENDING"}
    PROVE  /\ Once(s.list[l]) /\ Descends(s.list[l], s.pri) /\ s.pri \in Priorities
           /\ \A t \in Task : t \in ToSet(s.list[l]) <=> Where(s.st)[t] = l
           /\ "READY" \in DOMAIN s.list /\ "PENDING" \in DOMAIN s.list
<1>1. Placed(s.list, s.st, s.pri) /\ DOMAIN s.list = Lists /\ s.pri \in Priorities
  BY GoodFields
<1>2. l \in Lists /\ l \in Prioritized /\ "READY" \in Lists /\ "PENDING" \in Lists
  BY ListNames
<1> QED BY <1>1, <1>2 DEF Placed

LEMMA MergeKeeps ==
    ASSUME NEW s, Good(s), NEW r, r = sched_mergepending(s), NEW X, X = {}
    PROVE  Keeps(r.list, s.list, s.pri, X)
<1>1. PICK L, st, pri, k, ready, pending, n :
        /\ L = s.list /\ st = s.st /\ pri = s.pri /\ k = s.ok
        /\ ready = s.list["READY"] /\ pending = s.list["PENDING"] /\ n = Len(pending)
  OBVIOUS
<1>2. s = Value(L, st, pri, k)
  BY <1>1, GoodFields
<1>3. Holds(k) /\ Placed(L, st, pri) /\ DOMAIN L = Lists
  BY <1>1, GoodFields
<1>4. Mergeable(ready, pending, pri)
  <2>1. "READY" \in Prioritized /\ "PENDING" \in Prioritized /\ Prioritized \subseteq Lists /\ Idle \in Task
    BY ListNames
  <2> QED BY <1>1, <1>3, <2>1 DEF Mergeable, Placed
<1>5. PICK m, q : m = MergeSteps(s)[n] /\ q = m.q
  OBVIOUS
<1>6. s.ok = TRUE
  BY <1>1, <1>3 DEF Holds
<1>7. MergedTo(m, ready, pending, pri, n)
  <2>1. Mergeable(s.list["READY"], s.list["PENDING"], s.pri)
    BY <1>1, <1>4
  <2>2. MergedTo(MergeSteps(s)[Len(s.list["PENDING"])], s.list["READY"], s.list["PENDING"], s.pri, Len(s.list["PENDING"]))
    BY <1>6, <2>1, MergeStepsMerge
  <2> QED BY <1>1, <1>5, <2>2
<1>8. MergedOrder(q, ready, pending, pri, n)
  <2>1. MergedOrder(MergeSteps(s)[n].q, ready, pending, pri, n)
    BY <1>1, <1>4, <1>6, MergeStepsOrder
  <2> QED BY <1>5, <2>1
<1>9. PICK L2 : L2 = MergedLists(m, L)
  OBVIOUS
<1>10. r.list = L2
  <2>1. m = MergeSteps(Value(L, st, pri, k))[Len(L["PENDING"])]
    BY <1>1, <1>2, <1>5
  <2>2. sched_mergepending(Value(L, st, pri, k)) = Value(MergedLists(m, L), MergedStates(m, L, st), pri, m.ok)
    BY <2>1, MergePendingValue
  <2>3. r = Value(L2, MergedStates(m, L, st), pri, m.ok)
    BY <1>2, <1>9, <2>2
  <2> QED BY <2>3, ValueFields
<1>11. L2["READY"] = q /\ L2["PENDING"] = <<>>
  <2>1. "READY" \in Lists /\ "PENDING" \in Lists
    BY ListNames
  <2> QED BY <1>3, <1>5, <1>9, <2>1 DEF Upd, MergedLists
<1>12. pending \in Seq(Task) /\ n \in Nat /\ DOMAIN pending = 1 .. n
  BY <1>1, <1>4 DEF Mergeable, Once
<1>13. ToSet(pending) = {pending[i] : i \in 1 .. n} /\ ToSet(L2["PENDING"]) = {}
  BY <1>11, <1>12 DEF ToSet
<1>14. ToSet(q) = ToSet(ready) \cup ToSet(pending)
  BY <1>5, <1>7, <1>13 DEF MergedTo
<1>15. Runnables(L2) = Runnables(L)
  BY <1>1, <1>11, <1>13, <1>14 DEF Runnables
<1>16. ASSUME NEW u \in Task, NEW t \in Task, pri[u] = pri[t], Precedes(L, u, t) PROVE Precedes(L2, u, t)
  <2>1. Ahead(q, u, t)
    <3>1. CASE Ahead(ready, u, t)
      BY <1>8, <3>1 DEF MergedOrder
    <3>2. CASE Ahead(pending, u, t)
      <4>1. PICK i \in 1 .. n, j \in 1 .. n : i < j /\ pending[i] = u /\ pending[j] = t
        BY <1>1, <3>2 DEF Ahead
      <4> QED BY <1>8, <1>16, <4>1 DEF MergedOrder
    <3>3. CASE u \in ToSet(ready) /\ t \in ToSet(pending)
      <4>1. PICK i \in 1 .. n : pending[i] = t
        BY <1>13, <3>3
      <4> QED BY <1>8, <1>16, <3>3, <4>1 DEF MergedOrder
    <3> QED BY <1>1, <1>16, <3>1, <3>2, <3>3 DEF Precedes
  <2> QED BY <1>11, <2>1 DEF Precedes
<1>17. Keeps(L2, L, pri, X)
  BY <1>1, <1>11, <1>14, <1>15, <1>16 DEF Keeps
<1> QED BY <1>1, <1>10, <1>17

LEMMA RemoveReadyKeeps ==
    ASSUME NEW s, Good(s), NEW t \in Task, Where(s.st)[t] = "READY", NEW r, r = sched_removereadytorun(s, t),
           NEW X, X = {t}, NEW pri
    PROVE  Keeps(r.list, s.list, pri, X)
<1>1. PICK L, q, ready : L = s.list /\ ready = L["READY"] /\ q = RemoveFirst(L["READY"], t)
  OBVIOUS
<1>2. r.list = Upd(L, "READY", q)
  BY <1>1, GoodFields, ValueFields, RemoveReadyValue
<1>3. Once(ready) /\ t \in ToSet(ready) /\ "READY" \in DOMAIN L /\ "PENDING" \in DOMAIN L
  BY <1>1, RunnableLists
<1>4. SameOrder(q, ready, X)
  BY <1>1, <1>3, RemoveOrder
<1>5. r.list["READY"] = q /\ r.list["PENDING"] = L["PENDING"]
  BY <1>2, <1>3 DEF Upd
<1>6. SameOrder(r.list["PENDING"], L["PENDING"], X)
  BY <1>5 DEF SameOrder
<1>7. SameOrder(r.list["READY"], L["READY"], X)
  BY <1>1, <1>4, <1>5
<1> QED BY <1>1, <1>6, <1>7, KeepsLists

\* The list that the task joins.
LEMMA AddReadyList ==
    ASSUME NEW s, NEW t, NEW r, r = sched_addreadytorun(s, t), NEW l,
           l = IF lockcount[First(s)] > 0 /\ s.pri[First(s)] < s.pri[t] THEN "PENDING" ELSE "READY",
           s = Value(s.list, s.st, s.pri, s.ok)
    PROVE  r.list = Upd(s.list, l, InsertFrom(s.list[l], 1, t, s.pri))
<1>1. PICK a : a = sched_addprioritized(s, t, l)
  OBVIOUS
<1>2. a = Value(Upd(s.list, l, InsertFrom(s.list[l], 1, t, s.pri)), s.st, s.pri, s.ok)
  BY <1>1, AddPrioritizedValue
<1>3. \A b, x : [a EXCEPT !.st[b] = x].list = a.list
  BY <1>2 DEF Value
<1>4. \A b, c : [a EXCEPT !.st[b] = "RUNNING", !.st[c] = "READY", !.ok = @ /\ lockcount[c] = 0].list = a.list
  BY <1>2 DEF Value
<1>5. r.list = a.list
  BY <1>1, <1>3, <1>4 DEF sched_addreadytorun, First
<1> QED BY <1>2, <1>5, ValueFields

LEMMA AddReadyKeeps ==
    ASSUME NEW s, Good(s), NEW t \in Task, s.st[t] = "INVALID", NEW r, r = sched_addreadytorun(s, t),
           NEW X, X = {t}
    PROVE  Keeps(r.list, s.list, s.pri, X) /\ JoinsLast(r.list, s.list, s.pri, t)
<1>1. PICK l, L, pri :
        /\ l = IF lockcount[First(s)] > 0 /\ s.pri[First(s)] < s.pri[t] THEN "PENDING" ELSE "READY"
        /\ L = s.list /\ pri = s.pri
  OBVIOUS
<1>2. l \in {"READY", "PENDING"} /\ s = Value(s.list, s.st, s.pri, s.ok)
  BY <1>1, GoodFields
<1>3. PICK q : q = InsertFrom(L[l], 1, t, pri)
  OBVIOUS
<1>4. r.list = Upd(L, l, q)
  <2>1. r.list = Upd(s.list, l, InsertFrom(s.list[l], 1, t, s.pri))
    BY <1>1, <1>2, AddReadyList
  <2> QED BY <1>1, <1>3, <2>1
<1>5. /\ Once(L[l]) /\ Descends(L[l], pri) /\ pri \in Priorities
      /\ \A u \in Task : u \in ToSet(L[l]) <=> Where(s.st)[u] = l
      /\ "READY" \in DOMAIN L /\ "PENDING" \in DOMAIN L
  BY <1>1, <1>2, RunnableLists
<1>6. t \notin ToSet(L[l])
  <2>1. Where(s.st)[t] = "INVALID"
    BY GoodStates
  <2> QED BY <1>2, <1>5, <2>1
<1>7. PICK qq : qq = L[l]
  OBVIOUS
<1>8. SameOrder(q, qq, X) /\ GoesBehind(q, qq, t, pri) /\ t \in ToSet(q)
  BY <1>3, <1>5, <1>6, <1>7, InsertOrder
<1>9. r.list[l] = q /\ \A x \in {"READY", "PENDING"} : x # l => r.list[x] = L[x]
  BY <1>2, <1>4, <1>5 DEF Upd
<1>10. ASSUME NEW x \in {"READY", "PENDING"} PROVE SameOrder(r.list[x], L[x], X)
  <2>1. CASE x = l
    BY <1>7, <1>8, <1>9, <2>1
  <2>2. CASE x # l
    BY <1>9, <2>2 DEF SameOrder
  <2> QED BY <2>1, <2>2
<1>11. SameOrder(r.list["READY"], L["READY"], X) /\ SameOrder(r.list["PENDING"], L["PENDING"], X)
  BY <1>10
<1>12. Keeps(r.list, L, pri, X)
  BY <1>11, KeepsLists
<1>13. ASSUME NEW u \in Task, u # t, u \in ToSet(L["READY"]), pri[u] = pri[t] PROVE Precedes(r.list, u, t)
  <2>1. CASE l = "READY"
    BY <1>7, <1>8, <1>9, <1>13, <2>1 DEF GoesBehind, Precedes
  <2>2. CASE l = "PENDING"
    BY <1>8, <1>9, <1>13, <2>2 DEF Precedes
  <2> QED BY <1>2, <2>1, <2>2
<1>14. JoinsLast(r.list, L, pri, t)
  BY <1>13 DEF JoinsLast
<1> QED BY <1>1, <1>12, <1>14

\* The operations on the other lists.
SameLists(r, s) == r.list["READY"] = s.list["READY"] /\ r.list["PENDING"] = s.list["PENDING"]

LEMMA OtherList ==
    ASSUME NEW s, Good(s), NEW r, NEW l, l \notin {"READY", "PENDING"}, NEW q, r.list = Upd(s.list, l, q)
    PROVE  SameLists(r, s)
<1>1. "READY" \in DOMAIN s.list /\ "PENDING" \in DOMAIN s.list
  BY RunnableLists
<1> QED BY <1>1 DEF SameLists, Upd

LEMMA AddBlockedLists ==
    ASSUME NEW s, Good(s), NEW t, NEW l \in Blocked, NEW r, r = sched_addblocked(s, t, l)
    PROVE  SameLists(r, s)
<1>1. PICK q : q = IF l \in PrioBlocked THEN InsertFrom(s.list[l], 1, t, s.pri) ELSE Append(s.list[l], t)
  OBVIOUS
<1>2. r.list = Upd(s.list, l, q)
  BY <1>1, GoodFields, ValueFields, AddBlockedValue
<1>3. l \notin {"READY", "PENDING"}
  BY ListNames
<1> QED BY <1>2, <1>3, OtherList

LEMMA RemoveBlockedLists ==
    ASSUME NEW s, Good(s), NEW t, s.st[t] \in Blocked \cup {"INACTIVE"}, NEW r, r = sched_removeblocked(s, t)
    PROVE  SameLists(r, s)
<1>1. PICK l, q : l = s.st[t] /\ q = RemoveFirst(s.list[l], t)
  OBVIOUS
<1>2. r.list = Upd(s.list, l, q)
  BY <1>1, GoodFields, ValueFields, RemoveBlockedValue
<1>3. l \notin {"READY", "PENDING"}
  BY <1>1, ListNames
<1> QED BY <1>2, <1>3, OtherList

LEMMA CreatedLists ==
    ASSUME NEW s, Good(s), NEW t, NEW n, NEW r, r = Created(s, t, n)
    PROVE  SameLists(r, s) /\ r.pri = Upd(s.pri, t, n)
<1>1. PICK l, q : l = "INACTIVE" /\ q = Append(s.list[l], t)
  OBVIOUS
<1>2. r.list = Upd(s.list, l, q) /\ r.pri = Upd(s.pri, t, n)
  BY <1>1, GoodFields, ValueFields, CreatedValue
<1>3. l \notin {"READY", "PENDING"}
  BY <1>1
<1> QED BY <1>2, <1>3, OtherList

LEMMA RetunedLists ==
    ASSUME NEW s, Good(s), NEW t, NEW n, NEW r, r = Retuned(s, t, n)
    PROVE  r.list = s.list /\ r.pri = Upd(s.pri, t, n)
BY GoodFields, ValueFields, RetuneValue

\* A task that is taken off the list of its state.
LEMMA TakenKeeps ==
    ASSUME NEW s, Good(s), NEW t \in Task, s.st[t] \in Lists, NEW r, r = Taken(s, t), NEW X, X = {t}, NEW pri
    PROVE  Keeps(r.list, s.list, pri, X)
<1>1. PICK l, q, L : l = s.st[t] /\ q = RemoveFirst(s.list[l], t) /\ L = s.list
  OBVIOUS
<1>2. r.list = Upd(L, l, q)
  BY <1>1, GoodFields, ValueFields, TakenValue
<1>3. Where(s.st)[t] = l
  BY <1>1, GoodStates, ListNames
<1>4. CASE l \in {"READY", "PENDING"}
  <2>1. Once(L[l]) /\ t \in ToSet(L[l]) /\ l \in DOMAIN L /\ "READY" \in DOMAIN L /\ "PENDING" \in DOMAIN L
    BY <1>1, <1>3, <1>4, RunnableLists
  <2>2. PICK qq : qq = L[l]
    OBVIOUS
  <2>3. SameOrder(q, qq, X)
    BY <1>1, <2>1, <2>2, RemoveOrder
  <2>4. r.list[l] = q /\ \A x \in {"READY", "PENDING"} : x # l => r.list[x] = L[x]
    BY <1>2, <2>1 DEF Upd
  <2>5. ASSUME NEW x \in {"READY", "PENDING"} PROVE SameOrder(r.list[x], L[x], X)
    <3>1. CASE x = l
      BY <2>2, <2>3, <2>4, <3>1
    <3>2. CASE x # l
      BY <2>4, <3>2 DEF SameOrder
    <3> QED BY <3>1, <3>2
  <2>6. SameOrder(r.list["READY"], L["READY"], X) /\ SameOrder(r.list["PENDING"], L["PENDING"], X)
    BY <2>5
  <2> QED BY <1>1, <2>6, KeepsLists
<1>5. CASE l \notin {"READY", "PENDING"}
  <2>1. r.list["READY"] = s.list["READY"] /\ r.list["PENDING"] = s.list["PENDING"]
    <3>1. r.list = Upd(s.list, l, q)
      BY <1>1, <1>2
    <3> QED BY <1>5, <3>1, OtherList DEF SameLists
  <2> QED BY <2>1, KeepsSame
<1> QED BY <1>4, <1>5

-----------------------------------------------------------------------------
(***************************************************************************)
(* KeepOrder on scheduler values, A being the tasks that may be overtaken. *)
(***************************************************************************)
InOrder(r, s, A) ==
    \A t, u \in Task :
       (/\ t # u /\ u \in Runnables(s.list) /\ u \in Runnables(r.list)
        /\ r.pri[t] = r.pri[u] /\ r.pri[u] = s.pri[u])
       => /\ (/\ t \in Runnables(s.list) /\ t \in Runnables(r.list) /\ r.pri[t] = s.pri[t]
              /\ Precedes(s.list, u, t) /\ u \notin A) => Precedes(r.list, u, t)
          /\ (/\ t \notin Runnables(s.list) /\ t \in ToSet(r.list["READY"]) /\ u \in ToSet(s.list["READY"]))
             => Precedes(r.list, u, t)

LEMMA SameInOrder ==
    ASSUME NEW s, NEW r, NEW A, SameLists(r, s)
    PROVE  InOrder(r, s, A)
BY DEF SameLists, InOrder, Precedes, Runnables

LEMMA AllInOrder ==
    ASSUME NEW s, NEW r, NEW A, NEW X, X = {}, Keeps(r.list, s.list, s.pri, X)
    PROVE  InOrder(r, s, A)
BY DEF Keeps, InOrder, Runnables

\* The task x is no longer runnable.
LEMMA LeaveInOrder ==
    ASSUME NEW s, NEW r, NEW A, NEW x, NEW X, X = {x}, Keeps(r.list, s.list, s.pri, X), x \notin Runnables(r.list)
    PROVE  InOrder(r, s, A)
BY DEF Keeps, InOrder, Runnables

\* The task x was not runnable.
LEMMA JoinInOrder ==
    ASSUME NEW s, NEW r, NEW A, NEW x, NEW X, X = {x}, Keeps(r.list, s.list, s.pri, X), x \notin Runnables(s.list),
           JoinsLast(r.list, s.list, r.pri, x)
    PROVE  InOrder(r, s, A)
<1>1. ASSUME NEW t \in Task, NEW u \in Task, t # u, u \in Runnables(s.list), r.pri[t] = r.pri[u],
             r.pri[u] = s.pri[u]
      PROVE  /\ (/\ t \in Runnables(s.list) /\ r.pri[t] = s.pri[t] /\ Precedes(s.list, u, t)) => Precedes(r.list, u, t)
             /\ (/\ t \notin Runnables(s.list) /\ t \in ToSet(r.list["READY"]) /\ u \in ToSet(s.list["READY"]))
                => Precedes(r.list, u, t)
  <2>1. u # x
    BY <1>1
  <2>2. CASE t = x
    BY <1>1, <2>1, <2>2 DEF JoinsLast
  <2>3. CASE t # x
    <3>1. t \in ToSet(r.list["READY"]) => t \in Runnables(s.list)
      BY <2>3 DEF Keeps, Runnables
    <3> QED BY <1>1, <2>1, <2>3, <3>1 DEF Keeps
  <2> QED BY <2>2, <2>3
<1> QED BY <1>1 DEF InOrder

\* The task x may be overtaken, and overtakes no equal itself.
LEMMA MoveInOrder ==
    ASSUME NEW s, NEW r, NEW A, NEW x \in A, NEW X, X = {x}, Keeps(r.list, s.list, s.pri, X),
           x \in Runnables(s.list),
           \A u \in Task : u # x /\ r.pri[u] = r.pri[x] /\ Precedes(s.list, u, x) => Precedes(r.list, u, x)
    PROVE  InOrder(r, s, A)
<1>1. ASSUME NEW t \in Task, NEW u \in Task, t # u, r.pri[t] = r.pri[u], r.pri[u] = s.pri[u]
      PROVE  /\ (r.pri[t] = s.pri[t] /\ Precedes(s.list, u, t) /\ u \notin A) => Precedes(r.list, u, t)
             /\ ~(t \notin Runnables(s.list) /\ t \in ToSet(r.list["READY"]))
  <2>2. CASE t = x
    BY <1>1, <2>2
  <2>3. CASE t # x
    <3>1. t \in ToSet(r.list["READY"]) => t \in Runnables(s.list)
      BY <2>3 DEF Keeps, Runnables
    <3> QED BY <1>1, <2>3, <3>1 DEF Keeps
  <2> QED BY <2>2, <2>3
<1> QED BY <1>1 DEF InOrder

\* A ready task is taken off its list and added again, with any priority.
LEMMA MoveKeeps ==
    ASSUME NEW s, Good(s), NEW t \in Task \ {Idle}, Where(s.st)[t] = "READY", NEW n \in 1 .. MaxPrio,
           lockcount \in [Task -> Nat], NEW r, r = Moves(s, t, n), NEW X, X = {t}
    PROVE  /\ Good(r) /\ r.pri = Upd(s.pri, t, n)
           /\ Keeps(r.list, s.list, s.pri, X) /\ JoinsLast(r.list, s.list, r.pri, t)
<1>1. PICK a, b, p : a = sched_removereadytorun(s, t) /\ b = Retuned(a, t, n) /\ p = Upd(s.pri, t, n)
  OBVIOUS
<1>2. Good(a) /\ Where(a.st) = Upd(Where(s.st), t, "INVALID") /\ a.pri = s.pri /\ a.st[t] = "INVALID"
  BY <1>1, RemoveReadyLeaves
<1>3. Where(s.st) \in WhereTo /\ s.pri \in Priorities
  BY GoodView DEF WhereTo
<1>4. Where(a.st)[t] = "INVALID"
  BY <1>2, <1>3 DEF Upd, WhereTo
<1>5. Reached(b, Where(a.st), Upd(a.pri, t, n))
  <2>1. Where(a.st)[t] \notin Prioritized
    BY <1>4, ListNames
  <2> QED BY <1>1, <1>2, <2>1, RetuneGood
<1>6. Good(b) /\ Where(b.st)[t] = "INVALID" /\ b.pri = p
  BY <1>1, <1>2, <1>4, <1>5 DEF Reached
<1>7. b.st[t] = "INVALID"
  BY <1>6, GoodStates
<1>8. r = sched_addreadytorun(b, t)
  BY <1>1 DEF Moves
<1>9. Keeps(r.list, b.list, b.pri, X) /\ JoinsLast(r.list, b.list, b.pri, t)
  BY <1>6, <1>7, <1>8, AddReadyKeeps
<1>10. PICK c, d : c = Between(s, t) /\ d = Abs!AddReady(c, Where(s.st), p, lockcount, t)
  OBVIOUS
<1>11. Good(r) /\ r.pri = p
  BY <1>1, <1>10, MoveReached DEF Reached
<1>12. b.list = a.list
  BY <1>1, <1>2, RetunedLists
<1>13. Keeps(a.list, s.list, s.pri, X)
  BY <1>1, RemoveReadyKeeps
<1>14. Keeps(r.list, s.list, s.pri, X)
  <2>1. \A u \in Task \ X : p[u] = s.pri[u]
    BY <1>1, <1>3 DEF Upd, Priorities
  <2>2. Keeps(r.list, a.list, p, X)
    BY <1>6, <1>9, <1>12
  <2> QED BY <1>13, <2>1, <2>2, KeepsThen
<1>15. JoinsLast(r.list, s.list, r.pri, t)
  <2>1. \A u \in Task : u # t /\ u \in ToSet(s.list["READY"]) => u \in ToSet(a.list["READY"])
    BY <1>13 DEF Keeps
  <2> QED BY <1>6, <1>9, <1>11, <1>12, <2>1 DEF JoinsLast
<1> QED BY <1>1, <1>11, <1>14, <1>15

\* A task of the ready list that goes behind its ready equals is in order.
LEMMA LastInOrder ==
    ASSUME NEW s, Good(s), NEW t \in Task, Where(s.st)[t] = "READY", NEW r, NEW A, t \in A, NEW X, X = {t},
           Keeps(r.list, s.list, s.pri, X), JoinsLast(r.list, s.list, r.pri, t)
    PROVE  InOrder(r, s, A)
<1>1. t \in ToSet(s.list["READY"]) /\ t \notin ToSet(s.list["PENDING"])
  BY RunnableLists
<1>2. Once(s.list["READY"]) /\ Once(s.list["PENDING"])
  BY RunnableLists
<1>3. ASSUME NEW u \in Task, Precedes(s.list, u, t) PROVE u \in ToSet(s.list["READY"])
  <2>1. ~Ahead(s.list["PENDING"], u, t)
    BY <1>1, <1>2 DEF Ahead, Once, ToSet
  <2>2. Ahead(s.list["READY"], u, t)
    BY <1>1, <1>3, <2>1 DEF Precedes
  <2> QED BY <1>2, <2>2 DEF Ahead, Once, ToSet
<1>4. \A u \in Task : u # t /\ r.pri[u] = r.pri[t] /\ Precedes(s.list, u, t) => Precedes(r.list, u, t)
  BY <1>3 DEF JoinsLast
<1>5. t \in Runnables(s.list)
  BY <1>1 DEF Runnables
<1> QED BY <1>4, <1>5, MoveInOrder

LEMMA MovesInOrder ==
    ASSUME NEW s, Good(s), NEW t \in Task \ {Idle}, Where(s.st)[t] = "READY", NEW n \in 1 .. MaxPrio,
           lockcount \in [Task -> Nat], NEW m, m = Moves(s, t, n), NEW A, t \in A,
           NEW r, r = m \/ r = sched_mergepending(m)
    PROVE  InOrder(r, s, A)
<1>1. PICK X, E : X = {t} /\ E = {}
  OBVIOUS
<1>2. Good(m) /\ Keeps(m.list, s.list, s.pri, X) /\ JoinsLast(m.list, s.list, m.pri, t) /\ m.pri = Upd(s.pri, t, n)
  BY <1>1, MoveKeeps
<1>3. CASE r = m
  BY <1>1, <1>2, <1>3, LastInOrder
<1>4. CASE r = sched_mergepending(m)
  <2>1. Keeps(r.list, m.list, m.pri, E)
    BY <1>1, <1>2, <1>4, MergeKeeps
  <2>2. JoinsLast(r.list, s.list, m.pri, t)
    BY <1>1, <1>2, <2>1, LastThen
  <2>3. Keeps(r.list, m.list, m.pri, X)
    BY <1>1, <2>1, KeepsMore
  <2>4. s.pri \in Priorities
    BY GoodFields
  <2>5. \A u \in Task \ X : m.pri[u] = s.pri[u]
    BY <1>1, <1>2, <2>4 DEF Upd, Priorities
  <2>6. Keeps(r.list, s.list, s.pri, X)
    BY <1>2, <2>3, <2>5, KeepsThen
  <2>7. r.pri = m.pri
    BY <1>2, <1>4, MergePendingGood DEF Reached
  <2> QED BY <1>1, <2>2, <2>6, <2>7, LastInOrder
<1> QED BY <1>3, <1>4

\* A task that is filed again on the list it waits on.
LEMMA RefileInOrder ==
    ASSUME NEW s, Good(s), NEW t \in Task \ {Idle}, s.st[t] \in Prioritized \ {"READY"},
           NEW n \in 1 .. MaxPrio, NEW r, r = sched_setpriority(s, t, n), NEW A, t \in A
    PROVE  InOrder(r, s, A)
<1>1. PICK L, l, q1, L1, p : L = s.list /\ l = s.st[t] /\ q1 = RemoveFirst(L[l], t) /\ L1 = Upd(L, l, q1) /\ p = Upd(s.pri, t, n)
  OBVIOUS
<1>2. l \in Prioritized /\ l \in Lists /\ l # "READY" /\ l # "RUNNING"
  BY <1>1, ListNames
<1>3. PICK q : q = InsertFrom(q1, 1, t, p)
  OBVIOUS
<1>4. L1[l] = q1 /\ DOMAIN L = Lists
  BY <1>1, <1>2, GoodFields DEF Upd
<1>5. r.list = Upd(L1, l, q) /\ r.pri = p
  <2>1. r = sched_addprioritized(Refiled(s, t, n), t, l)
    <3>1. r = sched_addprioritized([s EXCEPT !.list[l] = RemoveFirst(@, t), !.pri[t] = n], t, l)
      BY <1>1, <1>2 DEF sched_setpriority
    <3> QED BY <1>1, <3>1 DEF Refiled
  <2>2. Refiled(s, t, n) = Value(L1, s.st, p, s.ok)
    BY <1>1, GoodFields, RefiledValue
  <2>3. r = Value(Upd(L1, l, InsertFrom(L1[l], 1, t, p)), s.st, p, s.ok)
    BY <2>1, <2>2, AddPrioritizedValue
  <2> QED BY <1>3, <1>4, <2>3, ValueFields
<1>a. L1 = Upd(L, l, q1)
  BY <1>1
<1>b. \A x \in Lists : x # l => L1[x] = L[x]
  BY <1>4, <1>a DEF Upd
<1>c. DOMAIN L1 = Lists /\ "READY" \in Lists /\ "PENDING" \in Lists
  BY <1>4, <1>a, ListNames DEF Upd
<1>d. r.list[l] = q /\ \A x \in Lists : x # l => r.list[x] = L[x]
  BY <1>2, <1>5, <1>b, <1>c DEF Upd
<1>6. CASE l # "PENDING"
  <2>1. r.list["READY"] = L["READY"] /\ r.list["PENDING"] = L["PENDING"]
    BY <1>2, <1>6, <1>c, <1>d
  <2> QED BY <1>1, <2>1, SameInOrder DEF SameLists
<1>7. CASE l = "PENDING"
  <2>1. PICK X, qq : X = {t} /\ qq = L["PENDING"]
    OBVIOUS
  <2>2. Where(s.st)[t] = "PENDING" /\ t \in Task
    BY <1>1, <1>7, GoodStates
  <2>3. Once(qq) /\ Descends(qq, s.pri) /\ t \in ToSet(qq) /\ t \notin ToSet(L["READY"]) /\ s.pri \in Priorities
    BY <1>1, <2>1, <2>2, RunnableLists
  <2>4. SameOrder(q1, qq, X)
    BY <1>1, <1>7, <2>1, <2>3, RemoveOrder
  <2>5. Left(q1, qq, t)
    BY <1>1, <1>7, <2>1, <2>3, RemoveLeaves
  <2>6. Once(q1) /\ ToSet(q1) = ToSet(qq) \ {t} /\ Descends(q1, s.pri)
    BY <2>3, <2>5 DEF Left
  <2>7. p \in Priorities
    BY <1>1, <2>3, Bounds DEF Priorities, Upd
  <2>8. Descends(q1, p)
    <3>1. \A i \in 1 .. Len(q1) : p[q1[i]] = s.pri[q1[i]]
      <4>1. \A i \in 1 .. Len(q1) : q1[i] \in ToSet(q1) /\ q1[i] \in Task
        BY <2>6 DEF Once, ToSet
      <4> QED BY <1>1, <2>3, <2>6, <4>1 DEF Upd, Priorities
    <3> QED BY <2>6, <3>1 DEF Descends
  <2>9. SameOrder(q, q1, X) /\ GoesBehind(q, q1, t, p) /\ t \in ToSet(q)
    BY <1>3, <2>1, <2>6, <2>7, <2>8, InsertOrder
  <2>10. SameOrder(q, qq, X)
    BY <2>4, <2>9 DEF SameOrder
  <2>11. r.list["PENDING"] = q /\ r.list["READY"] = L["READY"]
    BY <1>2, <1>7, <1>c, <1>d
  <2>12. SameOrder(r.list["READY"], L["READY"], X) /\ SameOrder(r.list["PENDING"], L["PENDING"], X)
    BY <2>1, <2>10, <2>11 DEF SameOrder
  <2>13. Keeps(r.list, s.list, s.pri, X)
    BY <1>1, <2>12, KeepsLists
  <2>14. ASSUME NEW u \in Task, u # t, r.pri[u] = r.pri[t], Precedes(s.list, u, t) PROVE Precedes(r.list, u, t)
    <3>1. CASE u \in ToSet(L["READY"])
      BY <2>9, <2>11, <3>1 DEF Precedes
    <3>2. CASE u \notin ToSet(L["READY"])
      <4>1. ~Ahead(L["READY"], u, t)
        <5>1. Once(L["READY"])
          BY <1>1, RunnableLists
        <5> QED BY <3>2, <5>1 DEF Ahead, Once, ToSet
      <4>2. Ahead(qq, u, t)
        BY <1>1, <2>1, <2>14, <3>2, <4>1 DEF Precedes
      <4>3. u \in ToSet(qq)
        BY <2>3, <4>2 DEF Ahead, Once, ToSet
      <4> QED BY <1>5, <2>6, <2>9, <2>11, <2>14, <4>3 DEF GoesBehind, Precedes
    <3> QED BY <3>1, <3>2
  <2>15. t \in Runnables(s.list)
    BY <1>1, <2>1, <2>3 DEF Runnables
  <2> QED BY <2>1, <2>13, <2>14, <2>15, MoveInOrder
<1> QED BY <1>6, <1>7

LEMMA SetPriorityInOrder ==
    ASSUME NEW s, Good(s), NEW t \in Task \ {Idle}, NEW n \in 1 .. MaxPrio, lockcount \in [Task -> Nat],
           NEW r, r = sched_setpriority(s, t, n), NEW A, t \in A
    PROVE  InOrder(r, s, A)
<1>1. PICK m, a : m = Moves(s, t, n) /\ a = Retuned(s, t, n)
  OBVIOUS
<1>2. up_reprioritize_rtr(s, t, n) = m \/ up_reprioritize_rtr(s, t, n) = sched_mergepending(m)
  BY <1>1, ReprioritizeMoves
<1>3. InOrder(a, s, A)
  <2>1. SameLists(a, s)
    BY <1>1, RetunedLists DEF SameLists
  <2> QED BY <2>1, SameInOrder
<1>4. CASE s.st[t] = "RUNNING"
  <2>1. Where(s.st)[t] = "READY"
    BY <1>4, GoodFields, WhereType
  <2>2. r = IF n <= s.pri[s.list["READY"][2]] THEN up_reprioritize_rtr(s, t, n) ELSE a
    BY <1>1, <1>4, ListNames DEF sched_setpriority, Retuned
  <2>3. CASE r = a
    BY <1>3, <2>3
  <2>4. CASE r = m \/ r = sched_mergepending(m)
    BY <1>1, <2>1, <2>4, MovesInOrder
  <2> QED BY <1>2, <2>2, <2>3, <2>4
<1>5. CASE s.st[t] = "READY"
  <2>1. Where(s.st)[t] = "READY"
    BY <1>5, GoodFields, WhereType
  <2>2. r = IF n > s.pri[Head(s.list["READY"])] THEN up_reprioritize_rtr(s, t, n) ELSE m
    BY <1>1, <1>5 DEF sched_setpriority, Retuned, Moves
  <2>3. r = m \/ r = sched_mergepending(m)
    BY <1>2, <2>2
  <2> QED BY <1>1, <2>1, <2>3, MovesInOrder
<1>6. CASE s.st[t] \in Prioritized \ {"READY"}
  BY <1>6, RefileInOrder
<1>7. CASE s.st[t] \notin Prioritized /\ s.st[t] # "RUNNING"
  <2>1. r = a
    <3>1. s.st[t] # "READY"
      BY <1>7, ListNames
    <3> QED BY <1>1, <1>7, <3>1 DEF sched_setpriority, Retuned
  <2> QED BY <1>3, <2>1
<1> QED BY <1>4, <1>5, <1>6, <1>7

\* The running task blocks or exits; the pending tasks may be merged.
LEMMA LeaveThenMerge ==
    ASSUME NEW s, Good(s), NEW t \in Task \ {Idle}, Where(s.st)[t] = "READY",
           NEW a, a = sched_removereadytorun(s, t), NEW b, Good(b), SameLists(b, a), b.pri = s.pri,
           NEW r, r = b \/ r = sched_mergepending(b), NEW A
    PROVE  InOrder(r, s, A)
<1>1. PICK X, E : X = {t} /\ E = {}
  OBVIOUS
<1>2. Good(a) /\ a.st[t] = "INVALID"
  BY RemoveReadyLeaves
<1>3. Keeps(a.list, s.list, s.pri, X)
  BY <1>1, RemoveReadyKeeps
<1>4. t \notin Runnables(a.list)
  <2>1. Where(a.st)[t] = "INVALID"
    BY <1>2, GoodStates
  <2> QED BY <1>2, <2>1, RunnableLists DEF Runnables
<1>5. Keeps(b.list, s.list, s.pri, X) /\ t \notin Runnables(b.list)
  BY <1>3, <1>4 DEF Keeps, SameLists, Precedes, Runnables
<1>6. CASE r = b
  BY <1>1, <1>5, <1>6, LeaveInOrder
<1>7. CASE r = sched_mergepending(b)
  <2>1. Keeps(r.list, b.list, b.pri, E)
    BY <1>1, <1>7, MergeKeeps
  <2>2. Keeps(r.list, b.list, s.pri, X)
    BY <1>1, <2>1, KeepsMore
  <2>3. Keeps(r.list, s.list, s.pri, X)
    BY <1>5, <2>2, KeepsThen
  <2>4. t \notin Runnables(r.list)
    BY <1>1, <1>5, <2>1 DEF Keeps
  <2> QED BY <1>1, <2>3, <2>4, LeaveInOrder
<1> QED BY <1>6, <1>7

LEMMA BlockInOrder ==
    ASSUME NEW s, Good(s), First(s) # Idle, NEW l \in Blocked, NEW r, r = up_block_task(s, l), NEW A
    PROVE  InOrder(r, s, A)
<1>1. PICK t, a, b : t = First(s) /\ a = sched_removereadytorun(s, t) /\ b = sched_addblocked(a, t, l)
  OBVIOUS
<1>2. t \in Task \ {Idle} /\ Where(s.st)[t] = "READY"
  BY <1>1, GoodView
<1>3. Good(a) /\ a.pri = s.pri /\ a.st[t] = "INVALID"
  BY <1>1, <1>2, RemoveReadyLeaves
<1>4. Good(b) /\ b.pri = s.pri
  BY <1>1, <1>2, <1>3, AddBlockedGood DEF Reached
<1>5. SameLists(b, a)
  BY <1>1, <1>3, AddBlockedLists
<1>6. r = sched_mergepending(b)
  BY <1>1 DEF up_block_task, First
<1> QED BY <1>1, <1>2, <1>4, <1>5, <1>6, LeaveThenMerge

LEMMA ExitInOrder ==
    ASSUME NEW s, Good(s), First(s) # Idle, NEW a, a = sched_removereadytorun(s, First(s)),
           NEW r, r = IF s.list["PENDING"] # <<>> THEN sched_mergepending(a) ELSE a, NEW A
    PROVE  InOrder(r, s, A)
<1>1. PICK t : t = First(s)
  OBVIOUS
<1>2. t \in Task \ {Idle} /\ Where(s.st)[t] = "READY"
  BY <1>1, GoodView
<1>3. Good(a) /\ a.pri = s.pri
  BY <1>1, <1>2, RemoveReadyLeaves
<1>4. SameLists(a, a)
  BY DEF SameLists
<1>5. r = a \/ r = sched_mergepending(a)
  OBVIOUS
<1> QED BY <1>1, <1>2, <1>3, <1>4, <1>5, LeaveThenMerge

LEMMA UnblockInOrder ==
    ASSUME NEW s, Good(s), NEW t \in Task, s.st[t] \in Blocked \cup {"INACTIVE"}, NEW r, r = up_unblock_task(s, t),
           lockcount \in [Task -> Nat], NEW A
    PROVE  InOrder(r, s, A)
<1>1. PICK a, X : a = sched_removeblocked(s, t) /\ X = {t}
  OBVIOUS
<1>2. Where(s.st)[Idle] = "READY" /\ Where(s.st)[t] = s.st[t] /\ s.st[t] \notin {"READY", "PENDING"}
  BY GoodView, GoodStates, ListNames
<1>3. t # Idle
  BY <1>2
<1>4. Reached(a, Upd(Where(s.st), t, "INVALID"), s.pri) /\ a.st[t] = "INVALID"
  BY <1>1, <1>3, RemoveBlockedGood
<1>5. Good(a) /\ a.pri = s.pri
  BY <1>4 DEF Reached
<1>6. SameLists(a, s)
  BY <1>1, RemoveBlockedLists
<1>7. r = sched_addreadytorun(a, t)
  BY <1>1 DEF up_unblock_task
<1>8. Keeps(r.list, a.list, a.pri, X) /\ JoinsLast(r.list, a.list, a.pri, t)
  BY <1>1, <1>4, <1>5, <1>7, AddReadyKeeps
<1>9. Keeps(r.list, s.list, s.pri, X) /\ JoinsLast(r.list, s.list, s.pri, t)
  BY <1>5, <1>6, <1>8 DEF Keeps, JoinsLast, SameLists, Precedes, Runnables
<1>10. t \notin Runnables(s.list)
  BY <1>2, RunnableLists DEF Runnables
<1>11. r.pri = s.pri
  BY UnblockReached DEF Reached
<1> QED BY <1>1, <1>9, <1>10, <1>11, JoinInOrder

LEMMA TakenInOrder ==
    ASSUME NEW s, Good(s), NEW t \in Task \ {Idle}, s.st[t] \in Lists, t # First(s), NEW r, r = Taken(s, t), NEW A
    PROVE  InOrder(r, s, A)
<1>1. PICK X : X = {t}
  OBVIOUS
<1>2. Keeps(r.list, s.list, s.pri, X)
  BY <1>1, TakenKeeps
<1>3. Good(r) /\ Where(r.st) = Upd(Where(s.st), t, "INVALID")
  BY TakenGood DEF Reached
<1>4. Where(r.st)[t] = "INVALID"
  BY <1>3, GoodView DEF Upd
<1>5. t \notin Runnables(r.list)
  BY <1>3, <1>4, RunnableLists DEF Runnables
<1> QED BY <1>1, <1>2, <1>5, LeaveInOrder

-----------------------------------------------------------------------------
(***************************************************************************)
(* KeepOrder, from the scheduler values before and after a step.           *)
(***************************************************************************)
LEMMA OrderView ==
    Good(S) => \A u, t \in Task :
                 /\ IsRunnable(u) <=> u \in Runnables(list)
                 /\ ListOf(u) = "READY" <=> u \in ToSet(list["READY"])
                 /\ IsRunnable(u) /\ IsRunnable(t) => (Before(u, t) <=> Precedes(list, u, t))
<1> SUFFICES ASSUME Good(S), NEW u \in Task, NEW t \in Task
             PROVE  /\ IsRunnable(u) <=> u \in Runnables(list)
                    /\ ListOf(u) = "READY" <=> u \in ToSet(list["READY"])
                    /\ IsRunnable(u) /\ IsRunnable(t) => (Before(u, t) <=> Precedes(list, u, t))
  OBVIOUS
<1>1. \A x \in Task : ListOf(x) = Where(task_state)[x]
  BY DEF ListOf, Where
<1>2. S.list = list /\ S.st = task_state
  BY CurrentValue
<1>3. ASSUME NEW l \in {"READY", "PENDING"}
      PROVE  list[l] \in Seq(Task) /\ DOMAIN list[l] = 1 .. Len(list[l])
               /\ \A x \in Task : x \in ToSet(list[l]) <=> ListOf(x) = l
  <2>1. Once(list[l]) /\ \A x \in Task : x \in ToSet(list[l]) <=> ListOf(x) = l
    BY <1>1, <1>2, RunnableLists
  <2> QED BY <2>1 DEF Once
<1>4. (IsRunnable(u) <=> u \in Runnables(list)) /\ (ListOf(u) = "READY" <=> u \in ToSet(list["READY"]))
  BY <1>3 DEF IsRunnable, Runnables
<1>5. ASSUME NEW l \in {"READY", "PENDING"}, Ahead(list[l], u, t) PROVE ListOf(u) = l /\ ListOf(t) = l
  BY <1>3, <1>5 DEF Ahead, ToSet
<1>6. ASSUME IsRunnable(u), IsRunnable(t), Before(u, t) PROVE Precedes(list, u, t)
  <2>1. CASE ListOf(u) = "READY" /\ ListOf(t) = "PENDING"
    BY <1>3, <2>1 DEF Precedes
  <2>2. CASE ~(ListOf(u) = "READY" /\ ListOf(t) = "PENDING")
    <3>1. PICK l \in {"READY", "PENDING"} : ListOf(u) = l
      BY <1>6 DEF IsRunnable
    <3>2. \E i, j \in DOMAIN list[l] : i < j /\ list[l][i] = u /\ list[l][j] = t
      BY <1>6, <2>2, <3>1 DEF Before
    <3>3. Ahead(list[l], u, t)
      BY <1>3, <3>2 DEF Ahead
    <3> QED BY <3>3 DEF Precedes
  <2> QED BY <2>1, <2>2
<1>7. ASSUME Precedes(list, u, t) PROVE Before(u, t)
  <2>1. ASSUME NEW l \in {"READY", "PENDING"}, Ahead(list[l], u, t) PROVE Before(u, t)
    <3>1. ListOf(u) = l /\ ListOf(t) = l
      BY <1>5, <2>1
    <3>2. \E i, j \in DOMAIN list[l] : i < j /\ list[l][i] = u /\ list[l][j] = t
      BY <1>3, <2>1 DEF Ahead
    <3> QED BY <3>1, <3>2 DEF Before
  <2>2. CASE u \in ToSet(list["READY"]) /\ t \in ToSet(list["PENDING"])
    BY <1>3, <2>2 DEF Before
  <2> QED BY <1>7, <2>1, <2>2 DEF Precedes
<1> QED BY <1>4, <1>6, <1>7

LEMMA OrderStep ==
    ASSUME Good(S), Good(S)', NEW r, Becomes(r), NEW A, A = {head, call[head].tcb}, InOrder(r, S, A)
    PROVE  KeepOrder
<1>1. list' = r.list /\ sched_priority' = r.pri /\ S.list = list /\ S.pri = sched_priority
  BY CurrentValue DEF Becomes
<1>2. \A u, t \in Task :
         /\ IsRunnable(u) <=> u \in Runnables(list)
         /\ ListOf(u) = "READY" <=> u \in ToSet(list["READY"])
         /\ IsRunnable(u) /\ IsRunnable(t) => (Before(u, t) <=> Precedes(list, u, t))
  BY OrderView
<1>3. (\A u, t \in Task :
         /\ IsRunnable(u) <=> u \in Runnables(list)
         /\ ListOf(u) = "READY" <=> u \in ToSet(list["READY"])
         /\ IsRunnable(u) /\ IsRunnable(t) => (Before(u, t) <=> Precedes(list, u, t)))'
  BY OrderView, PTL
<1>4. \A u, t \in Task :
         /\ IsRunnable(u)' <=> u \in Runnables(r.list)
         /\ ListOf(u)' = "READY" <=> u \in ToSet(r.list["READY"])
         /\ IsRunnable(u)' /\ IsRunnable(t)' => (Before(u, t)' <=> Precedes(r.list, u, t))
  BY <1>1, <1>3
<1>5. ASSUME NEW t \in Task, NEW u \in Task, t # u, IsRunnable(u), IsRunnable(u)',
             sched_priority'[t] = sched_priority'[u], sched_priority'[u] = sched_priority[u]
      PROVE  /\ (/\ IsRunnable(t) /\ IsRunnable(t)' /\ sched_priority'[t] = sched_priority[t]
                 /\ Before(u, t) /\ u # head /\ u # call[head].tcb) => Before(u, t)'
             /\ (/\ ~IsRunnable(t) /\ ListOf(t)' = "READY" /\ ListOf(u) = "READY") => Before(u, t)'
  <2>1. /\ t # u /\ u \in Runnables(S.list) /\ u \in Runnables(r.list)
        /\ r.pri[t] = r.pri[u] /\ r.pri[u] = S.pri[u]
    BY <1>1, <1>2, <1>4, <1>5
  <2>2. /\ (/\ t \in Runnables(S.list) /\ t \in Runnables(r.list) /\ r.pri[t] = S.pri[t]
            /\ Precedes(S.list, u, t) /\ u \notin A) => Precedes(r.list, u, t)
        /\ (/\ t \notin Runnables(S.list) /\ t \in ToSet(r.list["READY"]) /\ u \in ToSet(S.list["READY"]))
             => Precedes(r.list, u, t)
    BY <2>1 DEF InOrder
  <2>3. (/\ IsRunnable(t) /\ IsRunnable(t)' /\ sched_priority'[t] = sched_priority[t]
         /\ Before(u, t) /\ u # head /\ u # call[head].tcb) => Before(u, t)'
    BY <1>1, <1>2, <1>4, <1>5, <2>2
  <2>4. (/\ ~IsRunnable(t) /\ ListOf(t)' = "READY" /\ ListOf(u) = "READY") => Before(u, t)'
    <3>1. ListOf(t)' = "READY" => IsRunnable(t)'
      BY DEF IsRunnable
    <3> QED BY <1>1, <1>2, <1>4, <1>5, <2>2, <3>1
  <2> QED BY <2>3, <2>4
<1> QED BY <1>5 DEF KeepOrder

\* One step per action that edits the lists.
LEMMA UnlockOrder ==
    ASSUME SchedInv, SchedInv', sched_unlock
    PROVE  KeepOrder
<1>1. PICK r, A, E : /\ r = IF lockcount[head] <= 1 /\ list["PENDING"] # <<>> THEN up_release_pending(S) ELSE S
                     /\ A = {head, call[head].tcb} /\ E = {}
  OBVIOUS
<1>2. Becomes(r) /\ Good(S) /\ Good(S)'
  BY <1>1 DEF sched_unlock, SchedInv
<1>3. r = S \/ r = sched_mergepending(S)
  BY <1>1 DEF up_release_pending
<1>4. InOrder(r, S, A)
  <2>1. CASE r = S
    BY <2>1, SameInOrder DEF SameLists
  <2>2. CASE r = sched_mergepending(S)
    <3>1. PICK s : s = S
      OBVIOUS
    <3>2. Keeps(r.list, s.list, s.pri, E)
      BY <1>1, <1>2, <2>2, <3>1, MergeKeeps
    <3> QED BY <1>1, <3>1, <3>2, AllInOrder
  <2> QED BY <1>3, <2>1, <2>2
<1> QED BY <1>1, <1>2, <1>4, OrderStep

LEMMA SameOrderStep ==
    ASSUME SchedInv, SchedInv', UNCHANGED <<list, task_state, sched_priority, ok>>
    PROVE  KeepOrder
<1>1. PICK r, A : r = S /\ A = {head, call[head].tcb}
  OBVIOUS
<1>2. Becomes(r) /\ Good(S) /\ Good(S)'
  BY <1>1, CurrentValue DEF Becomes, SchedInv
<1>3. InOrder(r, S, A)
  BY <1>1, SameInOrder DEF SameLists
<1> QED BY <1>1, <1>2, <1>3, OrderStep

LEMMA BlockOrder ==
    ASSUME SchedInv, SchedInv', BlockTask
    PROVE  KeepOrder
<1>1. PICK l \in Blocked : Becomes(up_block_task(S, l))
  BY DEF BlockTask
<1>2. PICK s, r, A : s = S /\ r = up_block_task(S, l) /\ A = {head, call[head].tcb}
  OBVIOUS
<1>3. Good(S) /\ Good(S)' /\ First(S) # Idle
  BY Current DEF BlockTask, InTask, SchedInv
<1>4. InOrder(r, s, A)
  BY <1>2, <1>3, BlockInOrder
<1> QED BY <1>1, <1>2, <1>3, <1>4, OrderStep

\* A priority change: the task may be overtaken.
LEMMA PriorityOrder ==
    ASSUME SchedInv, SchedInv', NEW t \in Task \ {Idle}, t \in {head, call[head].tcb}, NEW n \in 1 .. MaxPrio,
           NEW r, Becomes(r), \/ r = sched_setpriority(S, t, n)
                              \/ t = head /\ r = up_reprioritize_rtr(S, t, n)
    PROVE  KeepOrder
<1>1. PICK s, A, m : s = S /\ A = {head, call[head].tcb} /\ m = Moves(S, t, n)
  OBVIOUS
<1>2. /\ Good(s) /\ Good(S) /\ Good(S)' /\ lockcount \in [Task -> Nat]
      /\ s.st = task_state /\ Where(task_state)[head] = "READY"
  BY <1>1, Current DEF SchedInv
<1>3. CASE r = sched_setpriority(S, t, n)
  <2>1. InOrder(r, s, A)
    BY <1>1, <1>2, <1>3, SetPriorityInOrder
  <2> QED BY <1>1, <1>2, <2>1, OrderStep
<1>4. CASE t = head /\ r = up_reprioritize_rtr(S, t, n)
  <2>1. r = m \/ r = sched_mergepending(m)
    BY <1>1, <1>4, ReprioritizeMoves
  <2>2. InOrder(r, s, A)
    <3>1. Where(s.st)[t] = "READY" /\ m = Moves(s, t, n) /\ t \in A
      BY <1>1, <1>2, <1>4
    <3> QED BY <1>2, <2>1, <3>1, MovesInOrder
  <2> QED BY <1>1, <1>2, <2>2, OrderStep
<1> QED BY <1>3, <1>4

LEMMA YieldOrder ==
    ASSUME SchedInv, SchedInv', SchedYield
    PROVE  KeepOrder
<1>1. PICK t, n, r : t = head /\ n = sched_priority[head] /\ r = sched_setpriority(S, t, n)
  OBVIOUS
<1>2. Becomes(r) /\ head # Idle
  BY <1>1 DEF SchedYield, InTask
<1>3. t \in Task \ {Idle} /\ n \in 1 .. MaxPrio
  BY <1>1, <1>2, KeepsPriority
<1>4. t \in {head, call[head].tcb}
  BY <1>1
<1> QED BY <1>1, <1>2, <1>3, <1>4, PriorityOrder

LEMMA SetParamOrder ==
    ASSUME SchedInv, SchedInv', SetParamReprioritize
    PROVE  KeepOrder
<1>1. PICK h, c, t, n, r : h = head /\ c = call[head] /\ t = c.tcb /\ n = c.pri /\ r = sched_setpriority(S, t, n)
  OBVIOUS
<1>2. call \in [Task -> CallRecords] /\ h \in Task /\ Linked(h, Where(task_state), lockcount, call)
  BY <1>1, Current DEF SchedInv, TcbTypes
<1>3. c \in CallRecords /\ c.pc = "locked" /\ Becomes(r)
  BY <1>1, <1>2 DEF SetParamReprioritize
<1>4. t \in Task \ {Idle} /\ n \in 1 .. MaxPrio
  <2>1. InCall(h, c, h, Where(task_state), lockcount)
    BY <1>1, <1>2 DEF Linked
  <2>2. c.tcb \in Task /\ c.pri \in 0 .. MaxPrio
    BY <1>3 DEF CallRecords
  <2> QED BY <1>1, <1>3, <2>1, <2>2, Bounds DEF InCall
<1>5. t \in {head, call[head].tcb}
  BY <1>1
<1> QED BY <1>1, <1>3, <1>4, <1>5, PriorityOrder

LEMMA ExitOrder ==
    ASSUME SchedInv, SchedInv', TaskExit
    PROVE  KeepOrder
<1>1. PICK s, a, r, A :
        /\ s = S /\ a = sched_removereadytorun(S, head)
        /\ r = IF list["PENDING"] # <<>> THEN sched_mergepending(a) ELSE a
        /\ A = {head, call[head].tcb}
  OBVIOUS
<1>2. Becomes(r) /\ head # Idle
  BY <1>1 DEF TaskExit, InTask
<1>3. Good(S) /\ Good(S)' /\ First(S) = head /\ S.list = list
  BY Current DEF SchedInv
<1>4. InOrder(r, s, A)
  <2>1. /\ Good(s) /\ First(s) # Idle /\ a = sched_removereadytorun(s, First(s))
        /\ r = IF s.list["PENDING"] # <<>> THEN sched_mergepending(a) ELSE a
    BY <1>1, <1>2, <1>3
  <2> QED BY <2>1, ExitInOrder
<1> QED BY <1>1, <1>2, <1>3, <1>4, OrderStep

LEMMA TerminateOrder ==
    ASSUME SchedInv, SchedInv', NEW t \in Task, TaskTerminate(t)
    PROVE  KeepOrder
<1>1. PICK s, r, A : s = S /\ r = Taken(S, t) /\ A = {head, call[head].tcb}
  OBVIOUS
<1>2. Good(s) /\ Good(S) /\ Good(S)' /\ First(s) = head /\ s.st = task_state
  BY <1>1, Current DEF SchedInv
<1>3. t # head /\ t # Idle /\ task_state[t] # "INVALID"
  BY DEF TaskTerminate
<1>4. Becomes(r)
  <2>1. r = [S EXCEPT !.list[task_state[t]] = RemoveFirst(@, t), !.st[t] = "INVALID"]
    BY <1>1, <1>2 DEF Taken
  <2> QED BY <2>1 DEF TaskTerminate
<1>5. s.st[t] \in Lists
  <2>1. s.st[t] # "RUNNING" /\ s.st[t] \in States
    BY <1>2, <1>3, GoodStates
  <2> QED BY <1>2, <1>3, <2>1 DEF States
<1>6. InOrder(r, s, A)
  BY <1>1, <1>2, <1>3, <1>5, TakenInOrder
<1> QED BY <1>1, <1>2, <1>4, <1>6, OrderStep

LEMMA CreateOrder ==
    ASSUME SchedInv, SchedInv', NEW t \in Task, NEW n \in 1 .. MaxPrio, TaskCreate(t, n)
    PROVE  KeepOrder
<1>1. PICK s, r, A : s = S /\ r = Created(S, t, n) /\ A = {head, call[head].tcb}
  OBVIOUS
<1>2. Good(s) /\ Good(S) /\ Good(S)'
  BY <1>1 DEF SchedInv
<1>3. Becomes(r)
  BY <1>1 DEF TaskCreate, Created
<1>4. SameLists(r, s)
  BY <1>1, <1>2, CreatedLists
<1>5. InOrder(r, s, A)
  BY <1>4, SameInOrder
<1> QED BY <1>1, <1>2, <1>3, <1>5, OrderStep

LEMMA UnblockOrder ==
    ASSUME SchedInv, SchedInv', NEW t \in Task, UnblockTask(t)
    PROVE  KeepOrder
<1>1. PICK s, r, A : s = S /\ r = up_unblock_task(S, t) /\ A = {head, call[head].tcb}
  OBVIOUS
<1>2. Good(s) /\ Good(S) /\ Good(S)' /\ s.st = task_state /\ lockcount \in [Task -> Nat]
  BY <1>1, Current DEF SchedInv
<1>3. Becomes(r) /\ s.st[t] \in Blocked \cup {"INACTIVE"}
  BY <1>1, <1>2 DEF UnblockTask
<1>4. InOrder(r, s, A)
  BY <1>1, <1>2, <1>3, UnblockInOrder
<1> QED BY <1>1, <1>2, <1>3, <1>4, OrderStep

LEMMA TickOrder ==
    ASSUME SchedInv, SchedInv', Tick
    PROVE  KeepOrder
<1>1. rr[head] /\ rr \in [Task -> BOOLEAN] /\ ~rr[Idle] /\ head \in Task
  BY Current DEF SchedInv, TcbTypes, Tick
<1>2. CASE Becomes(S)
  <2>1. UNCHANGED <<list, task_state, sched_priority, ok>>
    BY <1>2, CurrentValue DEF Becomes
  <2> QED BY <2>1, SameOrderStep
<1>3. CASE ~Becomes(S)
  <2>1. PICK t, n, r : t = head /\ n = sched_priority[head] /\ r = up_reprioritize_rtr(S, t, n)
    OBVIOUS
  <2>2. Becomes(r)
    BY <1>3, <2>1 DEF Tick
  <2>3. t \in Task \ {Idle} /\ n \in 1 .. MaxPrio
    BY <1>1, <2>1, KeepsPriority
  <2>4. t \in {head, call[head].tcb}
    BY <2>1
  <2> QED BY <2>1, <2>2, <2>3, <2>4, PriorityOrder
<1> QED BY <1>2, <1>3

LEMMA FifoStep ==
    ASSUME SchedInv, SchedInv', [Next]_vars
    PROVE  [KeepOrder]_vars
<1>1. CASE SchedLock
  BY <1>1, SameOrderStep DEF SchedLock
<1>2. CASE SchedUnlock
  BY <1>2, UnlockOrder DEF SchedUnlock
<1>3. CASE BlockTask
  BY <1>3, BlockOrder
<1>4. CASE SchedYield
  BY <1>4, YieldOrder
<1>5. ASSUME NEW t \in Task, NEW n \in 1 .. MaxPrio, NEW policy \in Policies, SetParamLock(t, n, policy)
      PROVE  KeepOrder
  BY <1>5, SameOrderStep DEF SetParamLock
<1>6. CASE SetParamReprioritize
  BY <1>6, SetParamOrder
<1>7. CASE SetParamReturn
  BY <1>7, UnlockOrder DEF SetParamReturn
<1>8. CASE TaskExit
  BY <1>8, ExitOrder
<1>9. ASSUME NEW t \in Task, TaskTerminate(t)
      PROVE  KeepOrder
  BY <1>9, TerminateOrder
<1>10. ASSUME NEW t \in Task, NEW n \in 1 .. MaxPrio, TaskCreate(t, n)
       PROVE  KeepOrder
  BY <1>10, CreateOrder
<1>11. ASSUME NEW t \in Task, UnblockTask(t)
       PROVE  KeepOrder
  BY <1>11, UnblockOrder
<1>12. CASE Tick
  BY <1>12, TickOrder
<1>13. CASE UNCHANGED vars
  BY <1>13
<1> QED BY <1>1, <1>2, <1>3, <1>4, <1>5, <1>6, <1>7, <1>8, <1>9, <1>10, <1>11, <1>12, <1>13 DEF Next

(***************************************************************************)
(* First in, first out among equals: a runnable task is overtaken by one   *)
(* of its priority only if it is the running task or the target of the     *)
(* running task's sched_setparam, through every merge of g_pendingtasks,   *)
(* wakeup and priority change, and a task that joins g_readytorun goes     *)
(* behind its equals (sched_addprioritized.c, sched_mergepending.c,        *)
(* sched_setpriority.c, sched_processtimer.c).                             *)
(***************************************************************************)
THEOREM EqualsKeepOrder == Spec => FifoWithinPriority
<1>1. SchedInv /\ SchedInv' /\ [Next]_vars => [KeepOrder]_vars
  BY FifoStep
<1> QED BY <1>1, AlwaysSchedInv, PTL DEF Spec, FifoWithinPriority
=============================================================================
