----------------------------- MODULE TimerProof -----------------------------
(***************************************************************************)
(* The watchdogs of module Watchdog and their users of module PosixTimer,  *)
(* proved for any number of watchdogs, timers, tasks and any delays.       *)
(***************************************************************************)
EXTENDS PosixTimer, SequenceLemmas, FiniteSetTheorems

(***************************************************************************)
(* The sums of the delta list.  The recursive function in Now exists: each *)
(* of its values is that of a function on an initial segment.              *)
(***************************************************************************)
SumsTo(g, q, l, n) ==
    /\ g = [i \in 0 .. n |-> g[i]]
    /\ g[0] = 0
    /\ \A i \in 1 .. n : g[i] = g[i - 1] + l[q[i]]

\* For every n there are the sums of the first n lags.
LEMMA SumsExist ==
    ASSUME NEW q, NEW l, NEW n \in Nat
    PROVE  \E g : SumsTo(g, q, l, n)
<1> DEFINE S == {m \in Nat : ~\E g : SumsTo(g, q, l, m)}
<1> SUFFICES ASSUME S # {} PROVE FALSE
  OBVIOUS
<1>1. PICK m \in S : \A k \in S : m <= k
  BY LeastNumber
<1>2. m # 0
  <2> DEFINE g == [i \in 0 .. 0 |-> 0]
  <2>1. SumsTo(g, q, l, 0)
    BY DEF SumsTo
  <2> QED BY <1>1, <2>1
<1>3. m - 1 \in Nat /\ m - 1 \notin S
  BY <1>1, <1>2
<1>4. PICK g : SumsTo(g, q, l, m - 1)
  BY <1>3
<1> DEFINE h == [i \in 0 .. m |-> IF i = m THEN g[m - 1] + l[q[m]] ELSE g[i]]
<1>5. h[0] = 0
  BY <1>1, <1>2, <1>4 DEF SumsTo
<1>6. ASSUME NEW i \in 1 .. m PROVE h[i] = h[i - 1] + l[q[i]]
  <2>1. CASE i = m
    <3>1. i \in 0 .. m /\ i - 1 \in 0 .. m /\ i - 1 # m
      BY <1>3, <2>1
    <3> QED BY <2>1, <3>1
  <2>2. CASE i # m
    <3>1. i \in 0 .. m /\ i - 1 \in 0 .. m /\ i - 1 # m /\ i \in 1 .. m - 1
      BY <1>3, <2>2
    <3>2. g[i] = g[i - 1] + l[q[i]]
      BY <1>4, <3>1 DEF SumsTo
    <3> QED BY <2>2, <3>1, <3>2
  <2> QED BY <2>1, <2>2
<1>7. h = [i \in 0 .. m |-> h[i]]
  OBVIOUS
<1> HIDE DEF h
<1>8. SumsTo(h, q, l, m)
  BY <1>5, <1>6, <1>7 DEF SumsTo
<1> QED BY <1>1, <1>8

\* They do not depend on how many are taken.
LEMMA SumsAgree ==
    ASSUME NEW q, NEW l, NEW n \in Nat, NEW m \in Nat, NEW g, SumsTo(g, q, l, n),
           NEW h, SumsTo(h, q, l, m), NEW i \in Nat, i <= n, i <= m
    PROVE  g[i] = h[i]
<1> DEFINE S == {j \in Nat : j <= n /\ j <= m /\ g[j] # h[j]}
<1> SUFFICES ASSUME S # {} PROVE FALSE
  OBVIOUS
<1>1. PICK j \in S : \A k \in S : j <= k
  BY LeastNumber
<1>2. j # 0
  BY <1>1 DEF SumsTo
<1>3. j - 1 \in Nat /\ j - 1 \notin S /\ j - 1 <= n /\ j - 1 <= m /\ j \in 1 .. n /\ j \in 1 .. m
  BY <1>1, <1>2
<1>4. g[j - 1] = h[j - 1]
  BY <1>3
<1>5. g[j] = g[j - 1] + l[q[j]] /\ h[j] = h[j - 1] + l[q[j]]
  BY <1>3 DEF SumsTo
<1> QED BY <1>1, <1>4, <1>5

\* The expiry of an entry is that of the entry before it plus its own lag.
LEMMA NowSteps ==
    ASSUME NEW q, NEW l
    PROVE  /\ Now(q, l, 0) = 0
           /\ \A k \in Nat : Now(q, l, k + 1) = Now(q, l, k) + l[q[k + 1]]
<1> DEFINE G(n) == CHOOSE g : SumsTo(g, q, l, n)
           s == [n \in Nat |-> G(n)[n]]
           Body(f) == [n \in Nat |-> IF n = 0 THEN 0 ELSE f[n - 1] + l[q[n]]]
           c == CHOOSE f : f = Body(f)
<1>1. \A n \in Nat : SumsTo(G(n), q, l, n)
  BY SumsExist
<1> HIDE DEF G
<1>2. ASSUME NEW n \in Nat PROVE s[n] = IF n = 0 THEN 0 ELSE s[n - 1] + l[q[n]]
  <2>1. CASE n = 0
    BY <1>1, <2>1 DEF SumsTo
  <2>2. CASE n # 0
    <3>1. n - 1 \in Nat /\ n - 1 <= n /\ n - 1 <= n - 1 /\ n \in 1 .. n
      BY <2>2
    <3>2. G(n)[n] = G(n)[n - 1] + l[q[n]]
      BY <1>1, <3>1 DEF SumsTo
    <3>3. G(n)[n - 1] = G(n - 1)[n - 1]
      BY <1>1, <3>1, SumsAgree
    <3> QED BY <2>2, <3>1, <3>2, <3>3
  <2> QED BY <2>1, <2>2
<1>3. s = [n \in Nat |-> s[n]]
  OBVIOUS
<1> HIDE DEF s
<1>4. s = Body(s)
  BY <1>2, <1>3
<1>5. c = Body(c)
  <2> HIDE DEF Body
  <2> QED BY <1>4
<1>6. \A k : Now(q, l, k) = c[k]
  BY DEF Now
<1> HIDE DEF c
<1>7. \A n \in Nat : c[n] = IF n = 0 THEN 0 ELSE c[n - 1] + l[q[n]]
  BY <1>5
<1>8. c[0] = 0
  BY <1>7
<1>9. ASSUME NEW k \in Nat PROVE c[k + 1] = c[k] + l[q[k + 1]]
  <2>1. k + 1 \in Nat /\ k + 1 # 0 /\ k + 1 - 1 = k
    OBVIOUS
  <2>2. c[k + 1] = c[k + 1 - 1] + l[q[k + 1]]
    BY <1>7, <2>1
  <2> QED BY <2>1, <2>2
<1> QED BY <1>6, <1>8, <1>9

-----------------------------------------------------------------------------
(***************************************************************************)
(* g_wdactivelist.  An entry is in it once, no lag is negative, and outside*)
(* of wd_expiration the first entry has not run out.                       *)
(***************************************************************************)
ListOK(q, l) == q \in Seq(Dog) /\ IsInjective(q) /\ l \in [Dog -> Nat]

Waits(q, l) == q # <<>> => l[Head(q)] > 0

\* Expiries are numbers.
LEMMA NowTypes ==
    ASSUME NEW q, NEW l, ListOK(q, l), NEW n \in 0 .. Len(q)
    PROVE  Now(q, l, n) \in Nat
<1> DEFINE S == {m \in Nat : m <= Len(q) /\ Now(q, l, m) \notin Nat}
<1> SUFFICES ASSUME S # {} PROVE FALSE
  OBVIOUS
<1>0. Len(q) \in Nat /\ \A i \in 1 .. Len(q) : l[q[i]] \in Nat
  BY DEF ListOK
<1>1. PICK m \in S : \A k \in S : m <= k
  BY LeastNumber
<1>2. m # 0
  BY <1>1, NowSteps
<1>3. m - 1 \in Nat /\ m - 1 \notin S /\ m - 1 <= Len(q) /\ m \in 1 .. Len(q) /\ (m - 1) + 1 = m
  BY <1>0, <1>1, <1>2
<1>4. Now(q, l, m) = Now(q, l, m - 1) + l[q[m]]
  <2>1. \A k \in Nat : Now(q, l, k + 1) = Now(q, l, k) + l[q[k + 1]]
    BY NowSteps, Zenon
  <2>2. Now(q, l, (m - 1) + 1) = Now(q, l, m - 1) + l[q[(m - 1) + 1]]
    BY <1>3, <2>1, Zenon
  <2> QED BY <1>3, <2>2, Zenon
<1>5. Now(q, l, m - 1) \in Nat /\ l[q[m]] \in Nat
  BY <1>0, <1>3
<1> QED BY <1>1, <1>4, <1>5

\* wd_start walks over an initial part of the list, up to the first entry that
\* runs out later.
LEMMA PassedIsPrefix ==
    ASSUME NEW q, NEW l, ListOK(q, l), NEW d \in Nat, NEW k, k = Cardinality(Passed(q, l, d))
    PROVE  /\ k \in 0 .. Len(q) /\ Now(q, l, k) \in Nat /\ Now(q, l, k) <= d
           /\ k < Len(q) => Now(q, l, k) + l[q[k + 1]] > d
<1> DEFINE P == Passed(q, l, d)
           S == {n \in Nat : n >= 1 /\ n \notin P}
<1>0. Len(q) \in Nat
  BY DEF ListOK
<1>1. Len(q) + 1 \in S
  BY <1>0 DEF Passed
<1>2. PICK m \in S : \A n \in S : m <= n
  BY <1>1, LeastNumber
<1>3. m \in Nat /\ m >= 1 /\ m \notin P /\ m <= Len(q) + 1 /\ m - 1 \in 0 .. Len(q)
  BY <1>0, <1>1, <1>2
<1>4. ASSUME NEW j \in 1 .. m - 1 PROVE j \in P
  <2>1. j \in Nat /\ j >= 1 /\ ~(m <= j)
    BY <1>3
  <2> QED BY <1>2, <2>1
<1>5. ASSUME NEW j \in P PROVE j \in 1 .. m - 1
  <2>1. j \in 1 .. Len(q) /\ \A i \in 1 .. j : Now(q, l, i) <= d
    BY DEF Passed
  <2>2. CASE m <= j
    <3>1. m \in 1 .. Len(q) /\ \A i \in 1 .. m : i \in 1 .. j
      BY <1>0, <1>3, <2>1, <2>2
    <3>2. m \in P
      BY <2>1, <3>1 DEF Passed
    <3> QED BY <1>3, <3>2
  <2>3. CASE ~(m <= j)
    BY <1>3, <2>1, <2>3
  <2> QED BY <2>2, <2>3
<1>6. P = 1 .. m - 1
  BY <1>4, <1>5
<1>7. k = m - 1
  <2>1. Cardinality(1 .. m - 1) = IF 1 > m - 1 THEN 0 ELSE m - 1 - 1 + 1
    BY <1>3, FS_Interval
  <2>2. k = Cardinality(1 .. m - 1)
    BY <1>6
  <2> QED BY <1>3, <2>1, <2>2
<1>8. ASSUME NEW j \in 1 .. m - 1 PROVE Now(q, l, j) <= d
  <2>1. j \in P
    BY <1>4
  <2>2. j \in 1 .. j
    BY <1>3
  <2> QED BY <2>1, <2>2 DEF Passed
<1>9. Now(q, l, k) \in Nat /\ k \in 0 .. Len(q)
  BY <1>3, <1>7, NowTypes
<1>10. Now(q, l, k) <= d
  <2>1. CASE k = 0
    BY <2>1, NowSteps
  <2>2. CASE k # 0
    <3>1. k \in 1 .. m - 1
      BY <1>3, <1>7, <2>2
    <3> QED BY <1>8, <3>1
  <2> QED BY <2>1, <2>2
<1>11. ASSUME k < Len(q) PROVE Now(q, l, k) + l[q[k + 1]] > d
  <2>1. m \in 1 .. Len(q) /\ k + 1 = m /\ k \in Nat
    BY <1>0, <1>3, <1>7, <1>11
  <2>2. ~\A i \in 1 .. m : Now(q, l, i) <= d
    BY <1>3, <2>1 DEF Passed
  <2>3. \A i \in 1 .. m : i # m => i \in 1 .. m - 1
    BY <1>3
  <2>4. ~(Now(q, l, m) <= d)
    BY <1>8, <2>2, <2>3
  <2>5. Now(q, l, m) \in Nat
    BY <1>0, <2>1, NowTypes
  <2>6. Now(q, l, m) = Now(q, l, k) + l[q[k + 1]]
    BY <2>1, NowSteps
  <2> QED BY <2>4, <2>5, <2>6
<1> QED BY <1>9, <1>10, <1>11

\* The end of wd_start.
LEMMA InsertKeeps ==
    ASSUME NEW q, NEW l, ListOK(q, l), NEW w \in Dog, w \notin ToSet(q), NEW d \in Nat, d > 0
    PROVE  /\ ListOK(InsertedList(q, l, w, d), InsertedLag(q, l, w, d))
           /\ ToSet(InsertedList(q, l, w, d)) = ToSet(q) \cup {w}
           /\ Waits(q, l) => Waits(InsertedList(q, l, w, d), InsertedLag(q, l, w, d))
<1> DEFINE k == Cardinality(Passed(q, l, d))
           rest == d - Now(q, l, k)
           q2 == InsertAt(q, k + 1, w)
           l2 == InsertedLag(q, l, w, d)
<1>0. q \in Seq(Dog) /\ IsInjective(q) /\ l \in [Dog -> Nat] /\ Len(q) \in Nat
  BY DEF ListOK
<1>1. /\ k \in 0 .. Len(q) /\ Now(q, l, k) \in Nat /\ Now(q, l, k) <= d
      /\ k < Len(q) => Now(q, l, k) + l[q[k + 1]] > d
  <2> HIDE DEF k
  <2> QED BY PassedIsPrefix DEF k
<1>2. l2 = [u \in Dog |-> CASE u = w -> rest
                            [] u # w /\ k < Len(q) /\ u = q[k + 1] -> l[u] - rest
                            [] OTHER -> l[u]]
  BY DEF InsertedLag
<1>3. InsertedList(q, l, w, d) = q2
  BY DEF InsertedList
<1>4. rest \in Nat /\ (k < Len(q) => l[q[k + 1]] - rest \in Nat /\ l[q[k + 1]] - rest > 0)
  <2>1. k < Len(q) => l[q[k + 1]] \in Nat
    BY <1>0, <1>1
  <2> HIDE DEF k
  <2> QED BY <1>1, <2>1
<1>5. k + 1 \in 1 .. Len(q) + 1
  BY <1>0, <1>1
<1> HIDE DEF k, l2, rest
<1>6. q2 \in Seq(Dog) /\ ToSet(q2) = ToSet(q) \cup {w} /\ IsInjective(q2)
  BY <1>0, <1>5, InsertAtProperties, InsertAtElements
<1>7. l2 \in [Dog -> Nat] /\ l2[w] = rest
  <2>1. ASSUME NEW u \in Dog PROVE l2[u] \in Nat
    BY <1>0, <1>2, <1>4
  <2>2. l2 = [u \in Dog |-> l2[u]]
    BY <1>2
  <2>3. l2[w] = rest
    BY <1>2
  <2> QED BY <2>1, <2>2, <2>3
<1>8. ASSUME Waits(q, l) PROVE Waits(q2, l2)
  <2>1. Len(q2) = Len(q) + 1 /\ q2[1] = IF 1 < k + 1 THEN q[1] ELSE IF 1 = k + 1 THEN w ELSE q[1 - 1]
    BY <1>0, <1>5, InsertAtEntries
  <2>2. Head(q2) = q2[1]
    BY <1>0, <1>6, <2>1
  <2>3. CASE k = 0
    <3>1. q2[1] = w
      BY <2>1, <2>3
    <3>2. rest = d
      BY <2>3, NowSteps DEF rest
    <3> QED BY <1>7, <2>2, <3>1, <3>2 DEF Waits
  <2>4. CASE k # 0
    <3>1. q2[1] = q[1] /\ Len(q) > 0 /\ 1 \in 1 .. Len(q) /\ (k < Len(q) => k + 1 \in 1 .. Len(q) /\ k + 1 # 1)
      BY <1>0, <1>1, <2>1, <2>4
    <3>2. q # <<>> /\ Head(q) = q[1] /\ q[1] \in Dog
      BY <1>0, <3>1
    <3>3. q[1] # w
      BY <3>1, <1>0 DEF ToSet
    <3>4. k < Len(q) => q[1] # q[k + 1]
      BY <1>0, <3>1 DEF IsInjective
    <3>5. l2[q[1]] = l[q[1]]
      BY <1>2, <3>2, <3>3, <3>4
    <3> QED BY <1>8, <2>2, <3>1, <3>2, <3>5 DEF Waits
  <2> QED BY <2>3, <2>4
<1> HIDE DEF q2
<1> QED BY <1>3, <1>6, <1>7, <1>8 DEF ListOK, l2

\* wd_cancel, and the removal of the first entry by wd_expiration.
LEMMA CancelKeeps ==
    ASSUME NEW q, NEW l, ListOK(q, l), NEW w \in ToSet(q)
    PROVE  /\ w \in Dog
           /\ ListOK(CancelledList(q, w), CancelledLag(q, l, w))
           /\ ToSet(CancelledList(q, w)) = ToSet(q) \ {w}
           /\ Waits(q, l) => Waits(CancelledList(q, w), CancelledLag(q, l, w))
<1>0. q \in Seq(Dog) /\ IsInjective(q) /\ l \in [Dog -> Nat] /\ Len(q) \in Nat
      /\ \A j \in 1 .. Len(q) : q[j] \in Dog
  BY DEF ListOK
<1>1. PICK i \in 1 .. Len(q) : q[i] = w /\ RemoveFirst(q, w) = RemoveAt(q, i)
  BY <1>0, RemoveFirstEntry
<1>2. IndexOf(q, w) = i
  BY <1>0, <1>1 DEF IndexOf, IsInjective
<1> DEFINE q2 == RemoveAt(q, i)
           l2 == CancelledLag(q, l, w)
<1>3. q2 \in Seq(Dog) /\ ToSet(q2) = ToSet(q) \ {w} /\ IsInjective(q2)
  BY <1>0, <1>1, RemoveAtEntries, RemoveAtElements
<1>4. l2 = IF i < Len(q) THEN [[l EXCEPT ![w] = 0] EXCEPT ![q[i + 1]] = @ + l[w]] ELSE [l EXCEPT ![w] = 0]
  BY <1>2 DEF CancelledLag
<1>5. l2 \in [Dog -> Nat]
  <2>1. i < Len(q) => q[i + 1] \in Dog
    BY <1>0, <1>1
  <2>2. [l EXCEPT ![w] = 0] \in [Dog -> Nat] /\ l[w] \in Nat
    BY <1>0, <1>1
  <2> QED BY <1>4, <2>1, <2>2
<1>6. ASSUME Waits(q, l), q2 # <<>> PROVE l2[Head(q2)] > 0
  <2>1. Len(q2) = Len(q) - 1 /\ \A j \in 1 .. Len(q) - 1 : q2[j] = IF j < i THEN q[j] ELSE q[j + 1]
    BY <1>0, <1>1, RemoveAtEntries
  <2> HIDE DEF q2
  <2>2. Len(q2) # 0
    BY <1>3, <1>6, EmptySeq
  <2>3. Head(q2) = q2[1] /\ 1 \in 1 .. Len(q) - 1 /\ 1 \in 1 .. Len(q) /\ 2 \in 1 .. Len(q) /\ q # <<>>
    BY <1>0, <1>3, <2>1, <2>2
  <2>4. l[q[1]] > 0 /\ l[q[1]] \in Nat /\ l[q[2]] \in Nat /\ q[1] \in Dog /\ q[2] \in Dog /\ q[1] # q[2]
    BY <1>0, <1>6, <2>3 DEF Waits, IsInjective
  <2>5. CASE i = 1
    <3>1. Head(q2) = q[2] /\ i < Len(q) /\ i + 1 = 2 /\ w = q[1]
      BY <1>0, <1>1, <2>1, <2>3, <2>5
    <3>2. l2[q[2]] = l[q[2]] + l[q[1]]
      BY <1>0, <1>4, <2>4, <3>1
    <3> QED BY <2>4, <3>1, <3>2
  <2>6. CASE i # 1
    <3>1. Head(q2) = q[1] /\ i \in 1 .. Len(q) /\ i # 1 /\ (i < Len(q) => i + 1 \in 1 .. Len(q) /\ i + 1 # 1)
      BY <1>0, <1>1, <2>1, <2>3, <2>6
    <3>2. w # q[1] /\ (i < Len(q) => q[i + 1] # q[1] /\ q[i + 1] \in Dog)
      BY <1>0, <1>1, <2>3, <3>1 DEF IsInjective
    <3>3. l2[q[1]] = l[q[1]]
      BY <1>0, <1>1, <1>4, <2>4, <3>2
    <3> QED BY <2>4, <3>1, <3>3
  <2> QED BY <2>5, <2>6
<1>7. CancelledList(q, w) = q2
  BY <1>1 DEF CancelledList
<1> HIDE DEF q2, l2
<1>8. Waits(q, l) => Waits(q2, l2)
  BY <1>6 DEF Waits
<1> QED BY <1>0, <1>1, <1>3, <1>5, <1>7, <1>8 DEF ListOK, l2

-----------------------------------------------------------------------------
(***************************************************************************)
(* The inductive invariant.                                                *)
(***************************************************************************)
\* g_wdpool, and the watchdogs that wd_create has given out.
PoolOK ==
    /\ freedogs \subseteq Pool /\ heapdogs \subseteq Dog \ (Pool \cup StaticDog)
    /\ nfree = Cardinality(freedogs)
    /\ IntReserve <= Cardinality(Pool) => IntReserve <= nfree

InUse == (Pool \ freedogs) \cup heapdogs

\* Where a task is, and what it has there.  timer_create alone has a watchdog
\* that no timer has, and has not started it; a task that can be deleted is in
\* no call that a deletion may not break; a live task in a call works on a
\* timer of its own; timer_deleteall keeps the timer interrupt out.
CallOK(o) ==
    /\ pc[o] = "create" <=> pdog[o] # NoDog
    /\ pdog[o] \notin ToSet(active)
    /\ pc[o] \in {"create", "release", "free"} => tstate[o] = "live"
    /\ waitdog[o] # NoDog => tstate[o] = "live" /\ pc[o] = "run"
    /\ tstate[o] = "live" /\ pc[o] \in {"settime", "release", "free"} => ptimer[o] \in Mine(o)
    /\ tstate[o] = "dead" => pc[o] = "run"
    /\ tstate[o] = "leaving" => called = "no"

CallInv == \A o \in Task : CallOK(o)

TimersInv ==
    /\ freetimers = TimerPool \ alloctimers
    /\ \A t \in alloctimers : owner[t] \in Task /\ wdog[t] \in Dog /\ crefs[t] = 1

\* What OwnInv says of a watchdog: it has a user exactly while it is in use,
\* and one that runs or whose handler is called has the user in its argument.
OwnOK(w) ==
    /\ \A a, b \in UsersOf(w) : a = b
    /\ UsersOf(w) # {} => w \notin StaticDog
    /\ w \notin StaticDog => (w \in InUse <=> UsersOf(w) # {})
    /\ w \notin StaticDog /\ (IsActive(w) \/ called = w) => UsersOf(w) = {parm[w]}

OwnInv == \A w \in Dog : OwnOK(w)

TimerInv ==
    /\ TypeOK
    /\ IsInjective(active) /\ (called = "no" => Waits(active, lag))
    /\ PoolOK /\ CallInv /\ TimersInv /\ OwnInv

-----------------------------------------------------------------------------
(***************************************************************************)
(* What the functions of os/kernel/wdog do.                                *)
(***************************************************************************)
\* The list after a step, and what was put in it and taken out of it.
ListStep(new, old) ==
    /\ ListOK(active', lag')
    /\ ToSet(active') = (ToSet(active) \cup new) \ old
    /\ Waits(active, lag) => Waits(active', lag')

\* The list of running watchdogs holds none twice, with lags that are numbers.
LEMMA ActiveList ==
    ASSUME TimerInv
    PROVE  ListOK(active, lag)
BY DEF TimerInv, TypeOK, ListOK

\* A step that leaves the list and the lags alone keeps it so.
LEMMA SameList ==
    ASSUME TimerInv, UNCHANGED <<active, lag>>
    PROVE  ListStep({}, {})
<1>1. ListOK(active', lag')
  BY ActiveList
<1> QED BY <1>1 DEF ListStep, Waits

LEMMA StartStep ==
    ASSUME TimerInv, NEW w \in Dog, NEW d \in Nat, WdStart(w, d)
    PROVE  ListStep({w}, {})
<1> DEFINE q == IF IsActive(w) THEN CancelledList(active, w) ELSE active
           l == IF IsActive(w) THEN CancelledLag(active, lag, w) ELSE lag
<1>1. /\ ListOK(q, l) /\ w \notin ToSet(q) /\ ToSet(q) = ToSet(active) \ {w}
      /\ Waits(active, lag) => Waits(q, l)
  <2>1. CASE IsActive(w)
    BY <2>1, ActiveList, CancelKeeps DEF IsActive
  <2>2. CASE ~IsActive(w)
    BY <2>2, ActiveList DEF IsActive
  <2> QED BY <2>1, <2>2
<1>2. active' = InsertedList(q, l, w, Counted(d)) /\ lag' = InsertedLag(q, l, w, Counted(d))
  BY DEF WdStart
<1>3. Counted(d) \in Nat /\ Counted(d) > 0
  BY DEF Counted
<1> HIDE DEF q, l
<1>4. /\ ListOK(active', lag')
      /\ ToSet(active') = ToSet(q) \cup {w}
      /\ Waits(q, l) => Waits(active', lag')
  BY <1>1, <1>2, <1>3, InsertKeeps
<1> QED BY <1>1, <1>4 DEF ListStep

LEMMA CancelsStep ==
    ASSUME TimerInv, NEW w, WdCancel(w)
    PROVE  ListStep({}, {w})
<1>1. CASE IsActive(w)
  BY <1>1, ActiveList, CancelKeeps DEF WdCancel, ListStep, IsActive
<1>2. CASE ~IsActive(w)
  <2>1. ListStep({}, {})
    BY <1>2, SameList DEF WdCancel
  <2> QED BY <1>2, <2>1 DEF ListStep, IsActive, WdCancel
<1> QED BY <1>1, <1>2

\* The free watchdogs can be counted.
LEMMA FreeDogs ==
    ASSUME PoolOK
    PROVE  /\ IsFiniteSet(freedogs) /\ Cardinality(freedogs) \in Nat /\ Cardinality(Pool) \in Nat
           /\ Cardinality(freedogs) <= Cardinality(Pool) /\ IsFiniteSet(Pool)
<1>1. IsFiniteSet(Pool) /\ freedogs \in SUBSET Pool
  BY WatchdogConstants DEF PoolOK
<1> QED BY <1>1, FS_Subset, FS_CardinalityType

LEMMA CreateStep ==
    ASSUME PoolOK, WdCreate
    PROVE  /\ PoolOK' /\ NewDog \in Dog \ StaticDog /\ NewDog \notin InUse
           /\ InUse' = InUse \cup {NewDog}
           /\ nfree' \in Nat /\ freedogs' \subseteq Pool /\ heapdogs' \subseteq Dog
<1> DEFINE d == NewDog
<1>0. nfree \in Nat /\ IntReserve \in Nat /\ Pool \subseteq Dog /\ StaticDog \subseteq Dog \ Pool
  BY FreeDogs, WatchdogConstants DEF PoolOK
<1>1. d \in Creatable
  BY DEF WdCreate, NewDog
<1> HIDE DEF d
<1>2. CASE MayTakeFree
  <2>1. d \in freedogs /\ nfree > IntReserve
    BY <1>1, <1>2 DEF Creatable, MayTakeFree
  <2>2. freedogs' = freedogs \ {d} /\ nfree' = nfree - 1 /\ heapdogs' = heapdogs
    BY <1>2 DEF WdCreate, d
  <2>3. Cardinality(freedogs') = nfree - 1
    BY <2>1, <2>2, FreeDogs, FS_RemoveElement DEF PoolOK
  <2>4. PoolOK' /\ nfree' \in Nat
    <3>1. nfree - 1 \in Nat /\ IntReserve <= nfree - 1
      BY <1>0, <2>1
    <3> QED BY <2>2, <2>3, <3>1 DEF PoolOK
  <2>5. d \in Dog \ StaticDog /\ d \notin InUse /\ InUse' = InUse \cup {d}
    BY <1>0, <2>1, <2>2 DEF PoolOK, InUse
  <2> QED BY <1>0, <2>4, <2>5 DEF PoolOK, d
<1>3. CASE ~MayTakeFree
  <2>1. d \in Dog \ (Pool \cup StaticDog \cup heapdogs)
    BY <1>1, <1>3 DEF Creatable
  <2>2. heapdogs' = heapdogs \cup {d} /\ UNCHANGED <<freedogs, nfree>>
    BY <1>3 DEF WdCreate, d
  <2>3. PoolOK'
    BY <2>1, <2>2 DEF PoolOK
  <2>4. d \in Dog \ StaticDog /\ d \notin InUse /\ InUse' = InUse \cup {d}
    BY <2>1, <2>2 DEF InUse
  <2> QED BY <1>0, <2>2, <2>3, <2>4 DEF PoolOK, d
<1> QED BY <1>2, <1>3

LEMMA FreeStep ==
    ASSUME PoolOK, NEW w \in InUse, WdFree(w)
    PROVE  /\ PoolOK' /\ InUse' = InUse \ {w}
           /\ nfree' \in Nat /\ freedogs' \subseteq Pool /\ heapdogs' \subseteq Dog
<1>0. /\ nfree \in Nat /\ IntReserve \in Nat /\ Pool \subseteq Dog
      /\ (w \in heapdogs \/ (w \in Pool /\ w \notin freedogs))
  BY FreeDogs, WatchdogConstants DEF PoolOK, InUse
<1>1. CASE w \in heapdogs
  <2>1. heapdogs' = heapdogs \ {w} /\ UNCHANGED <<freedogs, nfree>>
    <3>1. w \notin Pool
      BY <1>1 DEF PoolOK
    <3> QED BY <1>1, <3>1 DEF WdFree
  <2>2. PoolOK' /\ InUse' = InUse \ {w}
    BY <1>1, <2>1 DEF PoolOK, InUse
  <2> QED BY <1>0, <2>1, <2>2 DEF PoolOK
<1>2. CASE w \notin heapdogs
  <2>1. freedogs' = freedogs \cup {w} /\ nfree' = nfree + 1 /\ heapdogs' = heapdogs
    BY <1>0, <1>2 DEF WdFree
  <2>2. Cardinality(freedogs') = nfree + 1
    BY <1>0, <1>2, <2>1, FreeDogs, FS_AddElement DEF PoolOK
  <2>3. PoolOK'
    <3>1. IntReserve <= nfree => IntReserve <= nfree + 1
      BY <1>0
    <3> QED BY <1>0, <1>2, <2>1, <2>2, <3>1 DEF PoolOK
  <2>4. InUse' = InUse \ {w}
    BY <1>0, <1>2, <2>1 DEF InUse
  <2> QED BY <1>0, <2>1, <2>3, <2>4 DEF PoolOK
<1> QED BY <1>1, <1>2

-----------------------------------------------------------------------------
(***************************************************************************)
(* Who uses a watchdog.                                                    *)
(***************************************************************************)
LEMMA InReleased ==
    ASSUME NEW t
    PROVE  /\ t \in Released <=> \E o \in Task : pc[o] = "free" /\ ptimer[o] = t
           /\ t \in Released' <=> \E o \in Task : pc'[o] = "free" /\ ptimer'[o] = t
BY DEF Released

\* Who uses a watchdog: a timer, a timed wait, or a call under way.
LEMMA InUsersOf ==
    ASSUME NEW w, NEW x
    PROVE  /\ x \in UsersOf(w) <=> \/ x \in alloctimers /\ x \notin Released /\ wdog[x] = w
                                   \/ x \in Task /\ (waitdog[x] = w \/ pdog[x] = w)
           /\ x \in UsersOf(w)' <=> \/ x \in alloctimers' /\ x \notin Released' /\ wdog'[x] = w
                                    \/ x \in Task /\ (waitdog'[x] = w \/ pdog'[x] = w)
BY DEF UsersOf

\* A step that creates, frees and moves nothing.
LEMMA UsersSame ==
    ASSUME UNCHANGED <<alloctimers, wdog, waitdog, pdog>>,
           \A o \in Task : /\ pc[o] = "free" <=> pc'[o] = "free"
                           /\ pc[o] = "free" => ptimer'[o] = ptimer[o],
           NEW w
    PROVE  UsersOf(w)' = UsersOf(w)
<1>1. ASSUME NEW x PROVE x \in Released' <=> x \in Released
  BY InReleased
<1>2. ASSUME NEW x PROVE x \in UsersOf(w)' <=> x \in UsersOf(w)
  BY <1>1, InUsersOf
<1> QED BY <1>2

\* How the record of a watchdog changes in a step.
OwnMove(w) ==
    /\ \/ UsersOf(w)' = UsersOf(w) /\ (w \in InUse' <=> w \in InUse)
       \/ w \notin StaticDog /\ UsersOf(w)' = {} /\ w \notin InUse'
       \/ w \notin StaticDog /\ (\E u : UsersOf(w)' = {u}) /\ w \in InUse'
    /\ w \notin StaticDog /\ (w \in ToSet(active') \/ called' = w) =>
         \/ (w \in ToSet(active) \/ called = w) /\ parm'[w] = parm[w] /\ UsersOf(w)' = UsersOf(w)
         \/ UsersOf(w)' = {parm'[w]}

\* A watchdog stays accounted for if its users and its place move together.
LEMMA OwnStep ==
    ASSUME OwnInv, NEW w \in Dog, OwnMove(w)
    PROVE  OwnOK(w)'
<1>1. OwnOK(w)
  BY DEF OwnInv
<1> DEFINE U == UsersOf(w)
           V == UsersOf(w)'
<1>2. /\ (\A a, b \in U : a = b) /\ (U # {} => w \notin StaticDog)
      /\ w \notin StaticDog => (w \in InUse <=> U # {})
      /\ w \notin StaticDog /\ (w \in ToSet(active) \/ called = w) => U = {parm[w]}
  BY <1>1 DEF OwnOK, IsActive
<1>3. /\ \/ V = U /\ (w \in InUse' <=> w \in InUse)
         \/ w \notin StaticDog /\ V = {} /\ w \notin InUse'
         \/ w \notin StaticDog /\ (\E u : V = {u}) /\ w \in InUse'
      /\ w \notin StaticDog /\ (w \in ToSet(active') \/ called' = w) =>
           \/ (w \in ToSet(active) \/ called = w) /\ parm'[w] = parm[w] /\ V = U
           \/ V = {parm'[w]}
  BY DEF OwnMove
<1> HIDE DEF U, V
<1>4. /\ (\A a, b \in V : a = b) /\ (V # {} => w \notin StaticDog)
      /\ w \notin StaticDog => (w \in InUse' <=> V # {})
      /\ w \notin StaticDog /\ (w \in ToSet(active') \/ called' = w) => V = {parm'[w]}
  BY <1>2, <1>3
<1> QED BY <1>4 DEF OwnOK, IsActive, V

\* A watchdog in use is used once: by a timer, or by a task, and not a driver's.
LEMMA OwnFacts ==
    ASSUME TimerInv, NEW w \in Dog, NEW x \in UsersOf(w)
    PROVE  w \in InUse /\ w \notin StaticDog /\ UsersOf(w) = {x}
BY DEF TimerInv, OwnInv, OwnOK

\* A timer in g_alloctimers that is not released uses its watchdog.
LEMMA TimerUses ==
    ASSUME TimerInv, NEW t \in alloctimers, t \notin Released
    PROVE  /\ t \in Timer /\ wdog[t] \in Dog /\ owner[t] \in Task /\ crefs[t] = 1 /\ wdog[t] # NoDog
           /\ UsersOf(wdog[t]) = {t} /\ wdog[t] \in InUse /\ wdog[t] \notin StaticDog
<1>1. t \in Timer /\ wdog[t] \in Dog /\ owner[t] \in Task /\ crefs[t] = 1 /\ wdog[t] # NoDog
  BY WatchdogConstants DEF TimerInv, TypeOK, TimersInv
<1>2. t \in UsersOf(wdog[t])
  BY DEF UsersOf
<1> QED BY <1>1, <1>2, OwnFacts

\* A task that has a watchdog in its wait or its call is the only user of it.
LEMMA TaskUses ==
    ASSUME TimerInv, NEW o \in Task, NEW w \in Dog, waitdog[o] = w \/ pdog[o] = w
    PROVE  UsersOf(w) = {o} /\ w \in InUse /\ w \notin StaticDog
<1>1. o \in UsersOf(w)
  BY InUsersOf
<1> QED BY <1>1, OwnFacts

\* Only the owner of a timer is in timer_release with it.
LEMMA OnlyOwnerReleases ==
    ASSUME TimerInv, NEW t \in Released
    PROVE  owner[t] \in Task /\ pc[owner[t]] = "free" /\ tstate[owner[t]] = "live" /\ t \in alloctimers
           /\ ptimer[owner[t]] = t
<1>1. PICK o \in Task : pc[o] = "free" /\ ptimer[o] = t
  BY DEF Released
<1>2. tstate[o] = "live" /\ t \in Mine(o)
  BY <1>1 DEF TimerInv, CallInv, CallOK
<1> QED BY <1>1, <1>2 DEF Mine

-----------------------------------------------------------------------------
(***************************************************************************)
(* The steps.  First those that leave the timers, the tasks and the pool   *)
(* alone: what is in the list was there before, or is a driver's, or is    *)
(* the watchdog of the timer that runs out.                                *)
(***************************************************************************)
DogTypes ==
    /\ active \in Seq(Dog) /\ lag \in [Dog -> Nat]
    /\ freedogs \subseteq Pool /\ nfree \in Nat /\ heapdogs \subseteq Dog
    /\ called \in Dog \cup {NoDog, "no"}

TimerTypes ==
    /\ parm \in [Dog -> Timer \cup Task \cup {NoTimer}]
    /\ alloctimers \subseteq Timer /\ freetimers \subseteq TimerPool
    /\ owner \in [Timer -> Task \cup {NoTask}] /\ wdog \in [Timer -> Dog \cup {NoDog}]
    /\ crefs \in [Timer -> 0 .. 1] /\ period \in [Timer -> 0 .. MaxDelay]

TaskTypes ==
    /\ waitdog \in [Task -> Dog \cup {NoDog}]
    /\ tstate \in [Task -> {"live", "dying", "leaving", "dead"}]
    /\ pc \in [Task -> {"run", "create", "settime", "release", "free"}]
    /\ ptimer \in [Task -> Timer \cup {NoTimer}] /\ pdog \in [Task -> Dog \cup {NoDog}]
    /\ pdelay \in [Task -> 0 .. MaxDelay]

\* The parts of the type invariant.
LEMMA Types ==
    TypeOK <=> DogTypes /\ TimerTypes /\ TaskTypes
BY DEF TypeOK, DogTypes, TimerTypes, TaskTypes

\* The same after a step.
LEMMA TypesNext ==
    TypeOK' <=> DogTypes' /\ TimerTypes' /\ TaskTypes'
BY DEF TypeOK, DogTypes, TimerTypes, TaskTypes

\* The invariant after a step, from its effects on each watchdog.
LEMMA Conclude ==
    ASSUME OwnInv, ListOK(active', lag'), called' = "no" => Waits(active', lag'),
           PoolOK', nfree' \in Nat, called' \in Dog \cup {NoDog, "no"},
           TimerTypes', TaskTypes', CallInv', TimersInv', \A w \in Dog : OwnMove(w)
    PROVE  TimerInv'
<1>1. OwnInv'
  BY OwnStep DEF OwnInv
<1>2. DogTypes'
  BY WatchdogConstants DEF DogTypes, ListOK, PoolOK
<1> QED BY <1>1, <1>2, TypesNext DEF TimerInv, ListOK

\* The head of a list that is not empty is an entry of it.
LEMMA HeadIsEntry ==
    ASSUME NEW q, q \in Seq(Dog), q # <<>>
    PROVE  Head(q) \in Dog /\ Head(q) \in ToSet(q) /\ Head(q) = q[1] /\ Len(q) \in Nat /\ Len(q) >= 1
           /\ 1 \in 1 .. Len(q)
BY DEF ToSet

\* A step that changes only the list and the handler that runs.
LEMMA ListMoves ==
    ASSUME TimerInv, ListOK(active', lag'),
           \A w \in ToSet(active') : \/ w \in ToSet(active) \/ w \in StaticDog
                                     \/ w = called /\ parm[w] \in Timer,
           called' \in Dog \cup {NoDog, "no"},
           called' \in Dog => called' \in ToSet(active),
           called' = "no" => Waits(active', lag'),
           (\E o \in Task : tstate[o] = "leaving") => called' = "no",
           UNCHANGED <<freedogs, nfree, heapdogs, parm, timerVars, waitdog, tstate, callVars>>
    PROVE  TimerInv'
<1>1. TypeOK /\ OwnInv /\ PoolOK /\ CallInv /\ TimersInv
  BY DEF TimerInv
<1>2. UNCHANGED <<alloctimers, freetimers, owner, wdog, crefs, period, pc, ptimer, pdog, pdelay>>
  BY DEF timerVars, callVars
<1>3. PoolOK' /\ nfree' \in Nat /\ InUse' = InUse
  BY <1>1 DEF PoolOK, TypeOK, InUse
<1>4. TimerTypes' /\ TaskTypes'
  BY <1>1, <1>2 DEF TypeOK, TimerTypes, TaskTypes
<1>5. TimersInv'
  BY <1>1, <1>2 DEF TimersInv
<1>6. ASSUME NEW o \in Task PROVE pdog[o] \notin ToSet(active')
  <2>0. pdog[o] \in Dog \cup {NoDog} /\ pdog[o] \notin ToSet(active) /\ o \notin Timer
    BY <1>1, TimerConstants DEF TypeOK, CallInv, CallOK
  <2>1. CASE pdog[o] = NoDog
    <3>1. ToSet(active') \subseteq Dog
      BY DEF ListOK, ToSet
    <3> QED BY <2>1, <3>1, WatchdogConstants
  <2>2. CASE pdog[o] # NoDog
    <3>1. pdog[o] \in Dog /\ pdog[o] \notin StaticDog /\ UsersOf(pdog[o]) = {o}
      BY <2>0, <2>2, TaskUses
    <3>2. pdog[o] = called => parm[called] = o
      BY <1>1, <3>1 DEF OwnInv, OwnOK
    <3> QED BY <2>0, <3>1, <3>2
  <2> QED BY <2>1, <2>2
<1>7. CallInv'
  <2>1. \A o \in Task : Mine(o)' = Mine(o)
    BY <1>2 DEF Mine
  <2>2. ASSUME NEW o \in Task PROVE tstate'[o] = "leaving" => called' = "no"
    OBVIOUS
  <2> QED BY <1>1, <1>2, <1>6, <2>1, <2>2 DEF CallInv, CallOK
<1>8. ASSUME NEW w \in Dog PROVE OwnMove(w)
  <2>1. UsersOf(w)' = UsersOf(w)
    BY <1>2, UsersSame
  <2>2. ASSUME w \notin StaticDog, w \in ToSet(active') \/ called' = w PROVE w \in ToSet(active) \/ called = w
    BY <2>2
  <2> QED BY <1>3, <2>1, <2>2 DEF OwnMove
<1> QED BY <1>1, <1>3, <1>4, <1>5, <1>7, <1>8, Conclude

\* The watchdogs of drivers are watchdogs.
LEMMA StaticDogs ==
    ASSUME NEW w \in StaticDog
    PROVE  w \in Dog /\ w # NoDog
BY WatchdogConstants

\* A task can run only outside of handlers and exits.
LEMMA Undisturbed ==
    ASSUME TimerInv, Preemptible
    PROVE  /\ called = "no" /\ \A o \in Task : tstate[o] # "leaving"
           /\ Waits(active, lag)
           /\ called \notin Dog
BY WatchdogConstants DEF TimerInv, Preemptible, InInterrupt

LEMMA DriverStep ==
    ASSUME TimerInv, NEW w \in StaticDog, NEW d \in 0 .. MaxDelay, DriverStart(w, d) \/ DriverCancel(w)
    PROVE  TimerInv'
<1>0. d \in Nat /\ w \in Dog
  BY WatchdogConstants
<1>1. Preemptible /\ UNCHANGED <<freedogs, nfree, heapdogs, called, parm, timerVars, waitdog, tstate, callVars>>
  BY DEF DriverStart, DriverCancel
<1>2. ListStep({w}, {}) \/ ListStep({}, {w})
  BY <1>0, StartStep, CancelsStep DEF DriverStart, DriverCancel
<1>3. /\ ListOK(active', lag') /\ Waits(active', lag')
      /\ \A u \in ToSet(active') : u \in ToSet(active) \/ u \in StaticDog
  BY <1>1, <1>2, Undisturbed DEF ListStep
<1> QED BY <1>1, <1>3, Undisturbed, ListMoves

LEMMA DisarmStep ==
    ASSUME TimerInv, NEW o \in Task, NEW t \in Timer, TimerDisarm(o, t)
    PROVE  TimerInv'
<1>1. Preemptible /\ UNCHANGED <<freedogs, nfree, heapdogs, called, parm, timerVars, waitdog, tstate, callVars>>
  BY DEF TimerDisarm, Runs, Ready
<1>2. ListStep({}, {wdog[t]})
  BY CancelsStep DEF TimerDisarm
<1>3. /\ ListOK(active', lag') /\ Waits(active', lag')
      /\ \A u \in ToSet(active') : u \in ToSet(active) \/ u \in StaticDog
  BY <1>1, <1>2, Undisturbed DEF ListStep
<1> QED BY <1>1, <1>3, Undisturbed, ListMoves

LEMMA TickStep ==
    ASSUME TimerInv, Tick
    PROVE  TimerInv'
<1> DEFINE h == Head(active)
<1>0. /\ Preemptible /\ UNCHANGED <<freedogs, nfree, heapdogs, parm, timerVars, waitdog, tstate, callVars>>
      /\ active # <<>> /\ active' = active /\ lag' = [lag EXCEPT ![h] = @ - 1]
      /\ called' = IF lag'[h] <= 0 THEN NoDog ELSE "no"
  BY DEF Tick, WdTimer
<1>1. ListOK(active, lag) /\ lag[h] > 0 /\ \A o \in Task : tstate[o] # "leaving"
  BY <1>0, Undisturbed, ActiveList DEF Waits
<1>2. h \in Dog /\ lag \in [Dog -> Nat] /\ active \in Seq(Dog)
  BY <1>0, <1>1, HeadIsEntry DEF ListOK
<1> HIDE DEF h
<1>3. lag' \in [Dog -> Nat] /\ lag'[h] = lag[h] - 1
  <2>1. lag[h] \in Nat /\ lag[h] - 1 \in Nat
    BY <1>1, <1>2
  <2> QED BY <1>0, <1>2, <2>1
<1>4. ListOK(active', lag')
  BY <1>0, <1>1, <1>3 DEF ListOK
<1>5. called' = "no" => Waits(active', lag')
  <2>1. called' = "no" => ~(lag'[h] <= 0)
    BY <1>0, WatchdogConstants
  <2>2. lag'[h] \in Nat
    BY <1>2, <1>3
  <2> QED BY <1>0, <2>1, <2>2 DEF Waits, h
<1>6. called' \in {NoDog, "no"} /\ called' \notin Dog
  BY <1>0, WatchdogConstants
<1> QED BY <1>0, <1>1, <1>4, <1>5, <1>6, ListMoves

LEMMA ExpireStep ==
    ASSUME TimerInv, Expire
    PROVE  TimerInv'
<1> DEFINE h == Head(active)
<1>0. /\ UNCHANGED <<freedogs, nfree, heapdogs, parm, timerVars, waitdog, tstate, callVars>>
      /\ called = NoDog /\ active # <<>> /\ active' = Tail(active)
      /\ lag' = CancelledLag(active, lag, h) /\ called' = h
  BY DEF Expire, WdExpiration
<1>1. ListOK(active, lag) /\ active \in Seq(Dog) /\ IsInjective(active)
  BY ActiveList DEF ListOK
<1>2. h \in ToSet(active) /\ h \in Dog /\ h = active[1] /\ Len(active) \in Nat /\ Len(active) >= 1
      /\ 1 \in 1 .. Len(active)
  BY <1>0, <1>1, HeadIsEntry
<1> HIDE DEF h
<1>3. CancelledList(active, h) = Tail(active)
  BY <1>0, <1>1, TailElements DEF CancelledList, h
<1>4. ListOK(active', lag') /\ ToSet(active') = ToSet(active) \ {h}
  <2>1. /\ ListOK(CancelledList(active, h), CancelledLag(active, lag, h))
        /\ ToSet(CancelledList(active, h)) = ToSet(active) \ {h}
    BY <1>1, <1>2, CancelKeeps
  <2> QED BY <1>0, <1>3, <2>1
<1>5. \A o \in Task : tstate[o] # "leaving"
  BY <1>0, WatchdogConstants DEF TimerInv, CallInv, CallOK
<1>6. called' # "no"
  BY <1>0, <1>2, WatchdogConstants
<1> QED BY <1>0, <1>2, <1>4, <1>5, <1>6, ListMoves

\* A handler returns on a list in which no first entry has run out, or
\* wd_expiration goes on.
LEMMA ReturnStep ==
    ASSUME TimerInv, called # "no", ListOK(active', lag'), HandlerReturns
    PROVE  /\ called' \in {NoDog, "no"} /\ called' \notin Dog
           /\ called' = "no" => Waits(active', lag')
           /\ \A o \in Task : tstate[o] # "leaving"
<1>1. called' \in {NoDog, "no"} /\ called' \notin Dog
  BY WatchdogConstants DEF HandlerReturns
<1>2. ASSUME called' = "no", active' # <<>> PROVE lag'[Head(active')] > 0
  <2>1. ~(lag'[Head(active')] <= 0)
    BY <1>2, WatchdogConstants DEF HandlerReturns, RunsOut
  <2>2. lag'[Head(active')] \in Nat
    <3>1. active' \in Seq(Dog) /\ lag' \in [Dog -> Nat]
      BY DEF ListOK
    <3>2. Head(active') \in Dog
      BY <1>2, <3>1, HeadIsEntry
    <3> QED BY <3>1, <3>2
  <2> QED BY <2>1, <2>2
<1>3. \A o \in Task : tstate[o] # "leaving"
  BY DEF TimerInv, CallInv, CallOK
<1> QED BY <1>1, <1>2, <1>3 DEF Waits

LEMMA DriverTimeoutStep ==
    ASSUME TimerInv, DriverTimeout
    PROVE  TimerInv'
<1>1. /\ UNCHANGED <<freedogs, nfree, heapdogs, parm, timerVars, waitdog, tstate, callVars>>
      /\ called # "no" /\ HandlerReturns
  BY WatchdogConstants DEF DriverTimeout
<1>2. ListOK(active', lag') /\ \A u \in ToSet(active') : u \in ToSet(active) \/ u \in StaticDog
  <2>1. ASSUME NEW w \in StaticDog, NEW d \in 0 .. MaxDelay, WdStart(w, d)
        PROVE  ListStep({w}, {})
    <3>1. d \in Nat /\ w \in Dog
      BY WatchdogConstants
    <3> QED BY <2>1, <3>1, StartStep
  <2>2. ASSUME NEW w \in StaticDog, WdCancel(w) PROVE ListStep({}, {w})
    BY <2>2, CancelsStep
  <2>3. \/ \E w \in StaticDog : ListStep({w}, {}) \/ ListStep({}, {w})
        \/ ListStep({}, {})
    BY <2>1, <2>2, SameList DEF DriverTimeout
  <2> QED BY <2>3 DEF ListStep
<1> QED BY <1>1, <1>2, ReturnStep, ListMoves

LEMMA WaitTimeoutStep ==
    ASSUME TimerInv, NEW o \in Task, WaitTimeout(o)
    PROVE  TimerInv'
<1>1. /\ UNCHANGED <<active, lag, freedogs, nfree, heapdogs, parm, timerVars, waitdog, tstate, callVars>>
      /\ called # "no" /\ HandlerReturns
  BY WatchdogConstants DEF WaitTimeout
<1>2. ListOK(active', lag') /\ \A u \in ToSet(active') : u \in ToSet(active)
  BY <1>1, SameList DEF ListStep
<1> QED BY <1>1, <1>2, ReturnStep, ListMoves

\* The timer that runs out exists and has one reference: with the one that
\* timer_timeout takes there are two, and it is never freed here.
LEMMA TimerTimeoutStep ==
    ASSUME TimerInv, NEW t \in Timer, TimerTimeout(t)
    PROVE  TimerInv'
<1>1. called \in Dog \ StaticDog /\ parm[called] = t /\ HandlerReturns /\ t \notin Task
      /\ UNCHANGED <<parm, waitdog, tstate, callVars>>
  BY TimerConstants DEF TimerTimeout
<1>2. UsersOf(called) = {t}
  BY <1>1 DEF TimerInv, OwnInv, OwnOK
<1>3. t \in alloctimers /\ t \notin Released /\ wdog[t] = called
  <2>1. t \in UsersOf(called)
    BY <1>2
  <2> QED BY <1>1, <2>1, InUsersOf
<1>4. crefs \in [Timer -> 0 .. 1] /\ crefs[t] = 1 /\ HeldRef(t) > 1 /\ HeldRef(t) - 1 = 1
  BY <1>3 DEF TimerInv, TypeOK, TimersInv, HeldRef
<1>5. /\ crefs' = crefs /\ UNCHANGED <<freedogs, nfree, heapdogs, alloctimers, freetimers, owner, wdog, period>>
      /\ IF period[t] > 0 THEN WdStart(wdog[t], period[t]) ELSE UNCHANGED <<active, lag>>
  <2>1. crefs' = [crefs EXCEPT ![t] = HeldRef(t) - 1]
    BY <1>4 DEF TimerTimeout
  <2>2. crefs' = crefs
    BY <1>4, <2>1
  <2> QED BY <1>4, <2>2 DEF TimerTimeout
<1>6. ListStep({called}, {}) \/ ListStep({}, {})
  <2>1. period[t] \in Nat
    BY WatchdogConstants DEF TimerInv, TypeOK
  <2> QED BY <1>1, <1>3, <1>5, <2>1, StartStep, SameList
<1>7. ListOK(active', lag') /\ \A u \in ToSet(active') : u \in ToSet(active) \/ (u = called /\ parm[u] \in Timer)
  BY <1>1, <1>6 DEF ListStep
<1>8. called # "no" /\ UNCHANGED timerVars
  BY <1>1, <1>5, WatchdogConstants DEF timerVars
<1> QED BY <1>1, <1>5, <1>7, <1>8, ReturnStep, ListMoves

-----------------------------------------------------------------------------
(***************************************************************************)
(* The steps of a task in the timer code.                                  *)
(***************************************************************************)
LEMMA GotoStep ==
    ASSUME TaskTypes, NEW o \in Task, NEW c \in {"run", "create", "settime", "release", "free"},
           NEW t \in Timer \cup {NoTimer}, NEW w \in Dog \cup {NoDog}, NEW d \in 0 .. MaxDelay,
           Goto(o, c, t, w, d),
           waitdog' \in [Task -> Dog \cup {NoDog}],
           tstate' \in [Task -> {"live", "dying", "leaving", "dead"}]
    PROVE  /\ TaskTypes'
           /\ pc'[o] = c /\ ptimer'[o] = t /\ pdog'[o] = w
           /\ \A u \in Task : u # o => pc'[u] = pc[u] /\ ptimer'[u] = ptimer[u] /\ pdog'[u] = pdog[u]
BY DEF TaskTypes, Goto

\* The other tasks see at most that an entry left the list.
LEMMA OtherCalls ==
    ASSUME TimerInv, NEW u \in Task,
           pc'[u] = pc[u], ptimer'[u] = ptimer[u], pdog'[u] = pdog[u], waitdog'[u] = waitdog[u],
           tstate'[u] = tstate[u], called' = called,
           pdog[u] \notin ToSet(active'),
           ptimer[u] \in Mine(u) => ptimer[u] \in Mine(u)'
    PROVE  CallOK(u)'
<1>1. CallOK(u)
  BY DEF TimerInv, CallInv
<1> QED BY <1>1 DEF CallOK

\* A watchdog that wd_create gives out has no user yet.
LEMMA FreshDog ==
    ASSUME TimerInv, NEW w \in Dog \ StaticDog, w \notin InUse
    PROVE  UsersOf(w) = {} /\ w \notin ToSet(active) /\ called # w
<1>1. OwnOK(w)
  BY DEF TimerInv, OwnInv
<1>2. UsersOf(w) = {}
  BY <1>1 DEF OwnOK
<1> QED BY <1>1, <1>2 DEF OwnOK, IsActive

\* No watchdog in the list, and no watchdog in use, is the null one.
LEMMA Entries ==
    ASSUME TimerInv
    PROVE  /\ ToSet(active) \subseteq Dog /\ NoDog \notin Dog /\ "no" \notin Dog /\ NoDog # "no"
           /\ NoDog \notin ToSet(active) /\ 0 \in 0 .. MaxDelay /\ 0 .. MaxDelay \subseteq Nat
BY WatchdogConstants DEF TimerInv, TypeOK, ToSet

LEMMA TimerCreateStep ==
    ASSUME TimerInv, NEW o \in Task, TimerCreate(o)
    PROVE  TimerInv'
<1> DEFINE n == NewDog
<1>0. TypeOK /\ OwnInv /\ PoolOK /\ CallInv /\ TimersInv /\ TaskTypes
  BY Types DEF TimerInv
<1>1. /\ Preemptible /\ tstate[o] = "live" /\ pc[o] = "run" /\ waitdog[o] = NoDog /\ WdCreate
      /\ Goto(o, "create", NoTimer, n, 0)
      /\ UNCHANGED <<active, lag, called, parm, alloctimers, freetimers, owner, wdog, crefs, period, waitdog, tstate>>
  BY DEF TimerCreate, Runs, Ready, timerVars
<1>2. /\ PoolOK' /\ n \in Dog \ StaticDog /\ n \notin InUse /\ InUse' = InUse \cup {n}
      /\ nfree' \in Nat
  BY <1>0, <1>1, CreateStep
<1> HIDE DEF n
<1>3. ListOK(active', lag') /\ Waits(active', lag') /\ called = "no"
  BY <1>1, Undisturbed, SameList DEF ListStep
<1>4. /\ TaskTypes' /\ pc'[o] = "create" /\ ptimer'[o] = NoTimer /\ pdog'[o] = n
      /\ \A u \in Task : u # o => pc'[u] = pc[u] /\ ptimer'[u] = ptimer[u] /\ pdog'[u] = pdog[u]
  <2>1. waitdog' \in [Task -> Dog \cup {NoDog}] /\ tstate' \in [Task -> {"live", "dying", "leaving", "dead"}]
    BY <1>0, <1>1 DEF TaskTypes
  <2>2. 0 \in 0 .. MaxDelay
    BY Entries
  <2> QED BY <1>0, <1>1, <1>2, <2>1, <2>2, GotoStep
<1>5. TimerTypes' /\ TimersInv'
  BY <1>0, <1>1 DEF TypeOK, TimerTypes, TimersInv
<1>6. UsersOf(n) = {} /\ n \notin ToSet(active) /\ called # n /\ n # NoDog
  BY <1>2, FreshDog, Entries
<1>7. \A u \in Task : Mine(u)' = Mine(u)
  BY <1>1 DEF Mine
<1>8. ASSUME NEW u \in Task PROVE CallOK(u)'
  <2>1. CallOK(u)
    BY <1>0 DEF CallInv
  <2>2. CASE u = o
    BY <1>1, <1>3, <1>4, <1>6, <2>1, <2>2 DEF CallOK
  <2>3. CASE u # o
    BY <1>1, <1>4, <1>7, <2>1, <2>3, OtherCalls DEF CallOK
  <2> QED BY <2>2, <2>3
<1>9. \A x : x \in Released' <=> x \in Released
  BY <1>1, <1>4, InReleased
<1>10. pdog[o] = NoDog
  BY <1>0, <1>1 DEF CallInv, CallOK
<1>11. ASSUME NEW w \in Dog PROVE OwnMove(w)
  <2>1. CASE w = n
    <3>1. ASSUME NEW x PROVE x \in UsersOf(w)' <=> x = o
      <4>1. x \notin UsersOf(n)
        BY <1>6
      <4> QED BY <1>1, <1>4, <1>9, <2>1, <4>1, InUsersOf
    <3>2. UsersOf(w)' = {o}
      BY <3>1
    <3> QED BY <1>1, <1>2, <1>6, <2>1, <3>2 DEF OwnMove
  <2>2. CASE w # n
    <3>1. w # NoDog
      BY Entries
    <3>2. ASSUME NEW x PROVE x \in UsersOf(w)' <=> x \in UsersOf(w)
      BY <1>1, <1>4, <1>9, <1>10, <2>2, <3>1, InUsersOf
    <3>3. UsersOf(w)' = UsersOf(w)
      BY <3>2
    <3> QED BY <1>1, <1>2, <2>2, <3>3 DEF OwnMove
  <2> QED BY <2>1, <2>2
<1>12. called' \in Dog \cup {NoDog, "no"} /\ CallInv'
  BY <1>1, <1>3, <1>8 DEF CallInv
<1> QED BY <1>0, <1>2, <1>3, <1>4, <1>5, <1>11, <1>12, Conclude

\* timer_allocate.  The timer is neither in g_alloctimers nor being released.
LEMMA TimerAllocateStep ==
    ASSUME TimerInv, NEW o \in Task, TimerAllocate(o)
    PROVE  TimerInv'
<1> DEFINE n == NewTimer
           m == pdog[o]
<1>0. TypeOK /\ OwnInv /\ PoolOK /\ CallInv /\ TimersInv /\ TaskTypes /\ CallOK(o)
  BY Types DEF TimerInv, CallInv
<1>1. /\ Preemptible /\ tstate[o] = "live" /\ pc[o] = "create" /\ Allocatable # {} /\ Return(o)
      /\ UNCHANGED <<active, lag, freedogs, nfree, heapdogs, called, parm, waitdog, tstate>>
  BY DEF TimerAllocate, Ready, dogVars
<1>2. n \in Timer /\ n \notin alloctimers /\ (n \in freetimers \/ (freetimers = {} /\ n \notin TimerPool))
  <2>1. n \in Allocatable
    BY <1>1 DEF NewTimer
  <2> HIDE DEF n
  <2>2. freetimers = TimerPool \ alloctimers /\ TimerPool \subseteq Timer
    BY <1>0, TimerConstants DEF TimersInv
  <2>3. CASE freetimers # {}
    <3>1. n \in freetimers
      BY <2>1, <2>3 DEF Allocatable
    <3> QED BY <2>2, <3>1
  <2>4. CASE freetimers = {}
    <3>1. n \in Timer \ (TimerPool \cup alloctimers)
      BY <2>1, <2>4 DEF Allocatable
    <3> QED BY <2>4, <3>1
  <2> QED BY <2>3, <2>4
<1>3. /\ freetimers' = freetimers \ {n} /\ alloctimers' = alloctimers \cup {n}
      /\ owner' = [owner EXCEPT ![n] = o] /\ wdog' = [wdog EXCEPT ![n] = m]
      /\ crefs' = [crefs EXCEPT ![n] = 1] /\ period' = [period EXCEPT ![n] = 0]
  BY DEF TimerAllocate
<1>4. m \in Dog /\ m # NoDog /\ m \notin ToSet(active) /\ UsersOf(m) = {o} /\ m \in InUse /\ m \notin StaticDog
  <2>1. m \in Dog /\ m # NoDog /\ m \notin ToSet(active)
    BY <1>0, <1>1 DEF CallOK, TypeOK
  <2> QED BY <2>1, TaskUses
<1>5. n \notin Released /\ o \notin Timer
  BY <1>2, OnlyOwnerReleases, TimerConstants
<1> HIDE DEF n, m
<1>6. /\ TaskTypes' /\ pc'[o] = "run" /\ ptimer'[o] = NoTimer /\ pdog'[o] = NoDog
      /\ \A u \in Task : u # o => pc'[u] = pc[u] /\ ptimer'[u] = ptimer[u] /\ pdog'[u] = pdog[u]
  <2>1. waitdog' \in [Task -> Dog \cup {NoDog}] /\ tstate' \in [Task -> {"live", "dying", "leaving", "dead"}]
    BY <1>0, <1>1 DEF TaskTypes
  <2>2. 0 \in 0 .. MaxDelay
    BY Entries
  <2> QED BY <1>0, <1>1, <2>1, <2>2, GotoStep DEF Return
<1>7. TimerTypes' /\ TimersInv'
  <2>1. TimerTypes /\ 0 \in 0 .. MaxDelay
    BY <1>0, Types, Entries
  <2>2. TimerTypes'
    BY <1>1, <1>2, <1>3, <1>4, <2>1 DEF TimerTypes
  <2>3. freetimers' = TimerPool \ alloctimers'
    BY <1>0, <1>2, <1>3 DEF TimersInv
  <2>4. \A t \in alloctimers' : owner'[t] \in Task /\ wdog'[t] \in Dog /\ crefs'[t] = 1
    BY <1>0, <1>2, <1>3, <1>4, <2>1 DEF TimersInv, TimerTypes
  <2> QED BY <2>2, <2>3, <2>4 DEF TimersInv
<1>8. /\ wdog'[n] = m /\ owner'[n] = o
      /\ \A x \in alloctimers : wdog'[x] = wdog[x] /\ owner'[x] = owner[x] /\ x # n /\ x \in alloctimers'
  BY <1>0, <1>2, <1>3 DEF TypeOK
<1>9. ListOK(active', lag') /\ Waits(active', lag') /\ called = "no" /\ called' = "no"
  BY <1>1, Undisturbed, SameList DEF ListStep
<1>10. ASSUME NEW u \in Task PROVE CallOK(u)'
  <2>1. CallOK(u)
    BY <1>0 DEF CallInv
  <2>2. CASE u = o
    BY <1>1, <1>6, <1>9, <2>1, <2>2, Entries DEF CallOK
  <2>3. CASE u # o
    <3>1. ptimer[u] \in Mine(u) => ptimer[u] \in Mine(u)'
      BY <1>8 DEF Mine
    <3> QED BY <1>1, <1>6, <2>1, <2>3, <3>1, OtherCalls DEF CallOK
  <2> QED BY <2>2, <2>3
<1>11. \A x : x \in Released' <=> x \in Released
  BY <1>1, <1>6, InReleased
<1>12. waitdog[o] = NoDog
  BY <1>0, <1>1 DEF CallOK
<1>13. InUse' = InUse /\ PoolOK' /\ nfree' \in Nat
  BY <1>0, <1>1 DEF InUse, PoolOK, TypeOK
<1>14. ASSUME NEW w \in Dog PROVE OwnMove(w)
  <2>0. w # NoDog
    BY Entries
  <2>1. CASE w = m
    <3>1. ASSUME NEW x PROVE x \in UsersOf(w)' <=> x = n
      <4>1. x \in UsersOf(m) <=> x = o
        BY <1>4
      <4>2. x \in alloctimers' <=> x \in alloctimers \/ x = n
        BY <1>3
      <4>3. CASE x = n
        BY <1>5, <1>8, <1>11, <2>1, <4>2, <4>3, InUsersOf
      <4>4. CASE x # n /\ x # o
        BY <1>1, <1>6, <1>8, <1>11, <2>1, <4>1, <4>2, <4>4, InUsersOf
      <4>5. CASE x = o
        <5>1. o \notin alloctimers'
          BY <1>2, <1>3, <1>5, <1>0 DEF TypeOK
        <5> QED BY <1>1, <1>2, <1>5, <1>6, <1>12, <2>0, <4>5, <5>1, InUsersOf
      <4> QED BY <4>3, <4>4, <4>5
    <3>2. UsersOf(w)' = {n}
      BY <3>1
    <3> QED BY <1>1, <1>4, <1>9, <1>13, <2>1, <3>2, Entries DEF OwnMove
  <2>2. CASE w # m
    <3>1. ASSUME NEW x PROVE x \in UsersOf(w)' <=> x \in UsersOf(w)
      <4>1. x \in alloctimers' <=> x \in alloctimers \/ x = n
        BY <1>3
      <4> QED BY <1>1, <1>2, <1>6, <1>8, <1>11, <2>0, <2>2, <4>1, InUsersOf DEF m
    <3>2. UsersOf(w)' = UsersOf(w)
      BY <3>1
    <3> QED BY <1>1, <1>13, <2>2, <3>2 DEF OwnMove
  <2> QED BY <2>1, <2>2
<1>15. called' \in Dog \cup {NoDog, "no"} /\ CallInv'
  BY <1>9, <1>10 DEF CallInv
<1> QED BY <1>0, <1>6, <1>7, <1>9, <1>13, <1>14, <1>15, Conclude

\* A step to another point of a call concerns the one task, which gives up its watchdog.
LEMMA GotoSame ==
    ASSUME TimerInv, NEW o \in Task, NEW c \in {"run", "create", "settime", "release", "free"},
           NEW t \in Timer \cup {NoTimer}, NEW d \in 0 .. MaxDelay,
           Goto(o, c, t, NoDog, d), UNCHANGED <<waitdog, tstate>>
    PROVE  /\ TaskTypes'
           /\ pc'[o] = c /\ ptimer'[o] = t /\ pdog'[o] = NoDog
           /\ \A u \in Task : u # o => pc'[u] = pc[u] /\ ptimer'[u] = ptimer[u] /\ pdog'[u] = pdog[u]
<1>1. TaskTypes
  BY Types DEF TimerInv
<1>2. waitdog' \in [Task -> Dog \cup {NoDog}] /\ tstate' \in [Task -> {"live", "dying", "leaving", "dead"}]
  BY <1>1 DEF TaskTypes
<1> QED BY <1>1, <1>2, GotoStep

\* So does the end of a call.
LEMMA ReturnSame ==
    ASSUME TimerInv, NEW o \in Task, Return(o), UNCHANGED <<waitdog, tstate>>
    PROVE  /\ TaskTypes'
           /\ pc'[o] = "run" /\ ptimer'[o] = NoTimer /\ pdog'[o] = NoDog
           /\ \A u \in Task : u # o => pc'[u] = pc[u] /\ ptimer'[u] = ptimer[u] /\ pdog'[u] = pdog[u]
<1>1. 0 \in 0 .. MaxDelay
  BY Entries
<1> QED BY <1>1, GotoSame DEF Return

\* wd_delete of a watchdog in use, by its user.
LEMMA DeleteStep ==
    ASSUME TimerInv, NEW w \in InUse, WdDelete(w)
    PROVE  /\ ListStep({}, {w}) /\ PoolOK' /\ InUse' = InUse \ {w} /\ nfree' \in Nat
<1>1. ListStep({}, {w})
  BY CancelsStep DEF WdDelete
<1>2. PoolOK' /\ InUse' = InUse \ {w} /\ nfree' \in Nat
  BY FreeStep DEF WdDelete, TimerInv
<1> QED BY <1>1, <1>2

\* wd_delete stops a watchdog and frees it.
LEMMA DeleteMoves ==
    ASSUME TimerInv, NEW m \in Dog \ StaticDog, ListStep({}, {m}), InUse' = InUse \ {m},
           called = "no", UNCHANGED <<called, parm>>, UsersOf(m)' = {},
           NEW w \in Dog, w # m => UsersOf(w)' = UsersOf(w)
    PROVE  OwnMove(w)
<1>1. ToSet(active') = ToSet(active) \ {m} /\ w # "no"
  BY Entries DEF ListStep
<1>2. CASE w = m
  BY <1>1, <1>2 DEF OwnMove
<1>3. CASE w # m
  BY <1>1, <1>3 DEF OwnMove
<1> QED BY <1>2, <1>3

LEMMA TimerAllocateFailsStep ==
    ASSUME TimerInv, NEW o \in Task, TimerAllocateFails(o)
    PROVE  TimerInv'
<1>m. PICK m : m = pdog[o]
  OBVIOUS
<1>0. TypeOK /\ OwnInv /\ PoolOK /\ CallInv /\ TimersInv /\ CallOK(o)
  BY DEF TimerInv, CallInv
<1>1. /\ Preemptible /\ tstate[o] = "live" /\ pc[o] = "create" /\ Return(o) /\ WdDelete(m)
      /\ UNCHANGED <<called, parm, alloctimers, freetimers, owner, wdog, crefs, period, waitdog, tstate>>
  BY <1>m DEF TimerAllocateFails, Ready, timerVars
<1>2. /\ m \in Dog /\ m # NoDog /\ m \in InUse /\ m \notin StaticDog /\ UsersOf(m) = {o}
  <2>1. m \in Dog /\ m # NoDog
    BY <1>m, <1>0, <1>1 DEF CallOK, TypeOK
  <2> QED BY <1>m, <2>1, TaskUses
<1>3. ListStep({}, {m}) /\ PoolOK' /\ InUse' = InUse \ {m} /\ nfree' \in Nat
  BY <1>1, <1>2, DeleteStep
<1>4. /\ TaskTypes' /\ pc'[o] = "run" /\ ptimer'[o] = NoTimer /\ pdog'[o] = NoDog
      /\ \A u \in Task : u # o => pc'[u] = pc[u] /\ ptimer'[u] = ptimer[u] /\ pdog'[u] = pdog[u]
  BY <1>1, ReturnSame
<1>5. TimerTypes' /\ TimersInv'
  BY <1>0, <1>1 DEF TypeOK, TimerTypes, TimersInv
<1>6. ListOK(active', lag') /\ Waits(active', lag') /\ called = "no" /\ ToSet(active') \subseteq ToSet(active)
  BY <1>1, <1>3, Undisturbed DEF ListStep
<1>7. ASSUME NEW u \in Task PROVE CallOK(u)'
  <2>1. CallOK(u) /\ NoDog \notin ToSet(active)
    BY <1>0, Entries DEF CallInv
  <2>2. CASE u = o
    BY <1>1, <1>4, <1>6, <2>1, <2>2 DEF CallOK
  <2>3. CASE u # o
    <3>1. Mine(u)' = Mine(u)
      BY <1>1 DEF Mine
    <3> QED BY <1>1, <1>4, <1>6, <2>1, <2>3, <3>1, OtherCalls DEF CallOK
  <2> QED BY <2>2, <2>3
<1>8. \A x : x \in Released' <=> x \in Released
  BY <1>1, <1>4, InReleased
<1>9. waitdog[o] = NoDog
  BY <1>0, <1>1 DEF CallOK
<1>10. UsersOf(m)' = {}
  <2>1. ASSUME NEW x PROVE x \notin UsersOf(m)'
    <3>1. x \in UsersOf(m) <=> x = o
      BY <1>2
    <3>2. o \notin alloctimers
      BY <1>0, TimerConstants DEF TypeOK
    <3>3. CASE x = o
      BY <1>1, <1>2, <1>4, <1>9, <3>2, <3>3, InUsersOf
    <3>4. CASE x # o
      BY <1>1, <1>4, <1>8, <3>1, <3>4, InUsersOf
    <3> QED BY <3>3, <3>4
  <2> QED BY <2>1
<1>11. ASSUME NEW w \in Dog, w # m PROVE UsersOf(w)' = UsersOf(w)
  <2>1. w # NoDog
    BY Entries
  <2>2. ASSUME NEW x PROVE x \in UsersOf(w)' <=> x \in UsersOf(w)
    BY <1>m, <1>1, <1>4, <1>8, <1>11, <2>1, InUsersOf
  <2> QED BY <2>2
<1>12. ASSUME NEW w \in Dog PROVE OwnMove(w)
  <2>1. m \in Dog \ StaticDog /\ UNCHANGED <<called, parm>>
    BY <1>1, <1>2
  <2>2. w # m => UsersOf(w)' = UsersOf(w)
    BY <1>11
  <2> QED BY <1>3, <1>6, <1>10, <2>1, <2>2, DeleteMoves
<1>13. called' \in Dog \cup {NoDog, "no"} /\ CallInv'
  BY <1>1, <1>6, <1>7 DEF CallInv
<1> QED BY <1>0, <1>3, <1>4, <1>5, <1>6, <1>12, <1>13, Conclude

\* A timer of a task that is not at the end of timer_release has its watchdog.
LEMMA MineUses ==
    ASSUME TimerInv, NEW o \in Task, NEW t \in Mine(o), pc[o] # "free" \/ tstate[o] # "live"
    PROVE  /\ t \in alloctimers /\ t \notin Released /\ owner[t] = o
           /\ t \in Timer /\ wdog[t] \in Dog /\ crefs[t] = 1 /\ wdog[t] # NoDog
           /\ UsersOf(wdog[t]) = {t} /\ wdog[t] \in InUse /\ wdog[t] \notin StaticDog
           /\ \A u \in Task : pdog[u] # wdog[t] /\ waitdog[u] # wdog[t]
<1>1. t \in alloctimers /\ owner[t] = o
  BY DEF Mine
<1>2. t \notin Released
  BY <1>1, OnlyOwnerReleases
<1>3. /\ t \in Timer /\ wdog[t] \in Dog /\ crefs[t] = 1 /\ wdog[t] # NoDog
      /\ UsersOf(wdog[t]) = {t} /\ wdog[t] \in InUse /\ wdog[t] \notin StaticDog
  BY <1>1, <1>2, TimerUses
<1>4. ASSUME NEW u \in Task PROVE pdog[u] # wdog[t] /\ waitdog[u] # wdog[t]
  <2>1. u # t
    BY <1>3, TimerConstants
  <2> QED BY <1>3, <2>1, TaskUses
<1> QED BY <1>1, <1>2, <1>3, <1>4

LEMMA TimerSettimeStep ==
    ASSUME TimerInv, NEW o \in Task, NEW t \in Timer, NEW d \in 0 .. MaxDelay,
           NEW interval \in 0 .. MaxDelay, TimerSettime(o, t, d, interval)
    PROVE  TimerInv'
<1>0. TypeOK /\ OwnInv /\ PoolOK /\ CallInv /\ TimersInv /\ CallOK(o)
  BY DEF TimerInv, CallInv
<1>1. /\ Preemptible /\ tstate[o] = "live" /\ pc[o] = "run" /\ waitdog[o] = NoDog /\ t \in Mine(o)
      /\ Goto(o, "settime", t, NoDog, d) /\ period' = [period EXCEPT ![t] = interval]
      /\ UNCHANGED <<freedogs, nfree, heapdogs, called, parm, alloctimers, freetimers, owner, wdog, crefs, waitdog, tstate>>
  BY DEF TimerSettime, Runs, Ready
<1>2. ListStep({}, {wdog[t]})
  BY CancelsStep DEF TimerSettime
<1>3. /\ TaskTypes' /\ pc'[o] = "settime" /\ ptimer'[o] = t /\ pdog'[o] = NoDog
      /\ \A u \in Task : u # o => pc'[u] = pc[u] /\ ptimer'[u] = ptimer[u] /\ pdog'[u] = pdog[u]
  BY <1>1, GotoSame
<1>4. TimerTypes' /\ TimersInv'
  BY <1>0, <1>1 DEF TypeOK, TimerTypes, TimersInv
<1>5. ListOK(active', lag') /\ Waits(active', lag') /\ called = "no" /\ ToSet(active') \subseteq ToSet(active)
  BY <1>1, <1>2, Undisturbed DEF ListStep
<1>6. \A u \in Task : Mine(u)' = Mine(u)
  BY <1>1 DEF Mine
<1>7. ASSUME NEW u \in Task PROVE CallOK(u)'
  <2>1. CallOK(u) /\ NoDog \notin ToSet(active)
    BY <1>0, Entries DEF CallInv
  <2>2. CASE u = o
    BY <1>1, <1>3, <1>5, <1>6, <2>1, <2>2 DEF CallOK
  <2>3. CASE u # o
    BY <1>1, <1>3, <1>5, <1>6, <2>1, <2>3, OtherCalls DEF CallOK
  <2> QED BY <2>2, <2>3
<1>8. pdog[o] = NoDog
  BY <1>0, <1>1 DEF CallOK
<1>9. PoolOK' /\ InUse' = InUse /\ nfree' \in Nat
  BY <1>0, <1>1 DEF PoolOK, InUse, TypeOK
<1>10. \A x : x \in Released' <=> x \in Released
  BY <1>1, <1>3, InReleased
<1>11. ASSUME NEW w \in Dog PROVE OwnMove(w)
  <2>1. ASSUME NEW x PROVE x \in UsersOf(w)' <=> x \in UsersOf(w)
    BY <1>1, <1>3, <1>8, <1>10, InUsersOf
  <2>2. UsersOf(w)' = UsersOf(w)
    BY <2>1
  <2> QED BY <1>1, <1>5, <1>9, <2>2 DEF OwnMove
<1>12. called' \in Dog \cup {NoDog, "no"} /\ CallInv'
  BY <1>1, <1>5, <1>7 DEF CallInv
<1> QED BY <1>0, <1>3, <1>4, <1>5, <1>9, <1>11, <1>12, Conclude

LEMMA TimerArmStep ==
    ASSUME TimerInv, NEW o \in Task, TimerArm(o)
    PROVE  TimerInv'
<1> DEFINE t == ptimer[o]
           m == wdog[t]
           delay == IF pdelay[o] <= 0 THEN period[t] ELSE pdelay[o]
<1>0. TypeOK /\ OwnInv /\ PoolOK /\ CallInv /\ TimersInv /\ CallOK(o)
  BY DEF TimerInv, CallInv
<1>1. /\ Preemptible /\ tstate[o] = "live" /\ pc[o] = "settime" /\ Return(o)
      /\ UNCHANGED <<freedogs, nfree, heapdogs, called, alloctimers, freetimers, owner, wdog, crefs, period, waitdog, tstate>>
      /\ IF delay > 0 THEN WdStart(m, delay) /\ parm' = [parm EXCEPT ![m] = t]
                      ELSE UNCHANGED <<active, lag, parm>>
  BY DEF TimerArm, Ready, timerVars
<1>2. t \in Mine(o)
  BY <1>0, <1>1 DEF CallOK
<1>3. /\ t \in Timer /\ m \in Dog /\ UsersOf(m) = {t} /\ m \notin StaticDog
      /\ \A u \in Task : pdog[u] # m
  BY <1>1, <1>2, MineUses
<1>4. delay \in Nat
  BY <1>0, <1>3, WatchdogConstants DEF TypeOK
<1> HIDE DEF t, m, delay
<1>5. \/ ListStep({m}, {}) /\ parm' = [parm EXCEPT ![m] = t]
      \/ ListStep({}, {}) /\ parm' = parm
  BY <1>1, <1>3, <1>4, StartStep, SameList
<1>6. /\ TaskTypes' /\ pc'[o] = "run" /\ ptimer'[o] = NoTimer /\ pdog'[o] = NoDog
      /\ \A u \in Task : u # o => pc'[u] = pc[u] /\ ptimer'[u] = ptimer[u] /\ pdog'[u] = pdog[u]
  BY <1>1, ReturnSame
<1>7. TimerTypes' /\ TimersInv'
  BY <1>0, <1>1, <1>3, <1>5 DEF TypeOK, TimerTypes, TimersInv
<1>8. /\ ListOK(active', lag') /\ Waits(active', lag') /\ called = "no"
      /\ \A w \in ToSet(active') : w \in ToSet(active) \/ w = m
  BY <1>1, <1>5, Undisturbed DEF ListStep
<1>9. \A u \in Task : Mine(u)' = Mine(u)
  BY <1>1 DEF Mine
<1>10. ASSUME NEW u \in Task PROVE CallOK(u)'
  <2>1. CallOK(u) /\ NoDog \notin ToSet(active) /\ m # NoDog
    BY <1>0, <1>3, Entries DEF CallInv
  <2>2. pdog[u] \notin ToSet(active') /\ NoDog \notin ToSet(active')
    BY <1>3, <1>8, <2>1 DEF CallOK
  <2>3. CASE u = o
    BY <1>1, <1>6, <1>8, <2>1, <2>2, <2>3 DEF CallOK
  <2>4. CASE u # o
    BY <1>1, <1>6, <1>9, <2>2, <2>4, OtherCalls
  <2> QED BY <2>3, <2>4
<1>11. pdog[o] = NoDog
  BY <1>0, <1>1 DEF CallOK
<1>12. PoolOK' /\ InUse' = InUse /\ nfree' \in Nat
  BY <1>0, <1>1 DEF PoolOK, InUse, TypeOK
<1>13. \A x : x \in Released' <=> x \in Released
  BY <1>1, <1>6, InReleased
<1>14. ASSUME NEW w \in Dog PROVE OwnMove(w)
  <2>1. ASSUME NEW x PROVE x \in UsersOf(w)' <=> x \in UsersOf(w)
    BY <1>1, <1>6, <1>11, <1>13, InUsersOf
  <2>2. UsersOf(w)' = UsersOf(w)
    BY <2>1
  <2>3. parm \in [Dog -> Timer \cup Task \cup {NoTimer}] /\ w # "no"
    BY <1>0, Entries DEF TypeOK
  <2>4. CASE ListStep({m}, {}) /\ parm' = [parm EXCEPT ![m] = t]
    <3>1. parm'[m] = t /\ (w # m => parm'[w] = parm[w])
      BY <1>3, <2>3, <2>4
    <3> QED BY <1>1, <1>3, <1>8, <1>12, <2>2, <2>3, <3>1 DEF OwnMove
  <2>5. CASE ListStep({}, {}) /\ parm' = parm
    BY <1>1, <1>12, <2>2, <2>3, <2>5 DEF OwnMove, ListStep
  <2> QED BY <1>5, <2>4, <2>5
<1>15. called' \in Dog \cup {NoDog, "no"} /\ CallInv'
  BY <1>1, <1>8, <1>10 DEF CallInv
<1> QED BY <1>0, <1>6, <1>7, <1>8, <1>12, <1>14, <1>15, Conclude

LEMMA TimerDeleteStep ==
    ASSUME TimerInv, NEW o \in Task, NEW t \in Timer, TimerDelete(o, t)
    PROVE  TimerInv'
<1>0. TypeOK /\ OwnInv /\ PoolOK /\ CallInv /\ TimersInv /\ CallOK(o)
  BY DEF TimerInv, CallInv
<1>1. /\ Preemptible /\ tstate[o] = "live" /\ pc[o] = "run" /\ waitdog[o] = NoDog /\ t \in Mine(o)
      /\ UNCHANGED <<active, lag, freedogs, nfree, heapdogs, called, parm, alloctimers, freetimers, owner, wdog, period, waitdog, tstate>>
  BY DEF TimerDelete, Runs, Ready, dogVars
<1>2. crefs[t] = 1
  BY <1>1, MineUses
<1>3. Goto(o, "release", t, NoDog, 0) /\ crefs' = crefs
  BY <1>2 DEF TimerDelete
<1>4. /\ TaskTypes' /\ pc'[o] = "release" /\ ptimer'[o] = t /\ pdog'[o] = NoDog
      /\ \A u \in Task : u # o => pc'[u] = pc[u] /\ ptimer'[u] = ptimer[u] /\ pdog'[u] = pdog[u]
  <2>1. 0 \in 0 .. MaxDelay
    BY Entries
  <2> QED BY <1>1, <1>3, <2>1, GotoSame
<1>5. TimerTypes' /\ TimersInv'
  BY <1>0, <1>1, <1>3 DEF TypeOK, TimerTypes, TimersInv
<1>6. ListOK(active', lag') /\ Waits(active', lag') /\ called = "no"
  BY <1>1, Undisturbed, SameList DEF ListStep
<1>7. \A u \in Task : Mine(u)' = Mine(u)
  BY <1>1 DEF Mine
<1>8. ASSUME NEW u \in Task PROVE CallOK(u)'
  <2>1. CallOK(u) /\ NoDog \notin ToSet(active)
    BY <1>0, Entries DEF CallInv
  <2>2. CASE u = o
    BY <1>1, <1>4, <1>6, <1>7, <2>1, <2>2 DEF CallOK
  <2>3. CASE u # o
    BY <1>1, <1>4, <1>6, <1>7, <2>1, <2>3, OtherCalls DEF CallOK
  <2> QED BY <2>2, <2>3
<1>9. pdog[o] = NoDog
  BY <1>0, <1>1 DEF CallOK
<1>10. PoolOK' /\ InUse' = InUse /\ nfree' \in Nat
  BY <1>0, <1>1 DEF PoolOK, InUse, TypeOK
<1>11. \A x : x \in Released' <=> x \in Released
  BY <1>1, <1>4, InReleased
<1>12. ASSUME NEW w \in Dog PROVE OwnMove(w)
  <2>1. ASSUME NEW x PROVE x \in UsersOf(w)' <=> x \in UsersOf(w)
    BY <1>1, <1>4, <1>9, <1>11, InUsersOf
  <2>2. UsersOf(w)' = UsersOf(w)
    BY <2>1
  <2> QED BY <1>1, <1>10, <2>2 DEF OwnMove
<1>13. called' \in Dog \cup {NoDog, "no"} /\ CallInv'
  BY <1>1, <1>6, <1>8 DEF CallInv
<1> QED BY <1>0, <1>4, <1>5, <1>6, <1>10, <1>12, <1>13, Conclude

LEMMA TimerReleaseStep ==
    ASSUME TimerInv, NEW o \in Task, TimerRelease(o)
    PROVE  TimerInv'
<1>t. PICK t : t = ptimer[o]
  OBVIOUS
<1>m. PICK m : m = wdog[t]
  OBVIOUS
<1>0. TypeOK /\ OwnInv /\ PoolOK /\ CallInv /\ TimersInv /\ CallOK(o)
  BY DEF TimerInv, CallInv
<1>1. /\ Preemptible /\ tstate[o] = "live" /\ pc[o] = "release" /\ Goto(o, "free", t, NoDog, 0) /\ WdDelete(m)
      /\ UNCHANGED <<called, parm, alloctimers, freetimers, owner, wdog, crefs, period, waitdog, tstate>>
  BY <1>t, <1>m DEF TimerRelease, Ready, timerVars
<1>2. /\ t \in Mine(o) /\ t \in alloctimers /\ t \notin Released /\ owner[t] = o /\ t \in Timer
      /\ m \in Dog \ StaticDog /\ m \in InUse /\ UsersOf(m) = {t}
  <2>1. t \in Mine(o)
    BY <1>t, <1>0, <1>1 DEF CallOK
  <2> QED BY <1>m, <1>1, <2>1, MineUses
<1>3. ListStep({}, {m}) /\ PoolOK' /\ InUse' = InUse \ {m} /\ nfree' \in Nat
  BY <1>1, <1>2, DeleteStep
<1>4. /\ TaskTypes' /\ pc'[o] = "free" /\ ptimer'[o] = t /\ pdog'[o] = NoDog
      /\ \A u \in Task : u # o => pc'[u] = pc[u] /\ ptimer'[u] = ptimer[u] /\ pdog'[u] = pdog[u]
  <2>1. 0 \in 0 .. MaxDelay
    BY Entries
  <2> QED BY <1>1, <1>2, <2>1, GotoSame
<1>5. TimerTypes' /\ TimersInv'
  BY <1>0, <1>1 DEF TypeOK, TimerTypes, TimersInv
<1>6. ListOK(active', lag') /\ Waits(active', lag') /\ called = "no" /\ ToSet(active') \subseteq ToSet(active)
  BY <1>1, <1>3, Undisturbed DEF ListStep
<1>7. \A u \in Task : Mine(u)' = Mine(u)
  BY <1>1 DEF Mine
<1>8. ASSUME NEW u \in Task PROVE CallOK(u)'
  <2>1. CallOK(u) /\ NoDog \notin ToSet(active)
    BY <1>0, Entries DEF CallInv
  <2>2. CASE u = o
    BY <1>1, <1>2, <1>4, <1>6, <1>7, <2>1, <2>2 DEF CallOK
  <2>3. CASE u # o
    BY <1>1, <1>4, <1>6, <1>7, <2>1, <2>3, OtherCalls DEF CallOK
  <2> QED BY <2>2, <2>3
<1>9. ASSUME NEW x PROVE x \in Released' <=> x \in Released \/ x = t
  BY <1>1, <1>4, InReleased
<1>10. pdog[o] = NoDog
  BY <1>0, <1>1 DEF CallOK
<1>11. UsersOf(m)' = {}
  <2>1. ASSUME NEW x PROVE x \notin UsersOf(m)'
    <3>1. (x \in UsersOf(m) <=> x = t) /\ t \notin Task /\ m # NoDog
      BY <1>2, TimerConstants, Entries
    <3>2. CASE x = t
      BY <1>9, <3>1, <3>2, InUsersOf
    <3>3. CASE x # t
      BY <1>1, <1>4, <1>9, <1>10, <3>1, <3>3, InUsersOf
    <3> QED BY <3>2, <3>3
  <2> QED BY <2>1
<1>12. ASSUME NEW w \in Dog, w # m PROVE UsersOf(w)' = UsersOf(w)
  <2>1. ASSUME NEW x PROVE x \in UsersOf(w)' <=> x \in UsersOf(w)
    BY <1>m, <1>1, <1>4, <1>9, <1>10, <1>12, InUsersOf
  <2> QED BY <2>1
<1>13. ASSUME NEW w \in Dog PROVE OwnMove(w)
  <2>1. UNCHANGED <<called, parm>> /\ (w # m => UsersOf(w)' = UsersOf(w))
    BY <1>1, <1>12
  <2> QED BY <1>2, <1>3, <1>6, <1>11, <2>1, DeleteMoves
<1>14. called' \in Dog \cup {NoDog, "no"} /\ CallInv'
  BY <1>1, <1>6, <1>8 DEF CallInv
<1> QED BY <1>0, <1>3, <1>4, <1>5, <1>6, <1>13, <1>14, Conclude

\* The end of timer_release and of timer_delete: what Freed leaves of a timer.
LEMMA FreedStep ==
    ASSUME TimerInv, NEW t \in alloctimers, Freed(t), UNCHANGED parm
    PROVE  /\ TimerTypes' /\ TimersInv' /\ t \in Timer
           /\ \A x : x \in alloctimers' <=> x \in alloctimers /\ x # t
           /\ \A x \in Timer : x # t => wdog'[x] = wdog[x] /\ owner'[x] = owner[x]
<1>1. TimerTypes /\ TimersInv /\ 0 \in 0 .. MaxDelay
  BY Types, Entries DEF TimerInv
<1>2. t \in Timer
  BY <1>1 DEF TimerTypes
<1>3. TimerTypes'
  BY <1>1, <1>2 DEF TimerTypes, Freed
<1>4. \A x \in Timer : x # t => wdog'[x] = wdog[x] /\ owner'[x] = owner[x] /\ crefs'[x] = crefs[x]
  BY <1>1, <1>2 DEF TimerTypes, Freed
<1>5. alloctimers' = alloctimers \ {t} /\ alloctimers \subseteq Timer
  BY <1>1 DEF Freed, TimerTypes
<1>6. freetimers' = TimerPool \ alloctimers'
  BY <1>1, <1>2, <1>5 DEF TimersInv, Freed
<1>7. \A x \in alloctimers' : owner'[x] \in Task /\ wdog'[x] \in Dog /\ crefs'[x] = 1
  BY <1>1, <1>4, <1>5 DEF TimersInv
<1> QED BY <1>2, <1>3, <1>4, <1>5, <1>6, <1>7 DEF TimersInv

LEMMA TimerFreeStep ==
    ASSUME TimerInv, NEW o \in Task, TimerFree(o)
    PROVE  TimerInv'
<1>t. PICK t : t = ptimer[o]
  OBVIOUS
<1>0. TypeOK /\ OwnInv /\ PoolOK /\ CallInv /\ TimersInv /\ CallOK(o)
  BY DEF TimerInv, CallInv
<1>1. /\ Preemptible /\ tstate[o] = "live" /\ pc[o] = "free" /\ Freed(t) /\ Return(o)
      /\ UNCHANGED <<active, lag, freedogs, nfree, heapdogs, called, parm, waitdog, tstate>>
  BY <1>t DEF TimerFree, Ready, dogVars
<1>2. t \in alloctimers /\ owner[t] = o /\ t \in Released
  <2>1. t \in Mine(o)
    BY <1>t, <1>0, <1>1 DEF CallOK
  <2> QED BY <1>t, <1>1, <2>1, InReleased DEF Mine
<1>3. /\ TimerTypes' /\ TimersInv' /\ t \in Timer
      /\ \A x : x \in alloctimers' <=> x \in alloctimers /\ x # t
      /\ \A x \in Timer : x # t => wdog'[x] = wdog[x] /\ owner'[x] = owner[x]
  BY <1>1, <1>2, FreedStep
<1>4. /\ TaskTypes' /\ pc'[o] = "run" /\ ptimer'[o] = NoTimer /\ pdog'[o] = NoDog
      /\ \A u \in Task : u # o => pc'[u] = pc[u] /\ ptimer'[u] = ptimer[u] /\ pdog'[u] = pdog[u]
  BY <1>1, ReturnSame
<1>5. ListOK(active', lag') /\ Waits(active', lag') /\ called = "no"
  BY <1>1, Undisturbed, SameList DEF ListStep
<1>6. ASSUME NEW u \in Task, u # o, ptimer[u] \in Mine(u) PROVE ptimer[u] \in Mine(u)' /\ ptimer[u] # t
  <2>1. ptimer[u] \in alloctimers /\ ptimer[u] \in Timer /\ owner[ptimer[u]] = u /\ ptimer[u] # t
    BY <1>0, <1>2, <1>6 DEF Mine, TypeOK
  <2> QED BY <1>3, <2>1 DEF Mine
<1>7. ASSUME NEW u \in Task PROVE CallOK(u)'
  <2>1. CallOK(u) /\ NoDog \notin ToSet(active)
    BY <1>0, Entries DEF CallInv
  <2>2. CASE u = o
    BY <1>1, <1>4, <1>5, <2>1, <2>2 DEF CallOK
  <2>3. CASE u # o
    BY <1>1, <1>4, <1>6, <2>1, <2>3, OtherCalls DEF CallOK
  <2> QED BY <2>2, <2>3
<1>8. ASSUME NEW x PROVE x \in Released' <=> x \in Released /\ x # t
  <2>1. ASSUME NEW u \in Task, u # o, pc[u] = "free" PROVE ptimer[u] # t
    <3>1. ptimer[u] \in Mine(u)
      BY <1>0, <2>1 DEF CallInv, CallOK
    <3> QED BY <1>6, <2>1, <3>1
  <2> QED BY <1>t, <1>1, <1>4, <2>1, InReleased
<1>9. pdog[o] = NoDog
  BY <1>0, <1>1 DEF CallOK
<1>10. PoolOK' /\ InUse' = InUse /\ nfree' \in Nat
  BY <1>0, <1>1 DEF PoolOK, InUse, TypeOK
<1>11. ASSUME NEW w \in Dog PROVE OwnMove(w)
  <2>1. ASSUME NEW x PROVE x \in UsersOf(w)' <=> x \in UsersOf(w)
    <3>1. alloctimers \subseteq Timer
      BY <1>0 DEF TypeOK
    <3> QED BY <1>1, <1>2, <1>3, <1>4, <1>8, <1>9, <3>1, InUsersOf
  <2>2. UsersOf(w)' = UsersOf(w)
    BY <2>1
  <2> QED BY <1>1, <1>10, <2>2 DEF OwnMove
<1>12. called' \in Dog \cup {NoDog, "no"} /\ CallInv'
  BY <1>1, <1>5, <1>7 DEF CallInv
<1> QED BY <1>0, <1>3, <1>4, <1>5, <1>10, <1>11, <1>12, Conclude

-----------------------------------------------------------------------------
(***************************************************************************)
(* Timed waits, and the deletion of tasks.                                 *)
(***************************************************************************)
LEMMA TimedWaitStep ==
    ASSUME TimerInv, NEW o \in Task, NEW d \in 0 .. MaxDelay, TimedWait(o, d)
    PROVE  TimerInv'
<1>n. PICK n : n = NewDog
  OBVIOUS
<1>0. TypeOK /\ OwnInv /\ PoolOK /\ CallInv /\ TimersInv /\ CallOK(o) /\ d \in Nat
  BY Entries DEF TimerInv, CallInv
<1>1. /\ Preemptible /\ tstate[o] = "live" /\ pc[o] = "run" /\ waitdog[o] = NoDog /\ WdCreate /\ WdStart(n, d)
      /\ parm' = [parm EXCEPT ![n] = o] /\ waitdog' = [waitdog EXCEPT ![o] = n]
      /\ UNCHANGED <<called, alloctimers, freetimers, owner, wdog, crefs, period, tstate, pc, ptimer, pdog, pdelay>>
  BY <1>n DEF TimedWait, Runs, Ready, timerVars, callVars
<1>2. /\ PoolOK' /\ n \in Dog \ StaticDog /\ n \notin InUse /\ InUse' = InUse \cup {n}
      /\ nfree' \in Nat
  BY <1>n, <1>0, <1>1, CreateStep
<1>3. UsersOf(n) = {} /\ n \notin ToSet(active) /\ called # n /\ n # NoDog
  BY <1>2, FreshDog, Entries
<1>4. ListStep({n}, {})
  BY <1>0, <1>1, <1>2, StartStep
<1>5. /\ ListOK(active', lag') /\ Waits(active', lag') /\ called = "no"
      /\ ToSet(active') = ToSet(active) \cup {n}
  BY <1>1, <1>4, Undisturbed DEF ListStep
<1>6. TaskTypes' /\ waitdog'[o] = n /\ \A u \in Task : u # o => waitdog'[u] = waitdog[u]
  <2>1. waitdog \in [Task -> Dog \cup {NoDog}] /\ TaskTypes
    BY <1>0, Types DEF TypeOK
  <2> QED BY <1>1, <1>2, <2>1 DEF TaskTypes
<1>7. TimerTypes' /\ TimersInv'
  BY <1>0, <1>1, <1>2 DEF TypeOK, TimerTypes, TimersInv
<1>8. ASSUME NEW u \in Task PROVE CallOK(u)'
  <2>1. CallOK(u) /\ NoDog \notin ToSet(active) /\ Mine(u)' = Mine(u)
    BY <1>0, <1>1, Entries DEF CallInv, Mine
  <2>2. pdog[u] \notin ToSet(active')
    <3>1. u \notin UsersOf(n)
      BY <1>3
    <3>2. pdog[u] # n
      BY <3>1, InUsersOf
    <3> QED BY <1>5, <2>1, <3>2 DEF CallOK
  <2>3. CASE u = o
    BY <1>1, <1>5, <1>6, <2>1, <2>2, <2>3 DEF CallOK
  <2>4. CASE u # o
    BY <1>1, <1>6, <2>1, <2>2, <2>4, OtherCalls
  <2> QED BY <2>3, <2>4
<1>9. \A x : x \in Released' <=> x \in Released
  BY <1>1, InReleased
<1>10. ASSUME NEW w \in Dog PROVE OwnMove(w)
  <2>0. parm \in [Dog -> Timer \cup Task \cup {NoTimer}] /\ w # "no" /\ w # NoDog
    BY <1>0, Entries DEF TypeOK
  <2>1. parm'[n] = o /\ (w # n => parm'[w] = parm[w])
    BY <1>1, <1>2, <2>0
  <2>2. CASE w = n
    <3>1. ASSUME NEW x PROVE x \in UsersOf(w)' <=> x = o
      <4>1. x \notin UsersOf(n)
        BY <1>3
      <4> QED BY <1>1, <1>6, <1>9, <2>2, <4>1, InUsersOf
    <3>2. UsersOf(w)' = {o}
      BY <3>1
    <3> QED BY <1>2, <2>1, <2>2, <3>2 DEF OwnMove
  <2>3. CASE w # n
    <3>1. ASSUME NEW x PROVE x \in UsersOf(w)' <=> x \in UsersOf(w)
      BY <1>1, <1>6, <1>9, <2>0, <2>3, InUsersOf
    <3>2. UsersOf(w)' = UsersOf(w)
      BY <3>1
    <3> QED BY <1>1, <1>2, <1>5, <2>1, <2>3, <3>2 DEF OwnMove
  <2> QED BY <2>2, <2>3
<1>11. called' \in Dog \cup {NoDog, "no"} /\ CallInv'
  BY <1>1, <1>5, <1>8 DEF CallInv
<1> QED BY <1>0, <1>2, <1>5, <1>6, <1>7, <1>10, <1>11, Conclude

\* The end of a timed wait, by the task itself or by wd_recover.
LEMMA WaitEnds ==
    ASSUME TimerInv, NEW o \in Task, waitdog[o] # NoDog, Preemptible, tstate[o] = "live",
           WdDelete(waitdog[o]), waitdog' = [waitdog EXCEPT ![o] = NoDog],
           UNCHANGED <<called, parm, timerVars, callVars>>,
           tstate' \in [Task -> {"live", "dying", "leaving", "dead"}],
           tstate'[o] \in {"live", "dying"}, \A u \in Task : u # o => tstate'[u] = tstate[u]
    PROVE  TimerInv'
<1>m. PICK m : m = waitdog[o]
  OBVIOUS
<1>0. TypeOK /\ OwnInv /\ PoolOK /\ CallInv /\ TimersInv /\ CallOK(o)
  BY DEF TimerInv, CallInv
<1>1. UNCHANGED <<alloctimers, freetimers, owner, wdog, crefs, period, pc, ptimer, pdog, pdelay>>
  BY DEF timerVars, callVars
<1>2. m \in Dog \ StaticDog /\ m # NoDog /\ UsersOf(m) = {o} /\ m \in InUse
  <2>1. m \in Dog
    BY <1>m, <1>0 DEF TypeOK
  <2> QED BY <1>m, <2>1, TaskUses
<1>3. ListStep({}, {m}) /\ PoolOK' /\ InUse' = InUse \ {m} /\ nfree' \in Nat
  BY <1>m, <1>2, DeleteStep
<1>4. ListOK(active', lag') /\ Waits(active', lag') /\ called = "no" /\ ToSet(active') \subseteq ToSet(active)
  BY <1>3, Undisturbed DEF ListStep
<1>5. TaskTypes' /\ waitdog'[o] = NoDog /\ \A u \in Task : u # o => waitdog'[u] = waitdog[u]
  <2>1. waitdog \in [Task -> Dog \cup {NoDog}] /\ TaskTypes
    BY <1>0, Types DEF TypeOK
  <2> QED BY <1>1, <2>1 DEF TaskTypes
<1>6. TimerTypes' /\ TimersInv'
  BY <1>0, <1>1 DEF TypeOK, TimerTypes, TimersInv
<1>7. pc[o] = "run" /\ pdog[o] = NoDog
  BY <1>0 DEF CallOK
<1>8. ASSUME NEW u \in Task PROVE CallOK(u)'
  <2>1. CallOK(u) /\ NoDog \notin ToSet(active) /\ Mine(u)' = Mine(u)
    BY <1>0, <1>1, Entries DEF CallInv, Mine
  <2>2. CASE u = o
    BY <1>1, <1>4, <1>5, <1>7, <2>1, <2>2 DEF CallOK
  <2>3. CASE u # o
    BY <1>1, <1>4, <1>5, <2>1, <2>3, OtherCalls DEF CallOK
  <2> QED BY <2>2, <2>3
<1>9. \A x : x \in Released' <=> x \in Released
  BY <1>1, InReleased
<1>10. UsersOf(m)' = {}
  <2>1. ASSUME NEW x PROVE x \notin UsersOf(m)'
    <3>1. (x \in UsersOf(m) <=> x = o) /\ o \notin alloctimers
      BY <1>0, <1>2, TimerConstants DEF TypeOK
    <3>2. CASE x = o
      BY <1>1, <1>2, <1>5, <1>7, <3>1, <3>2, InUsersOf
    <3>3. CASE x # o
      BY <1>1, <1>5, <1>9, <3>1, <3>3, InUsersOf
    <3> QED BY <3>2, <3>3
  <2> QED BY <2>1
<1>11. ASSUME NEW w \in Dog, w # m PROVE UsersOf(w)' = UsersOf(w)
  <2>1. w # NoDog
    BY Entries
  <2>2. ASSUME NEW x PROVE x \in UsersOf(w)' <=> x \in UsersOf(w)
    BY <1>m, <1>1, <1>5, <1>9, <1>11, <2>1, InUsersOf
  <2> QED BY <2>2
<1>12. ASSUME NEW w \in Dog PROVE OwnMove(w)
  <2>1. UNCHANGED <<called, parm>> /\ (w # m => UsersOf(w)' = UsersOf(w))
    BY <1>11
  <2> QED BY <1>2, <1>3, <1>4, <1>10, <2>1, DeleteMoves
<1>13. called' \in Dog \cup {NoDog, "no"} /\ CallInv'
  BY <1>4, <1>8 DEF CallInv
<1> QED BY <1>0, <1>3, <1>4, <1>5, <1>6, <1>12, <1>13, Conclude

LEMMA TimedWaitEndStep ==
    ASSUME TimerInv, NEW o \in Task, TimedWaitEnd(o)
    PROVE  TimerInv'
<1>1. tstate \in [Task -> {"live", "dying", "leaving", "dead"}]
  BY DEF TimerInv, TypeOK
<1>2. /\ waitdog[o] # NoDog /\ Preemptible /\ tstate[o] = "live" /\ WdDelete(waitdog[o])
      /\ waitdog' = [waitdog EXCEPT ![o] = NoDog]
      /\ UNCHANGED <<called, parm, timerVars, callVars>> /\ tstate' = tstate
  BY DEF TimedWaitEnd, Ready
<1> QED BY <1>1, <1>2, WaitEnds

\* A step that changes what one task does, and nothing it has.
LEMMA TaskMoves ==
    ASSUME TimerInv, NEW o \in Task,
           UNCHANGED <<dogVars, parm, timerVars, waitdog>>, TaskTypes', CallOK(o)',
           pc[o] # "free", pc'[o] # "free", pdog'[o] = pdog[o],
           \A u \in Task : u # o => /\ pc'[u] = pc[u] /\ ptimer'[u] = ptimer[u]
                                    /\ pdog'[u] = pdog[u] /\ tstate'[u] = tstate[u]
    PROVE  TimerInv'
<1>0. TypeOK /\ OwnInv /\ PoolOK /\ CallInv /\ TimersInv
  BY DEF TimerInv
<1>1. UNCHANGED <<active, lag, freedogs, nfree, heapdogs, called, alloctimers, freetimers, owner, wdog, crefs, period>>
  BY DEF dogVars, timerVars
<1>2. called = "no" => Waits(active, lag)
  BY DEF TimerInv
<1>3. ListOK(active', lag') /\ (called' = "no" => Waits(active', lag')) /\ called' \in Dog \cup {NoDog, "no"}
  BY <1>0, <1>1, <1>2, SameList DEF ListStep, TypeOK
<1>4. TimerTypes' /\ TimersInv' /\ PoolOK' /\ InUse' = InUse /\ nfree' \in Nat
  BY <1>0, <1>1 DEF TypeOK, TimerTypes, TimersInv, PoolOK, InUse
<1>5. ASSUME NEW u \in Task, u # o PROVE CallOK(u)'
  <2>1. CallOK(u) /\ Mine(u)' = Mine(u)
    BY <1>0, <1>1 DEF CallInv, Mine
  <2> QED BY <1>1, <1>5, <2>1, OtherCalls DEF CallOK
<1>6. \A x : x \in Released' <=> x \in Released
  BY InReleased
<1>7. ASSUME NEW w \in Dog PROVE OwnMove(w)
  <2>1. ASSUME NEW x PROVE x \in UsersOf(w)' <=> x \in UsersOf(w)
    BY <1>1, <1>6, InUsersOf
  <2>2. UsersOf(w)' = UsersOf(w)
    BY <2>1
  <2> QED BY <1>1, <1>4, <2>2 DEF OwnMove
<1>8. CallInv'
  BY <1>5 DEF CallInv
<1> QED BY <1>0, <1>3, <1>4, <1>7, <1>8, Conclude

LEMMA WdRecoverStep ==
    ASSUME TimerInv, NEW o \in Task, WdRecover(o)
    PROVE  TimerInv'
<1>0. TypeOK /\ CallOK(o)
  BY DEF TimerInv, CallInv
<1>1. /\ Preemptible /\ tstate[o] = "live" /\ pc[o] \in {"run", "settime"}
      /\ tstate' = [tstate EXCEPT ![o] = "dying"] /\ waitdog' = [waitdog EXCEPT ![o] = NoDog]
      /\ UNCHANGED <<called, parm, timerVars, callVars>>
  BY DEF WdRecover, Ready
<1>2. /\ tstate' \in [Task -> {"live", "dying", "leaving", "dead"}] /\ tstate'[o] = "dying"
      /\ \A u \in Task : u # o => tstate'[u] = tstate[u]
  BY <1>0, <1>1 DEF TypeOK
<1>3. CASE waitdog[o] # NoDog
  <2>1. WdDelete(waitdog[o])
    BY <1>3 DEF WdRecover
  <2> QED BY <1>1, <1>2, <1>3, <2>1, WaitEnds
<1>4. CASE waitdog[o] = NoDog
  <2>1. UNCHANGED <<active, lag, freedogs, nfree, heapdogs>>
    BY <1>4 DEF WdRecover
  <2>2. UNCHANGED <<pc, ptimer, pdog, pdelay, dogVars>>
    BY <1>1, <2>1 DEF callVars, dogVars
  <2>3. waitdog' = waitdog
    BY <1>0, <1>1, <1>4 DEF TypeOK
  <2>4. TaskTypes'
    BY <1>0, <1>2, <2>2, <2>3 DEF TypeOK, TaskTypes
  <2>5. CallOK(o)'
    BY <1>0, <1>1, <1>2, <1>4, <2>1, <2>2, <2>3 DEF CallOK
  <2>6. UNCHANGED <<dogVars, parm, timerVars, waitdog>> /\ pc[o] # "free" /\ pc'[o] # "free"
    BY <1>1, <2>2, <2>3
  <2>7. \A u \in Task : u # o => /\ pc'[u] = pc[u] /\ ptimer'[u] = ptimer[u]
                                 /\ pdog'[u] = pdog[u] /\ tstate'[u] = tstate[u]
    BY <1>2, <2>2
  <2> QED BY <1>1, <2>2, <2>4, <2>5, <2>6, <2>7, TaskMoves
<1> QED BY <1>3, <1>4

LEMMA TaskCreateStep ==
    ASSUME TimerInv, NEW o \in Task, TaskCreate(o)
    PROVE  TimerInv'
<1>0. TypeOK /\ CallOK(o)
  BY DEF TimerInv, CallInv
<1>1. /\ Preemptible /\ tstate[o] = "dead" /\ tstate' = [tstate EXCEPT ![o] = "live"]
      /\ UNCHANGED <<dogVars, parm, timerVars, waitdog>>
      /\ UNCHANGED <<active, called, pc, ptimer, pdog, pdelay>>
  BY DEF TaskCreate, callVars, dogVars
<1>2. /\ tstate' \in [Task -> {"live", "dying", "leaving", "dead"}] /\ tstate'[o] = "live"
      /\ \A u \in Task : u # o => tstate'[u] = tstate[u]
  BY <1>0, <1>1 DEF TypeOK
<1>3. TaskTypes'
  BY <1>0, <1>1, <1>2 DEF TypeOK, TaskTypes
<1>4. pc[o] = "run"
  BY <1>0, <1>1 DEF CallOK
<1>5. CallOK(o)'
  BY <1>0, <1>1, <1>2, <1>4 DEF CallOK
<1>6. \A u \in Task : u # o => /\ pc'[u] = pc[u] /\ ptimer'[u] = ptimer[u]
                               /\ pdog'[u] = pdog[u] /\ tstate'[u] = tstate[u]
  BY <1>1, <1>2
<1> QED BY <1>1, <1>3, <1>4, <1>5, <1>6, TaskMoves

LEMMA TimerDeleteallStep ==
    ASSUME TimerInv, NEW o \in Task, TimerDeleteall(o)
    PROVE  TimerInv'
<1>0. TypeOK /\ OwnInv /\ PoolOK /\ CallInv /\ TimersInv /\ CallOK(o)
  BY DEF TimerInv, CallInv
<1>1. /\ tstate[o] \in {"dying", "leaving"} /\ (Preemptible \/ tstate[o] = "leaving")
      /\ UNCHANGED <<parm, waitdog>>
  BY DEF TimerDeleteall
<1>2. called = "no" /\ waitdog[o] = NoDog /\ pdog[o] = NoDog /\ pc[o] \in {"run", "settime"}
  BY <1>0, <1>1, Undisturbed DEF CallOK, TypeOK
<1>3. CASE Mine(o) = {}
  <2>1. /\ tstate' = [tstate EXCEPT ![o] = "dead"] /\ Return(o)
        /\ UNCHANGED <<dogVars, parm, timerVars, waitdog>>
    BY <1>1, <1>3 DEF TimerDeleteall
  <2>2. /\ tstate' \in [Task -> {"live", "dying", "leaving", "dead"}] /\ tstate'[o] = "dead"
        /\ \A u \in Task : u # o => tstate'[u] = tstate[u]
    BY <1>0, <2>1 DEF TypeOK
  <2>3. /\ TaskTypes' /\ pc'[o] = "run" /\ ptimer'[o] = NoTimer /\ pdog'[o] = NoDog
        /\ \A u \in Task : u # o => pc'[u] = pc[u] /\ ptimer'[u] = ptimer[u] /\ pdog'[u] = pdog[u]
    <3>1. waitdog' \in [Task -> Dog \cup {NoDog}] /\ TaskTypes /\ 0 \in 0 .. MaxDelay
      BY <1>0, <2>1, Types, Entries DEF TypeOK
    <3> QED BY <2>1, <2>2, <3>1, GotoStep DEF Return
  <2>4. CallOK(o)'
    <3>1. NoDog \notin ToSet(active') /\ waitdog'[o] = NoDog
      BY <1>2, <2>1, Entries DEF dogVars
    <3> QED BY <2>2, <2>3, <3>1 DEF CallOK
  <2>5. \A u \in Task : u # o => /\ pc'[u] = pc[u] /\ ptimer'[u] = ptimer[u]
                                 /\ pdog'[u] = pdog[u] /\ tstate'[u] = tstate[u]
    BY <2>2, <2>3
  <2> QED BY <1>1, <1>2, <2>1, <2>3, <2>4, <2>5, TaskMoves
<1>4. CASE Mine(o) # {}
  <2>1. PICK t \in Mine(o) : WdDelete(wdog[t]) /\ Freed(t)
    BY <1>4 DEF TimerDeleteall
  <2>2. /\ tstate' = [tstate EXCEPT ![o] = "leaving"]
        /\ UNCHANGED <<called, pc, ptimer, pdog, pdelay>>
    BY <1>4 DEF TimerDeleteall, callVars
  <2>m. PICK m : m = wdog[t]
    OBVIOUS
  <2>3. /\ t \in alloctimers /\ t \notin Released /\ owner[t] = o /\ t \in Timer
        /\ m \in Dog \ StaticDog /\ m \in InUse /\ UsersOf(m) = {t}
    BY <1>1, <2>m, MineUses
  <2>4. ListStep({}, {m}) /\ PoolOK' /\ InUse' = InUse \ {m} /\ nfree' \in Nat
    BY <2>m, <2>1, <2>3, DeleteStep
  <2>5. /\ TimerTypes' /\ TimersInv' /\ t \in Timer
        /\ \A x : x \in alloctimers' <=> x \in alloctimers /\ x # t
        /\ \A x \in Timer : x # t => wdog'[x] = wdog[x] /\ owner'[x] = owner[x]
    BY <1>1, <2>1, <2>3, FreedStep
  <2>6. /\ TaskTypes' /\ tstate'[o] = "leaving" /\ \A u \in Task : u # o => tstate'[u] = tstate[u]
    <3>1. TaskTypes
      BY <1>0, Types
    <3> QED BY <1>1, <2>2, <3>1 DEF TaskTypes
  <2>7. ListOK(active', lag') /\ Waits(active', lag') /\ ToSet(active') \subseteq ToSet(active)
    <3>1. Waits(active, lag)
      BY <1>2 DEF TimerInv
    <3> QED BY <2>4, <3>1 DEF ListStep
  <2>8. ASSUME NEW u \in Task PROVE CallOK(u)'
    <3>1. CallOK(u) /\ NoDog \notin ToSet(active)
      BY <1>0, Entries DEF CallInv
    <3>2. CASE u = o
      BY <1>1, <1>2, <2>2, <2>6, <2>7, <3>1, <3>2 DEF CallOK
    <3>3. CASE u # o
      <4>1. ptimer[u] \in Mine(u) => ptimer[u] \in Mine(u)'
        <5>1. alloctimers \subseteq Timer
          BY <1>0 DEF TypeOK
        <5> QED BY <2>3, <2>5, <3>3, <5>1 DEF Mine
      <4> QED BY <1>1, <2>2, <2>6, <2>7, <3>1, <3>3, <4>1, OtherCalls DEF CallOK
    <3> QED BY <3>2, <3>3
  <2>9. \A x : x \in Released' <=> x \in Released
    BY <2>2, InReleased
  <2>10. UsersOf(m)' = {}
    <3>1. ASSUME NEW x PROVE x \notin UsersOf(m)'
      <4>1. (x \in UsersOf(m) <=> x = t) /\ t \notin Task /\ alloctimers \subseteq Timer
        BY <1>0, <2>3, TimerConstants DEF TypeOK
      <4> QED BY <1>1, <2>2, <2>5, <2>9, <4>1, InUsersOf
    <3> QED BY <3>1
  <2>11. ASSUME NEW w \in Dog, w # m PROVE UsersOf(w)' = UsersOf(w)
    <3>1. ASSUME NEW x PROVE x \in UsersOf(w)' <=> x \in UsersOf(w)
      <4>1. alloctimers \subseteq Timer
        BY <1>0 DEF TypeOK
      <4> QED BY <1>1, <2>m, <2>2, <2>5, <2>9, <2>11, <4>1, InUsersOf
    <3> QED BY <3>1
  <2>12. ASSUME NEW w \in Dog PROVE OwnMove(w)
    <3>1. UNCHANGED <<called, parm>> /\ (w # m => UsersOf(w)' = UsersOf(w))
      BY <1>1, <2>2, <2>11
    <3> QED BY <1>2, <2>3, <2>4, <2>10, <3>1, DeleteMoves
  <2>13. called' \in Dog \cup {NoDog, "no"} /\ CallInv'
    BY <1>2, <2>2, <2>8 DEF CallInv
  <2> QED BY <1>0, <2>4, <2>5, <2>6, <2>7, <2>12, <2>13, Conclude
<1> QED BY <1>3, <1>4

-----------------------------------------------------------------------------
(***************************************************************************)
(* The invariant, and what it shows.                                       *)
(***************************************************************************)
LEMMA TimerInvInit ==
    ASSUME Init
    PROVE  TimerInv
<1>0. /\ IsFiniteSet(Pool) /\ Cardinality(Pool) \in Nat /\ 0 \in 0 .. MaxDelay
      /\ NoDog \notin Dog /\ "no" \notin Dog
  BY WatchdogConstants, FS_CardinalityType
<1>1. ToSet(active) = {} /\ active = <<>> /\ IsInjective(active)
  BY DEF Init, DogInit, ToSet, IsInjective
<1>2. TypeOK
  BY <1>0 DEF TypeOK, Init, DogInit
<1>3. PoolOK /\ InUse = {}
  BY <1>0 DEF PoolOK, Init, DogInit, InUse
<1>4. CallInv /\ TimersInv
  BY <1>1 DEF CallInv, CallOK, TimersInv, Init, DogInit
<1>5. OwnInv
  <2>1. ASSUME NEW w \in Dog, NEW x PROVE x \notin UsersOf(w)
    BY <1>0 DEF UsersOf, Init
  <2> QED BY <1>0, <1>1, <1>3, <2>1 DEF OwnInv, OwnOK, IsActive, Init, DogInit
<1>6. Waits(active, lag)
  BY <1>1 DEF Waits
<1> QED BY <1>1, <1>2, <1>3, <1>4, <1>5, <1>6 DEF TimerInv

LEMMA TimerInvNext ==
    ASSUME TimerInv, [Next]_vars
    PROVE  TimerInv'
<1>1. CASE DriverCall
  <2>1. PICK w \in StaticDog : DriverCancel(w) \/ \E d \in 0 .. MaxDelay : DriverStart(w, d)
    BY <1>1 DEF DriverCall
  <2>2. 0 \in 0 .. MaxDelay
    BY Entries
  <2> QED BY <2>1, <2>2, DriverStep
<1>2. CASE Interrupt
  BY <1>2, TickStep, ExpireStep, TimerTimeoutStep, WaitTimeoutStep, DriverTimeoutStep DEF Interrupt
<1>3. CASE Deletion
  BY <1>3, WdRecoverStep, TimerDeleteallStep, TaskCreateStep DEF Deletion
<1>4. ASSUME NEW o \in Task, TimerCall(o) PROVE TimerInv'
  BY <1>4, TimerCreateStep, TimerAllocateStep, TimerAllocateFailsStep, DisarmStep, TimerSettimeStep,
     TimerDeleteStep, TimerArmStep, TimerReleaseStep, TimerFreeStep DEF TimerCall
<1>5. ASSUME NEW o \in Task, WaitCall(o) PROVE TimerInv'
  BY <1>5, TimedWaitEndStep, TimedWaitStep DEF WaitCall
<1>6. CASE UNCHANGED vars
  <2>1. UNCHANGED <<active, lag, freedogs, nfree, heapdogs, called, parm, timerVars, waitdog, tstate, callVars>>
    BY <1>6 DEF vars, dogVars
  <2>2. ListOK(active', lag') /\ (called = "no" => Waits(active', lag'))
    BY <2>1, SameList DEF ListStep, TimerInv
  <2>3. UNCHANGED <<alloctimers, freetimers, owner, wdog, crefs, period, pc, ptimer, pdog, pdelay>>
    BY <2>1 DEF timerVars, callVars
  <2>4. TypeOK /\ OwnInv /\ PoolOK /\ CallInv /\ TimersInv
    BY DEF TimerInv
  <2>5. TimerTypes' /\ TaskTypes' /\ called' \in Dog \cup {NoDog, "no"} /\ nfree' \in Nat
    BY <2>1, <2>3, <2>4 DEF TypeOK, TimerTypes, TaskTypes
  <2>6. TimersInv' /\ PoolOK' /\ InUse' = InUse
    BY <2>1, <2>3, <2>4 DEF TimersInv, PoolOK, InUse
  <2>7. CallInv'
    BY <2>1, <2>3, <2>4 DEF CallInv, CallOK, Mine
  <2>8. ASSUME NEW w \in Dog PROVE OwnMove(w)
    <3>1. UsersOf(w)' = UsersOf(w)
      BY <2>1, <2>3, UsersSame
    <3> QED BY <2>1, <2>6, <3>1 DEF OwnMove
  <2> QED BY <2>1, <2>2, <2>4, <2>5, <2>6, <2>7, <2>8, Conclude
<1> QED BY <1>1, <1>2, <1>3, <1>4, <1>5, <1>6 DEF Next

(***************************************************************************)
(* The inductive invariant holds in every reachable state: the types, the  *)
(* list of running watchdogs, the pool with its count, and for each call   *)
(* that lost the CPU, each timer and each watchdog, who uses it and who is *)
(* about to give it up (timer_create, timer_delete, wd_delete, exit of a   *)
(* task).  The theorems below are its consequences.                        *)
(***************************************************************************)
THEOREM TimerInvariant == Spec => []TimerInv
<1>1. Init => TimerInv
  BY TimerInvInit
<1>2. TimerInv /\ [Next]_vars => TimerInv'
  BY TimerInvNext
<1> QED BY <1>1, <1>2, PTL DEF Spec

(***************************************************************************)
(* No watchdog ever runs out for a timer or a task that is gone, whatever  *)
(* deletions the timer interrupt falls between (timer_release.c:155,       *)
(* wd_recover, timer_deleteall).                                           *)
(***************************************************************************)
THEOREM ExpiriesHaveUsers == Spec => []NoStaleExpiry
<1>1. TimerInv => NoStaleExpiry
  BY DEF TimerInv, OwnInv, OwnOK, NoStaleExpiry
<1> QED BY <1>1, TimerInvariant, PTL

(***************************************************************************)
(* No watchdog is lost or shared, and no timer is lost: what wd_create     *)
(* gives out has exactly one timer, timed wait or call that deletes it.    *)
(***************************************************************************)
THEOREM DogsAccounted == Spec => []NoDogLost
<1>1. ASSUME TimerInv PROVE NoDogLost
  <2>1. TypeOK /\ OwnInv /\ TimersInv
    BY <1>1 DEF TimerInv
  <2>2. ASSUME NEW w \in Dog \ StaticDog
        PROVE  IF w \in (Pool \ freedogs) \cup heapdogs THEN Cardinality(UsersOf(w)) = 1 ELSE UsersOf(w) = {}
    <3>1. OwnOK(w)
      BY <2>1 DEF OwnInv
    <3>2. CASE w \in InUse
      <4>1. UsersOf(w) # {} /\ \A a, b \in UsersOf(w) : a = b
        BY <3>1, <3>2 DEF OwnOK
      <4>2. PICK u : UsersOf(w) = {u}
        BY <4>1
      <4>3. Cardinality({u}) = 1
        BY FS_Singleton
      <4> QED BY <3>2, <4>2, <4>3 DEF InUse
    <3>3. CASE w \notin InUse
      BY <3>1, <3>3 DEF OwnOK, InUse
    <3> QED BY <3>2, <3>3
  <2> QED BY <2>1, <2>2 DEF NoDogLost, TimersInv
<1> QED BY <1>1, TimerInvariant, PTL

(***************************************************************************)
(* g_wdnfree counts g_wdfreelist, stays within CONFIG_PREALLOC_WDOGS (the  *)
(* assertions of wd_create.c:133 and wd_delete.c:161) and above the        *)
(* reserve, and nothing free is running.                                   *)
(***************************************************************************)
THEOREM PoolStaysConsistent == Spec => []PoolConsistent
<1>1. ASSUME TimerInv PROVE PoolConsistent
  <2>1. PoolOK /\ OwnInv
    BY <1>1 DEF TimerInv
  <2>2. nfree = Cardinality(freedogs)
    BY <2>1 DEF PoolOK
  <2>3. IntReserve <= Cardinality(Pool) => nfree \in IntReserve .. Cardinality(Pool)
    <3>1. Cardinality(freedogs) \in Nat /\ Cardinality(Pool) \in Nat /\ Cardinality(freedogs) <= Cardinality(Pool)
      BY <2>1, FreeDogs
    <3>2. IntReserve <= Cardinality(Pool) => IntReserve <= nfree
      BY <2>1 DEF PoolOK
    <3>3. IntReserve \in Nat
      BY WatchdogConstants
    <3> QED BY <2>2, <3>1, <3>2, <3>3
  <2>4. ASSUME NEW w \in ToSet(active) PROVE w \in InUse \cup StaticDog
    <3>1. w \in Dog
      BY <1>1, Entries
    <3> QED BY <2>1, <3>1 DEF OwnInv, OwnOK, IsActive
  <2> QED BY <2>2, <2>3, <2>4 DEF PoolConsistent, InUse
<1> QED BY <1>1, TimerInvariant, PTL

(***************************************************************************)
(* g_wdactivelist holds no watchdog twice, no lag becomes negative, and no *)
(* entry that has run out stays at its head once wd_expiration is over:    *)
(* what wd_timer relies on when it counts one tick off the first entry     *)
(* (wd_start.c:297-364, wd_cancel.c:150).                                  *)
(***************************************************************************)
ActiveListSound ==
    ListOK(active, lag) /\ (~InInterrupt => Waits(active, lag))

\* Every start, cancellation and expiry keeps the list so, for lists of any length.
THEOREM ListKeepsTime == Spec => []ActiveListSound
<1>1. TimerInv => ActiveListSound
  BY ActiveList DEF TimerInv, ActiveListSound, InInterrupt
<1> QED BY <1>1, TimerInvariant, PTL

-----------------------------------------------------------------------------
(***************************************************************************)
(* The list of differences keeps time: every step is one of WatchdogAbs.   *)
(***************************************************************************)
\* The lag of an entry.
LEMMA EntryLag ==
    ASSUME NEW q, NEW l, ListOK(q, l), NEW i \in 1 .. Len(q)
    PROVE  l[q[i]] \in Nat
BY DEF ListOK

\* The n entries behind place a of a list, and behind place b of another, have
\* the same lags, and the expiries at those places differ by c.
Shifted(q, l, a, q2, l2, b, n, c) ==
    /\ ListOK(q, l) /\ ListOK(q2, l2)
    /\ a \in Nat /\ b \in Nat /\ n \in Nat /\ a + n <= Len(q) /\ b + n <= Len(q2)
    /\ c \in Int /\ Now(q2, l2, b) = Now(q, l, a) + c
    /\ \A i \in 1 .. n : l2[q2[b + i]] = l[q[a + i]]

\* Then all n expiries differ by c.
LEMMA NowShift ==
    ASSUME NEW q, NEW l, NEW a, NEW q2, NEW l2, NEW b, NEW n, NEW c, Shifted(q, l, a, q2, l2, b, n, c)
    PROVE  \A i \in 0 .. n : Now(q2, l2, b + i) = Now(q, l, a + i) + c
<1>s. /\ ListOK(q, l) /\ ListOK(q2, l2)
      /\ a \in Nat /\ b \in Nat /\ n \in Nat /\ a + n <= Len(q) /\ b + n <= Len(q2)
      /\ c \in Int /\ Now(q2, l2, b) = Now(q, l, a) + c
      /\ \A i \in 1 .. n : l2[q2[b + i]] = l[q[a + i]]
  BY DEF Shifted
<1> USE <1>s
<1> DEFINE S == {i \in Nat : i <= n /\ Now(q2, l2, b + i) # Now(q, l, a + i) + c}
<1> SUFFICES ASSUME S # {} PROVE FALSE
  <2>1. \A i \in 0 .. n : i \in Nat /\ i <= n
    OBVIOUS
  <2> QED BY <2>1
<1>1. PICK m \in S : \A k \in S : m <= k
  BY LeastNumber
<1>2. m \in Nat /\ m <= n /\ Now(q2, l2, b + m) # Now(q, l, a + m) + c
  BY <1>1
<1>3. m # 0
  <2>1. b + 0 = b /\ a + 0 = a
    OBVIOUS
  <2> QED BY <1>2, <2>1
<1>4. m - 1 \in Nat /\ m - 1 \notin S /\ m - 1 <= n /\ m \in 1 .. n
  <2>1. m - 1 \in Nat /\ ~(m <= m - 1) /\ m - 1 <= n /\ m \in 1 .. n
    BY <1>2, <1>3
  <2> HIDE DEF S
  <2> QED BY <1>1, <2>1
<1>5. Now(q2, l2, b + (m - 1)) = Now(q, l, a + (m - 1)) + c
  BY <1>4
<1>0. Len(q) \in Nat
  BY DEF ListOK
<1>6. /\ a + (m - 1) \in Nat /\ (a + (m - 1)) + 1 = a + m
      /\ b + (m - 1) \in Nat /\ (b + (m - 1)) + 1 = b + m
      /\ a + (m - 1) \in 0 .. Len(q) /\ a + m \in 1 .. Len(q)
  <2> HIDE DEF S
  <2>1. m \in Nat /\ m - 1 \in Nat /\ m <= n /\ m # 0
    BY <1>2, <1>3, <1>4
  <2>2. a + (m - 1) \in Nat /\ (a + (m - 1)) + 1 = a + m
    BY <2>1
  <2>3. b + (m - 1) \in Nat /\ (b + (m - 1)) + 1 = b + m
    BY <2>1
  <2>4. a + m <= Len(q) /\ a + (m - 1) <= Len(q) /\ a + m >= 1
    BY <1>0, <2>1
  <2>5. a + m \in Nat
    BY <2>1
  <2> QED BY <1>0, <2>2, <2>3, <2>4, <2>5
<1> DEFINE x == a + (m - 1)
           y == b + (m - 1)
<1>7. Now(q, l, a + m) = Now(q, l, x) + l[q[a + m]]
  <2>1. \A k \in Nat : Now(q, l, k + 1) = Now(q, l, k) + l[q[k + 1]]
    BY NowSteps, Zenon
  <2>2. Now(q, l, x + 1) = Now(q, l, x) + l[q[x + 1]]
    BY <1>6, <2>1, Zenon
  <2> QED BY <1>6, <2>2, Zenon
<1>8. Now(q2, l2, b + m) = Now(q2, l2, y) + l2[q2[b + m]]
  <2>1. \A k \in Nat : Now(q2, l2, k + 1) = Now(q2, l2, k) + l2[q2[k + 1]]
    BY NowSteps, Zenon
  <2>2. Now(q2, l2, y + 1) = Now(q2, l2, y) + l2[q2[y + 1]]
    BY <1>6, <2>1, Zenon
  <2> QED BY <1>6, <2>2, Zenon
<1>9. l2[q2[b + m]] = l[q[a + m]] /\ l[q[a + m]] \in Nat /\ Now(q, l, x) \in Nat
  <2>1. l2[q2[b + m]] = l[q[a + m]]
    BY <1>4
  <2>2. l[q[a + m]] \in Nat
    BY <1>6, EntryLag, Zenon
  <2>3. Now(q, l, x) \in Nat
    BY <1>6, NowTypes, Zenon
  <2> QED BY <2>1, <2>2, <2>3
<1>10. Now(q2, l2, y) = Now(q, l, x) + c
  BY <1>5
<1> DEFINE u == Now(q, l, x)
           v == l[q[a + m]]
<1>11. u \in Nat /\ v \in Nat /\ Now(q, l, a + m) = u + v /\ Now(q2, l2, b + m) = (u + c) + v
  BY <1>7, <1>8, <1>9, <1>10, Zenon
<1> HIDE DEF u, v, S
<1>12. (u + c) + v = (u + v) + c
  BY <1>11
<1> QED BY <1>2, <1>11, <1>12, Zenon

\* An entry does not run out before the ones in front of it.
LEMMA NowAscends ==
    ASSUME NEW q, NEW l, ListOK(q, l), NEW i \in 0 .. Len(q), NEW j \in 0 .. Len(q), i <= j
    PROVE  Now(q, l, i) <= Now(q, l, j)
<1>0. Len(q) \in Nat /\ i \in Nat /\ j \in Nat /\ Now(q, l, i) \in Nat
  BY NowTypes DEF ListOK
<1> DEFINE S == {n \in Nat : i <= n /\ n <= Len(q) /\ ~(Now(q, l, i) <= Now(q, l, n))}
<1> SUFFICES ASSUME S # {} PROVE FALSE
  BY <1>0
<1>1. PICK m \in S : \A k \in S : m <= k
  BY LeastNumber
<1>2. m \in Nat /\ i <= m /\ m <= Len(q) /\ ~(Now(q, l, i) <= Now(q, l, m))
  BY <1>1
<1>3. m # i
  BY <1>0, <1>2
<1>4. m - 1 \in Nat /\ m - 1 \notin S /\ i <= m - 1 /\ m - 1 \in 0 .. Len(q) /\ m \in 1 .. Len(q) /\ (m - 1) + 1 = m
  BY <1>0, <1>1, <1>2, <1>3
<1>5. Now(q, l, i) <= Now(q, l, m - 1)
  BY <1>4
<1>6. Now(q, l, m) = Now(q, l, m - 1) + l[q[m]]
  <2>1. \A k \in Nat : Now(q, l, k + 1) = Now(q, l, k) + l[q[k + 1]]
    BY NowSteps, Zenon
  <2>2. Now(q, l, (m - 1) + 1) = Now(q, l, m - 1) + l[q[(m - 1) + 1]]
    BY <1>4, <2>1, Zenon
  <2> QED BY <1>4, <2>2, Zenon
<1> HIDE DEF S
<1>7. l[q[m]] \in Nat /\ Now(q, l, m - 1) \in Nat
  <2>1. q[m] \in Dog /\ l \in [Dog -> Nat]
    BY <1>4 DEF ListOK
  <2>2. Now(q, l, m - 1) \in Nat
    BY <1>4, NowTypes, Zenon
  <2> QED BY <2>1, <2>2
<1> QED BY <1>0, <1>2, <1>5, <1>6, <1>7

\* The expiry of a watchdog of the list, and its place.
Expiry(q, l, w) == Now(q, l, IndexOf(q, w))

Ahead(q, u, w) == IndexOf(q, u) < IndexOf(q, w)

\* An entry is in one place.
LEMMA PlaceOfEntry ==
    ASSUME NEW q, NEW l, ListOK(q, l), NEW i \in 1 .. Len(q)
    PROVE  IndexOf(q, q[i]) = i /\ Expiry(q, l, q[i]) = Now(q, l, i) /\ q[i] \in ToSet(q) /\ q[i] \in Dog
<1>1. DOMAIN q = 1 .. Len(q) /\ q[i] \in Dog /\ IsInjective(q)
  BY DEF ListOK
<1>2. IndexOf(q, q[i]) = i
  BY <1>1 DEF IndexOf, IsInjective
<1> QED BY <1>1, <1>2 DEF Expiry, ToSet

\* A watchdog of the list is an entry.
LEMMA EntryOf ==
    ASSUME NEW q, NEW l, ListOK(q, l), NEW w \in ToSet(q)
    PROVE  \E i \in 1 .. Len(q) : q[i] = w
<1>1. DOMAIN q = 1 .. Len(q)
  BY DEF ListOK
<1> QED BY <1>1 DEF ToSet

\* One entry further.
LEMMA NowNext ==
    ASSUME NEW q, NEW l, NEW k \in Nat
    PROVE  Now(q, l, k + 1) = Now(q, l, k) + l[q[k + 1]]
<1>1. \A i \in Nat : Now(q, l, i + 1) = Now(q, l, i) + l[q[i + 1]]
  BY NowSteps, Zenon
<1> QED BY <1>1, Zenon

\* An entry w is put behind the k-th, and takes the ticks given from the next.
Put(q, l, k, w, given, q2, l2) ==
    /\ ListOK(q, l) /\ ListOK(q2, l2) /\ Len(q2) = Len(q) + 1
    /\ k \in 0 .. Len(q) /\ given \in Nat
    /\ q2[k + 1] = w /\ l2[w] = given
    /\ \A i \in 1 .. Len(q) : /\ i <= k => q2[i] = q[i]
                              /\ i > k => q2[i + 1] = q[i]
                              /\ i # k + 1 => l2[q[i]] = l[q[i]]
                              /\ i = k + 1 => l2[q[i]] = l[q[i]] - given

\* It runs out after d ticks.
PutFor(q, l, k, given, d) == Now(q, l, k) \in Nat /\ Now(q, l, k) + given = d

\* The next entry runs out later.
PutBefore(q, l, k, d) == k < Len(q) => Now(q, l, k) + l[q[k + 1]] > d

\* Both, with their types.
PutIn(q, l, k, w, given, q2, l2, d) ==
    /\ k \in Nat /\ given \in Nat /\ d \in Nat
    /\ Put(q, l, k, w, given, q2, l2) /\ PutFor(q, l, k, given, d)

\* That is what the end of wd_start does.
LEMMA InsertPuts ==
    ASSUME NEW q, NEW l, ListOK(q, l), NEW w \in Dog, w \notin ToSet(q), NEW d \in Nat, d > 0
    PROVE  \E k, given : /\ PutIn(q, l, k, w, given, InsertedList(q, l, w, d), InsertedLag(q, l, w, d), d)
                         /\ PutBefore(q, l, k, d)
<1> DEFINE k == Cardinality(Passed(q, l, d))
           rest == d - Now(q, l, k)
           q2 == InsertedList(q, l, w, d)
           l2 == InsertedLag(q, l, w, d)
<1>0. q \in Seq(Dog) /\ IsInjective(q) /\ l \in [Dog -> Nat] /\ Len(q) \in Nat /\ DOMAIN q = 1 .. Len(q)
      /\ \A j \in 1 .. Len(q) : q[j] \in Dog /\ l[q[j]] \in Nat
  BY DEF ListOK
<1>1. /\ k \in 0 .. Len(q) /\ Now(q, l, k) \in Nat /\ Now(q, l, k) <= d
      /\ k < Len(q) => Now(q, l, k) + l[q[k + 1]] > d
  <2> HIDE DEF k
  <2> QED BY PassedIsPrefix DEF k
<1>2. l2 = [u \in Dog |-> CASE u = w -> rest
                            [] u # w /\ k < Len(q) /\ u = q[k + 1] -> l[u] - rest
                            [] OTHER -> l[u]]
  BY DEF InsertedLag
<1>3. q2 = InsertAt(q, k + 1, w)
  BY DEF InsertedList
<1>4. ListOK(q2, l2)
  BY InsertKeeps
<1> HIDE DEF k, q2, l2
<1>5. k \in Nat /\ k + 1 \in 1 .. Len(q) + 1 /\ rest \in Nat /\ k <= Len(q) /\ Now(q, l, k) + rest = d
  BY <1>0, <1>1
<1> HIDE DEF rest
<1>6. /\ Len(q2) = Len(q) + 1
      /\ \A j \in 1 .. Len(q) + 1 : q2[j] = IF j < k + 1 THEN q[j] ELSE IF j = k + 1 THEN w ELSE q[j - 1]
  <2>1. PICK p \in 1 .. Len(q) + 1 : p = k + 1
    BY <1>5
  <2> DEFINE r == InsertAt(q, p, w)
  <2>2. /\ Len(r) = Len(q) + 1
        /\ \A j \in 1 .. Len(q) + 1 : r[j] = IF j < p THEN q[j] ELSE IF j = p THEN w ELSE q[j - 1]
    BY <1>0, <2>1, InsertAtEntries
  <2>3. q2 = r
    BY <1>3, <2>1
  <2> HIDE DEF r
  <2> QED BY <2>1, <2>2, <2>3
<1>7. q2[k + 1] = w
  BY <1>5, <1>6
<1>8. l2[w] = rest
  BY <1>2
<1>9. ASSUME NEW i \in 1 .. Len(q)
      PROVE  /\ i <= k => q2[i] = q[i]
             /\ i > k => q2[i + 1] = q[i]
             /\ i # k + 1 => l2[q[i]] = l[q[i]]
             /\ i = k + 1 => l2[q[i]] = l[q[i]] - rest
  <2>1. i \in Nat /\ i >= 1 /\ i <= Len(q) /\ q[i] \in Dog
    BY <1>0
  <2>2. i <= k => q2[i] = q[i]
    <3>1. i \in 1 .. Len(q) + 1 /\ (i <= k => i < k + 1)
      BY <1>0, <1>5, <2>1
    <3> QED BY <1>6, <3>1
  <2>3. i > k => q2[i + 1] = q[i]
    <3>1. i + 1 \in 1 .. Len(q) + 1 /\ (i > k => ~(i + 1 < k + 1) /\ i + 1 # k + 1) /\ (i + 1) - 1 = i
      BY <1>0, <1>5, <2>1
    <3> QED BY <1>6, <3>1
  <2>4. q[i] # w
    BY <1>0 DEF ToSet
  <2>5. i = k + 1 => k < Len(q)
    BY <1>0, <1>5, <2>1
  <2>6. i # k + 1 /\ k < Len(q) => q[i] # q[k + 1]
    <3>1. k < Len(q) => k + 1 \in 1 .. Len(q)
      BY <1>0, <1>5
    <3> QED BY <1>0, <3>1 DEF IsInjective
  <2> QED BY <1>2, <2>1, <2>2, <2>3, <2>4, <2>5, <2>6
<1>10. Put(q, l, k, w, rest, q2, l2)
  BY <1>1, <1>4, <1>5, <1>6, <1>7, <1>8, <1>9 DEF Put
<1>11. PutFor(q, l, k, rest, d) /\ PutBefore(q, l, k, d)
  BY <1>1, <1>5 DEF PutFor, PutBefore
<1> USE DEF q2, l2
<1> QED BY <1>5, <1>10, <1>11, Zenon DEF PutIn

\* Where the entries are then, and when they run out.
LEMMA PutTimes ==
    ASSUME NEW q, NEW l, NEW k, NEW w, NEW given, NEW q2, NEW l2, NEW d, PutIn(q, l, k, w, given, q2, l2, d)
    PROVE  /\ Now(q2, l2, k + 1) = d
           /\ \A i \in 1 .. k : Now(q2, l2, i) = Now(q, l, i) /\ Now(q, l, i) <= d
           /\ \A i \in k + 1 .. Len(q) :
                Now(q2, l2, i + 1) = Now(q, l, i) /\ (PutBefore(q, l, k, d) => Now(q, l, i) > d)
<1>p. k \in Nat /\ given \in Nat /\ d \in Nat /\ Put(q, l, k, w, given, q2, l2) /\ PutFor(q, l, k, given, d)
  BY DEF PutIn
<1> USE <1>p
<1>4. ListOK(q, l) /\ ListOK(q2, l2)
  BY DEF Put
<1> USE <1>4
<1>0. Len(q) \in Nat /\ \A j \in 1 .. Len(q) : l[q[j]] \in Nat
  BY DEF ListOK
<1>5. k \in Nat /\ given \in Nat /\ k <= Len(q) /\ k \in 0 .. Len(q)
  BY <1>0 DEF Put
<1>6. Len(q2) = Len(q) + 1
  BY DEF Put
<1>7. \A i \in 1 .. k : q2[i] = q[i] /\ i \in 1 .. Len(q)
  BY <1>0, <1>5 DEF Put
<1>8. q2[k + 1] = w /\ l2[w] = given
  BY DEF Put
<1>9. \A i \in k + 1 .. Len(q) : q2[i + 1] = q[i] /\ i \in 1 .. Len(q)
  BY <1>0, <1>5 DEF Put
<1>11. \A j \in 1 .. Len(q) : j # k + 1 => l2[q[j]] = l[q[j]]
  BY DEF Put
<1>12. k < Len(q) => l2[q[k + 1]] = l[q[k + 1]] - given
  <2>1. k < Len(q) => k + 1 \in 1 .. Len(q)
    BY <1>0, <1>5
  <2> QED BY <2>1 DEF Put
<1>13. \A i \in 0 .. k : Now(q2, l2, i) = Now(q, l, i)
  <2>0. PICK z \in Nat : z = 0
    OBVIOUS
  <2>1. z + k <= Len(q) /\ z + k <= Len(q2) /\ z \in Int
    BY <1>0, <1>5, <1>6, <2>0
  <2>2. Now(q2, l2, z) = Now(q, l, z) + z
    BY <2>0, NowSteps
  <2>3. ASSUME NEW i \in 1 .. k PROVE l2[q2[z + i]] = l[q[z + i]]
    <3>1. i \in 1 .. Len(q) /\ i # k + 1 /\ z + i = i /\ q2[i] = q[i]
      BY <1>5, <1>7, <2>0
    <3>2. l2[q[i]] = l[q[i]]
      BY <1>11, <3>1
    <3> QED BY <3>1, <3>2
  <2>4. \A i \in 0 .. k : Now(q2, l2, z + i) = Now(q, l, z + i) + z
    <3>1. Shifted(q, l, z, q2, l2, z, k, z)
      BY <1>4, <1>5, <2>1, <2>2, <2>3 DEF Shifted
    <3> QED BY <3>1, NowShift
  <2>5. ASSUME NEW i \in 0 .. k PROVE Now(q2, l2, i) = Now(q, l, i)
    <3>1. z + i = i /\ i \in 0 .. Len(q)
      BY <1>0, <1>5, <2>0
    <3>2. Now(q, l, i) \in Nat
      BY <3>1, NowTypes
    <3>3. Now(q2, l2, i) = Now(q, l, i) + z
      BY <2>4, <3>1
    <3> QED BY <2>0, <3>2, <3>3
  <2> QED BY <2>5
<1>14. Now(q2, l2, k + 1) = d
  <2>1. Now(q2, l2, k + 1) = Now(q2, l2, k) + l2[q2[k + 1]]
    BY <1>5, NowNext
  <2>2. k \in 0 .. k
    BY <1>5
  <2> QED BY <1>5, <1>8, <1>13, <2>1, <2>2 DEF PutFor
<1>15. ASSUME k < Len(q)
       PROVE  Now(q2, l2, k + 2) = Now(q, l, k + 1) /\ (PutBefore(q, l, k, d) => Now(q, l, k + 1) > d)
  <2>1. k + 1 \in Nat /\ (k + 1) + 1 = k + 2 /\ k + 1 \in k + 1 .. Len(q) /\ k + 1 \in 1 .. Len(q)
    BY <1>0, <1>5, <1>15
  <2>2. Now(q2, l2, k + 2) = Now(q2, l2, k + 1) + l2[q2[k + 2]]
    <3>1. Now(q2, l2, (k + 1) + 1) = Now(q2, l2, k + 1) + l2[q2[(k + 1) + 1]]
      BY <2>1, NowNext, Zenon
    <3> QED BY <2>1, <3>1, Zenon
  <2>3. q2[k + 2] = q[k + 1]
    BY <1>9, <2>1
  <2>4. Now(q, l, k + 1) = Now(q, l, k) + l[q[k + 1]]
    BY <1>5, NowNext
  <2>5. l[q[k + 1]] \in Nat /\ l2[q[k + 1]] = l[q[k + 1]] - given
    BY <1>0, <1>12, <1>15, <2>1
  <2>6. Now(q2, l2, k + 2) = Now(q, l, k + 1)
    BY <1>5, <1>14, <2>2, <2>3, <2>4, <2>5 DEF PutFor
  <2>7. PutBefore(q, l, k, d) => Now(q, l, k + 1) > d
    BY <1>15, <2>4 DEF PutBefore
  <2> QED BY <2>6, <2>7
<1>16. ASSUME NEW i \in k + 1 .. Len(q)
       PROVE  Now(q2, l2, i + 1) = Now(q, l, i) /\ (PutBefore(q, l, k, d) => Now(q, l, i) > d)
  <2> DEFINE n == Len(q) - (k + 1)
             a == k + 1
             b == k + 2
  <2>0. PICK z \in Int : z = 0
    OBVIOUS
  <2>1. k < Len(q) /\ n \in Nat /\ a \in Nat /\ b \in Nat /\ a + n = Len(q) /\ b + n = Len(q) + 1
    <3>1. Len(q) \in Nat
      BY <1>0
    <3>2. i \in Int /\ k + 1 <= i /\ i <= Len(q)
      BY <3>1
    <3> QED BY <3>1, <3>2
  <2>2. /\ Now(q2, l2, b) = Now(q, l, a) + z /\ Now(q, l, a) \in Nat /\ a \in 0 .. Len(q)
        /\ PutBefore(q, l, k, d) => Now(q, l, a) > d
    <3>1. k + 1 \in 0 .. Len(q)
      <4>1. Len(q) \in Nat /\ k < Len(q)
        BY <1>0, <2>1
      <4> QED BY <4>1
    <3>2. Now(q, l, k + 1) \in Nat
      BY <3>1, NowTypes
    <3> QED BY <1>15, <2>0, <2>1, <3>1, <3>2
  <2>3. ASSUME NEW j \in 1 .. n PROVE l2[q2[b + j]] = l[q[a + j]]
    <3>1. a + j \in k + 1 .. Len(q) /\ a + j \in 1 .. Len(q) /\ a + j # k + 1 /\ b + j = (a + j) + 1
      BY <1>0, <1>5, <2>1
    <3> HIDE DEF a, b, n
    <3>2. l2[q[a + j]] = l[q[a + j]]
      BY <1>11, <3>1
    <3>3. q2[(a + j) + 1] = q[a + j]
      BY <1>9, <3>1
    <3> QED BY <3>1, <3>2, <3>3
  <2>4. a + n <= Len(q) /\ b + n <= Len(q2)
    <3> HIDE DEF a, b, n
    <3> QED BY <1>0, <1>6, <2>1
  <2>5. i - a \in 0 .. n /\ b + (i - a) = i + 1 /\ a + (i - a) = i /\ i \in 0 .. Len(q) /\ a <= i
    BY <1>0, <1>5
  <2> HIDE DEF a, b, n
  <2>6. \A j \in 0 .. n : Now(q2, l2, b + j) = Now(q, l, a + j) + z
    <3>1. Shifted(q, l, a, q2, l2, b, n, z)
      BY <1>4, <2>1, <2>2, <2>3, <2>4 DEF Shifted
    <3> QED BY <3>1, NowShift
  <2>7. Now(q2, l2, b + (i - a)) = Now(q, l, a + (i - a)) + z
    BY <2>5, <2>6
  <2>8. Now(q, l, i) \in Nat /\ Now(q, l, a) <= Now(q, l, i)
    BY <2>2, <2>5, NowTypes, NowAscends
  <2>9. PutBefore(q, l, k, d) => Now(q, l, i) > d
    BY <2>2, <2>8
  <2> QED BY <2>0, <2>5, <2>7, <2>8, <2>9
<1>17. ASSUME NEW i \in 1 .. k PROVE Now(q2, l2, i) = Now(q, l, i) /\ Now(q, l, i) <= d
  <2>1. i \in 0 .. k /\ i \in 0 .. Len(q) /\ k \in 0 .. Len(q) /\ i <= k
    BY <1>0, <1>5
  <2>2. Now(q, l, i) \in Nat /\ Now(q, l, i) <= Now(q, l, k)
    BY <2>1, NowTypes, NowAscends
  <2>3. Now(q, l, i) <= d
    BY <2>2 DEF PutFor
  <2> QED BY <1>13, <2>1, <2>3
<1> QED BY <1>14, <1>16, <1>17

\* The same for each watchdog: the new one runs out after d ticks, behind those
\* that run out no later, and nothing else changes.
LEMMA PutExpiries ==
    ASSUME NEW q, NEW l, NEW k, NEW w, NEW given, NEW q2, NEW l2, NEW d, PutIn(q, l, k, w, given, q2, l2, d)
    PROVE  /\ Expiry(q2, l2, w) = d
           /\ \A u \in ToSet(q) : /\ Expiry(q2, l2, u) = Expiry(q, l, u)
                                  /\ PutBefore(q, l, k, d) => (Ahead(q2, u, w) <=> Expiry(q, l, u) <= d)
           /\ \A u, v \in ToSet(q) : Ahead(q2, u, v) <=> Ahead(q, u, v)
<1>p. k \in Nat /\ given \in Nat /\ d \in Nat /\ Put(q, l, k, w, given, q2, l2) /\ PutFor(q, l, k, given, d)
  BY DEF PutIn
<1> USE <1>p
<1> DEFINE at(i) == IF i <= k THEN i ELSE i + 1
<1>0. ListOK(q, l) /\ ListOK(q2, l2)
  BY DEF Put
<1>1. Len(q) \in Nat /\ k <= Len(q) /\ Len(q2) = Len(q) + 1 /\ q2[k + 1] = w
  BY <1>0 DEF Put, ListOK
<1>2. Now(q2, l2, k + 1) = d
      /\ (\A i \in 1 .. k : Now(q2, l2, i) = Now(q, l, i) /\ Now(q, l, i) <= d)
      /\ (\A i \in k + 1 .. Len(q) :
            Now(q2, l2, i + 1) = Now(q, l, i) /\ (PutBefore(q, l, k, d) => Now(q, l, i) > d))
  BY PutTimes
<1>3. IndexOf(q2, w) = k + 1 /\ Expiry(q2, l2, w) = d
  <2>1. k + 1 \in 1 .. Len(q2)
    BY <1>1
  <2> QED BY <1>0, <1>1, <1>2, <2>1, PlaceOfEntry
<1>4. ASSUME NEW i \in 1 .. Len(q)
      PROVE  /\ IndexOf(q2, q[i]) = at(i) /\ IndexOf(q, q[i]) = i
             /\ Expiry(q2, l2, q[i]) = Expiry(q, l, q[i])
             /\ PutBefore(q, l, k, d) => (at(i) < k + 1 <=> Expiry(q, l, q[i]) <= d)
  <2>1. i \in Nat /\ i <= Len(q) /\ i >= 1
    BY <1>1
  <2>2. at(i) \in 1 .. Len(q2) /\ (at(i) < k + 1 <=> i <= k)
    BY <1>1, <2>1
  <2>3. q2[at(i)] = q[i]
    BY <2>1 DEF Put
  <2>4. /\ Now(q2, l2, at(i)) = Now(q, l, i)
        /\ PutBefore(q, l, k, d) => (i <= k <=> Now(q, l, i) <= d)
    <3>1. CASE i <= k
      <4>1. i \in 1 .. k
        BY <2>1, <3>1
      <4> QED BY <1>2, <3>1, <4>1
    <3>2. CASE ~(i <= k)
      <4>1. i \in k + 1 .. Len(q) /\ i \in 0 .. Len(q)
        BY <1>1, <2>1, <3>2
      <4>2. Now(q2, l2, i + 1) = Now(q, l, i) /\ (PutBefore(q, l, k, d) => Now(q, l, i) > d) /\ Now(q, l, i) \in Nat
        BY <1>0, <1>2, <4>1, NowTypes
      <4> QED BY <3>2, <4>2
    <3> QED BY <3>1, <3>2
  <2> HIDE DEF at
  <2>5. IndexOf(q, q[i]) = i /\ Expiry(q, l, q[i]) = Now(q, l, i)
    BY <1>0, PlaceOfEntry
  <2>6. IndexOf(q2, q2[at(i)]) = at(i) /\ Expiry(q2, l2, q2[at(i)]) = Now(q2, l2, at(i))
    BY <1>0, <2>2, PlaceOfEntry
  <2> QED BY <2>2, <2>3, <2>4, <2>5, <2>6, Zenon
<1>5. ASSUME NEW u \in ToSet(q)
      PROVE  /\ Expiry(q2, l2, u) = Expiry(q, l, u)
             /\ PutBefore(q, l, k, d) => (Ahead(q2, u, w) <=> Expiry(q, l, u) <= d)
  <2>1. PICK i \in 1 .. Len(q) : q[i] = u
    BY <1>0, EntryOf
  <2> HIDE DEF at
  <2> QED BY <1>3, <1>4, <2>1, Zenon DEF Ahead
<1>6. ASSUME NEW u \in ToSet(q), NEW v \in ToSet(q) PROVE Ahead(q2, u, v) <=> Ahead(q, u, v)
  <2>1. PICK i \in 1 .. Len(q) : q[i] = u
    BY <1>0, EntryOf
  <2>2. PICK j \in 1 .. Len(q) : q[j] = v
    BY <1>0, EntryOf
  <2>3. i \in Nat /\ j \in Nat
    BY <1>1
  <2>4. at(i) < at(j) <=> i < j
    BY <2>3
  <2> HIDE DEF at
  <2> QED BY <1>4, <2>1, <2>2, <2>4, Zenon DEF Ahead
<1> QED BY <1>3, <1>5, <1>6

\* What WatchdogAbs sees of a list.
TimesOf(q, l) == [w \in ToSet(q) |-> Expiry(q, l, w)]

OlderIn(q, l) ==
    {p \in ToSet(q) \X ToSet(q) : Expiry(q, l, p[1]) = Expiry(q, l, p[2]) /\ Ahead(q, p[1], p[2])}

\* With a watchdog more, and with one less.
TimesMore(q, l, w, d) == [u \in ToSet(q) \cup {w} |-> IF u = w THEN d ELSE TimesOf(q, l)[u]]

OlderMore(q, l, w, d) == OlderIn(q, l) \cup {<<u, w>> : u \in {v \in ToSet(q) : TimesOf(q, l)[v] = d}}

TimesLess(q, l, w) == [u \in ToSet(q) \ {w} |-> TimesOf(q, l)[u]]

OlderLess(q, l, w) == {p \in OlderIn(q, l) : p[1] # w /\ p[2] # w}

\* The end of wd_start, as WatchdogAbs sees it.
LEMMA InsertTimes ==
    ASSUME NEW q, NEW l, ListOK(q, l), NEW w \in Dog, w \notin ToSet(q), NEW d \in Nat, d > 0
    PROVE  /\ TimesOf(InsertedList(q, l, w, d), InsertedLag(q, l, w, d)) = TimesMore(q, l, w, d)
           /\ OlderIn(InsertedList(q, l, w, d), InsertedLag(q, l, w, d)) = OlderMore(q, l, w, d)
<1> DEFINE q2 == InsertedList(q, l, w, d)
           l2 == InsertedLag(q, l, w, d)
<1>1. ListOK(q2, l2) /\ ToSet(q2) = ToSet(q) \cup {w}
  BY InsertKeeps
<1>2. PICK k, given : PutIn(q, l, k, w, given, q2, l2, d) /\ PutBefore(q, l, k, d)
  BY InsertPuts
<1> HIDE DEF q2, l2
<1>3. /\ Expiry(q2, l2, w) = d
      /\ \A u \in ToSet(q) : Expiry(q2, l2, u) = Expiry(q, l, u) /\ (Ahead(q2, u, w) <=> Expiry(q, l, u) <= d)
      /\ \A u, v \in ToSet(q) : Ahead(q2, u, v) <=> Ahead(q, u, v)
  BY <1>2, PutExpiries
<1>4. TimesOf(q2, l2) = [u \in ToSet(q) \cup {w} |-> IF u = w THEN d ELSE TimesOf(q, l)[u]]
  BY <1>1, <1>3 DEF TimesOf
<1>5. ~Ahead(q2, w, w) /\ \A u \in ToSet(q) : Expiry(q, l, u) = d => ~Ahead(q2, w, u)
  <2>1. \A u \in ToSet(q2) : IndexOf(q2, u) \in Nat
    <3>1. ASSUME NEW u \in ToSet(q2) PROVE IndexOf(q2, u) \in Nat
      <4>1. PICK i \in 1 .. Len(q2) : q2[i] = u
        BY <1>1, EntryOf
      <4> QED BY <1>1, <4>1, PlaceOfEntry
    <3> QED BY <3>1
  <2>2. \A u, v \in ToSet(q2) : ~(Ahead(q2, u, v) /\ Ahead(q2, v, u))
    BY <2>1 DEF Ahead
  <2>3. ASSUME NEW u \in ToSet(q), Expiry(q, l, u) = d PROVE Ahead(q2, u, w)
    <3>1. Expiry(q, l, u) <= d
      BY <2>3
    <3> QED BY <1>3, <3>1
  <2> QED BY <1>1, <2>2, <2>3
<1>6. ASSUME NEW p
      PROVE  p \in OlderIn(q2, l2)
             <=> p \in OlderIn(q, l) \cup {<<u, w>> : u \in {v \in ToSet(q) : TimesOf(q, l)[v] = d}}
  <2>1. CASE \E u, v \in ToSet(q) \cup {w} : p = <<u, v>>
    <3>1. PICK u \in ToSet(q) \cup {w}, v \in ToSet(q) \cup {w} : p = <<u, v>>
      BY <2>1
    <3>2. p \in OlderIn(q2, l2) <=> Expiry(q2, l2, u) = Expiry(q2, l2, v) /\ Ahead(q2, u, v)
      BY <1>1, <3>1 DEF OlderIn
    <3>3. p \in OlderIn(q, l)
          <=> u \in ToSet(q) /\ v \in ToSet(q) /\ Expiry(q, l, u) = Expiry(q, l, v) /\ Ahead(q, u, v)
      BY <3>1 DEF OlderIn
    <3>4. p \in {<<x, w>> : x \in {y \in ToSet(q) : TimesOf(q, l)[y] = d}}
          <=> v = w /\ u \in ToSet(q) /\ Expiry(q, l, u) = d
      BY <3>1 DEF TimesOf
    <3>5. Expiry(q, l, u) = d => Expiry(q, l, u) <= d
      OBVIOUS
    <3>6. p \in OlderIn(q2, l2) <=> p \in OlderIn(q, l) \/ (v = w /\ u \in ToSet(q) /\ Expiry(q, l, u) = d)
      BY <1>3, <1>5, <3>1, <3>2, <3>3, <3>5, Zenon
    <3> QED BY <3>4, <3>6
  <2>2. CASE ~\E u, v \in ToSet(q) \cup {w} : p = <<u, v>>
    BY <1>1, <2>2 DEF OlderIn
  <2> QED BY <2>1, <2>2
<1>7. OlderIn(q2, l2) = OlderIn(q, l) \cup {<<u, w>> : u \in {v \in ToSet(q) : TimesOf(q, l)[v] = d}}
  BY <1>6
<1> QED BY <1>4, <1>7 DEF q2, l2, TimesMore, OlderMore

\* wd_cancel is the reverse: the list before it is the list after it with the
\* entry put in.
LEMMA CancelPuts ==
    ASSUME NEW q, NEW l, ListOK(q, l), NEW w \in ToSet(q)
    PROVE  \E k, d : PutIn(CancelledList(q, w), CancelledLag(q, l, w), k, w, l[w], q, l, d)
<1>0. q \in Seq(Dog) /\ IsInjective(q) /\ l \in [Dog -> Nat] /\ Len(q) \in Nat /\ DOMAIN q = 1 .. Len(q)
      /\ \A j \in 1 .. Len(q) : q[j] \in Dog /\ l[q[j]] \in Nat
  BY DEF ListOK
<1>1. PICK i \in 1 .. Len(q) : q[i] = w /\ RemoveFirst(q, w) = RemoveAt(q, i)
  BY <1>0, RemoveFirstEntry
<1>2. IndexOf(q, w) = i
  BY <1>0, <1>1 DEF IndexOf, IsInjective
<1> DEFINE q2 == CancelledList(q, w)
           l2 == CancelledLag(q, l, w)
           k == i - 1
           d == Now(q2, l2, k) + l[w]
<1>3. ListOK(q2, l2)
  BY CancelKeeps
<1>4. l2 = IF i < Len(q) THEN [[l EXCEPT ![w] = 0] EXCEPT ![q[i + 1]] = @ + l[w]] ELSE [l EXCEPT ![w] = 0]
  BY <1>2 DEF CancelledLag
<1>5. Len(q2) = Len(q) - 1 /\ \A j \in 1 .. Len(q) - 1 : q2[j] = IF j < i THEN q[j] ELSE q[j + 1]
  <2> DEFINE r == RemoveAt(q, i)
  <2>0. q \in Seq(Dog)
    BY <1>0
  <2>1. Len(r) = Len(q) - 1 /\ \A j \in 1 .. Len(q) - 1 : r[j] = IF j < i THEN q[j] ELSE q[j + 1]
    BY <2>0, RemoveAtEntries
  <2>2. q2 = r
    BY <1>1 DEF CancelledList
  <2> HIDE DEF r, q2
  <2> QED BY <2>1, <2>2
<1> HIDE DEF q2, l2
<1>6. /\ k \in Nat /\ k \in 0 .. Len(q2) /\ k + 1 = i /\ Len(q) = Len(q2) + 1 /\ Len(q2) \in Nat
      /\ w \in Dog /\ l[w] \in Nat
  BY <1>0, <1>1, <1>5
<1> HIDE DEF k
<1>7. Now(q2, l2, k) \in Nat
  BY <1>3, <1>6, NowTypes
<1>8. ASSUME NEW j \in 1 .. Len(q2)
      PROVE  /\ j <= k => q[j] = q2[j]
             /\ j > k => q[j + 1] = q2[j]
             /\ j # k + 1 => l[q2[j]] = l2[q2[j]]
             /\ j = k + 1 => l[q2[j]] = l2[q2[j]] - l[w]
  <2>1. j \in Nat /\ j \in 1 .. Len(q) - 1 /\ j \in 1 .. Len(q) /\ j + 1 \in 1 .. Len(q)
    BY <1>0, <1>6
  <2>2. (j <= k <=> j < i) /\ (j = k + 1 <=> j = i) /\ k + 1 = i /\ (j > k <=> ~(j < i))
    BY <1>6, <2>1
  <2>3. (j < i => q2[j] = q[j]) /\ (~(j < i) => q2[j] = q[j + 1])
    BY <1>5, <2>1
  <2>4. CASE j < i
    <3>1. j # i + 1 /\ j # i
      BY <2>1, <2>4
    <3>2. q[j] # w /\ (i < Len(q) => q[j] # q[i + 1])
      <4>1. i < Len(q) => i + 1 \in 1 .. Len(q)
        BY <1>0
      <4> QED BY <1>0, <1>1, <2>1, <3>1, <4>1 DEF IsInjective
    <3>3. q[j] \in Dog
      BY <1>0, <2>1
    <3>4. l2[q[j]] = l[q[j]]
      <4>1. [l EXCEPT ![w] = 0][q[j]] = l[q[j]]
        BY <1>0, <3>2, <3>3
      <4> QED BY <1>0, <1>4, <3>2, <3>3, <4>1
    <3> QED BY <2>1, <2>2, <2>3, <2>4, <3>1, <3>4
  <2>5. CASE j = i
    <3>1. i < Len(q) /\ i + 1 \in 1 .. Len(q) /\ i + 1 # i
      BY <1>0, <2>1, <2>5
    <3>2. q[i + 1] # w /\ q[i + 1] \in Dog /\ l[q[i + 1]] \in Nat
      BY <1>0, <1>1, <3>1 DEF IsInjective
    <3>3. l2[q[i + 1]] = l[q[i + 1]] + l[w]
      <4>1. [l EXCEPT ![w] = 0][q[i + 1]] = l[q[i + 1]] /\ [l EXCEPT ![w] = 0] \in [Dog -> Nat]
        BY <1>0, <3>2
      <4> QED BY <1>4, <3>1, <3>2, <4>1
    <3>4. l[q[i + 1]] = l2[q[i + 1]] - l[w]
      BY <1>6, <3>2, <3>3
    <3>5. q2[j] = q[i + 1] /\ ~(j < i)
      BY <2>1, <2>3, <2>5
    <3> QED BY <2>2, <2>5, <3>4, <3>5
  <2>6. CASE j > i
    <3>1. j + 1 # i /\ j + 1 # i + 1 /\ j # i /\ ~(j < i)
      BY <2>1, <2>6
    <3>2. q[j + 1] # w /\ (i < Len(q) => q[j + 1] # q[i + 1])
      <4>1. i < Len(q) => i + 1 \in 1 .. Len(q)
        BY <1>0
      <4> QED BY <1>0, <1>1, <2>1, <3>1, <4>1 DEF IsInjective
    <3>3. q[j + 1] \in Dog
      BY <1>0, <2>1
    <3>4. l2[q[j + 1]] = l[q[j + 1]]
      <4>1. [l EXCEPT ![w] = 0][q[j + 1]] = l[q[j + 1]]
        BY <1>0, <3>2, <3>3
      <4> QED BY <1>0, <1>4, <3>2, <3>3, <4>1
    <3> QED BY <2>2, <2>3, <3>1, <3>4
  <2> QED BY <2>1, <2>4, <2>5, <2>6
<1>9. Put(q2, l2, k, w, l[w], q, l)
  BY <1>1, <1>3, <1>6, <1>8 DEF Put
<1>10. PutFor(q2, l2, k, l[w], d) /\ d \in Nat
  BY <1>6, <1>7 DEF PutFor
<1> HIDE DEF d
<1>11. PutIn(q2, l2, k, w, l[w], q, l, d)
  BY <1>6, <1>9, <1>10 DEF PutIn
<1> QED BY <1>11, Zenon DEF q2, l2

\* wd_cancel, as WatchdogAbs sees it.
LEMMA CancelTimes ==
    ASSUME NEW q, NEW l, ListOK(q, l), NEW w \in ToSet(q)
    PROVE  /\ TimesOf(CancelledList(q, w), CancelledLag(q, l, w)) = TimesLess(q, l, w)
           /\ OlderIn(CancelledList(q, w), CancelledLag(q, l, w)) = OlderLess(q, l, w)
<1> DEFINE q2 == CancelledList(q, w)
           l2 == CancelledLag(q, l, w)
<1>1. ListOK(q2, l2) /\ ToSet(q2) = ToSet(q) \ {w}
  BY CancelKeeps
<1>2. PICK k, d : PutIn(q2, l2, k, w, l[w], q, l, d)
  BY CancelPuts
<1> HIDE DEF q2, l2
<1>3. /\ \A u \in ToSet(q2) : Expiry(q, l, u) = Expiry(q2, l2, u)
      /\ \A u, v \in ToSet(q2) : Ahead(q, u, v) <=> Ahead(q2, u, v)
  BY <1>2, PutExpiries
<1>4. TimesOf(q2, l2) = [u \in ToSet(q) \ {w} |-> TimesOf(q, l)[u]]
  BY <1>1, <1>3 DEF TimesOf
<1>5. ASSUME NEW p PROVE p \in OlderIn(q2, l2) <=> p \in OlderIn(q, l) /\ p[1] # w /\ p[2] # w
  <2>1. CASE \E u, v \in ToSet(q) : p = <<u, v>>
    <3>1. PICK u \in ToSet(q), v \in ToSet(q) : p = <<u, v>>
      BY <2>1
    <3>2. p \in OlderIn(q2, l2)
          <=> u # w /\ v # w /\ Expiry(q2, l2, u) = Expiry(q2, l2, v) /\ Ahead(q2, u, v)
      BY <1>1, <3>1 DEF OlderIn
    <3>3. p \in OlderIn(q, l) <=> Expiry(q, l, u) = Expiry(q, l, v) /\ Ahead(q, u, v)
      BY <3>1 DEF OlderIn
    <3>4. p[1] = u /\ p[2] = v
      BY <3>1
    <3> QED BY <1>1, <1>3, <3>2, <3>3, <3>4
  <2>2. CASE ~\E u, v \in ToSet(q) : p = <<u, v>>
    BY <1>1, <2>2 DEF OlderIn
  <2> QED BY <2>1, <2>2
<1>6. OlderIn(q2, l2) = {p \in OlderIn(q, l) : p[1] # w /\ p[2] # w}
  BY <1>5
<1> QED BY <1>4, <1>6 DEF q2, l2, TimesLess, OlderLess

\* wd_timer.
TickedLag(q, l) == [l EXCEPT ![Head(q)] = l[Head(q)] - 1]

TimesTicked(q, l) == [w \in ToSet(q) |-> TimesOf(q, l)[w] - 1]

\* Every watchdog is a tick nearer to its expiry, and none had reached it.
LEMMA TickTimes ==
    ASSUME NEW q, NEW l, ListOK(q, l), Waits(q, l), q # <<>>,
           NEW l2, l2 = TickedLag(q, l)
    PROVE  /\ ListOK(q, l2)
           /\ \A w \in ToSet(q) : TimesOf(q, l)[w] > 0
           /\ TimesOf(q, l2) = TimesTicked(q, l)
           /\ OlderIn(q, l2) = OlderIn(q, l)
<1>0. q \in Seq(Dog) /\ IsInjective(q) /\ l \in [Dog -> Nat] /\ Len(q) \in Nat /\ DOMAIN q = 1 .. Len(q)
      /\ \A j \in 1 .. Len(q) : q[j] \in Dog /\ l[q[j]] \in Nat
  BY DEF ListOK
<1>1. Head(q) = q[1] /\ Head(q) \in Dog /\ Len(q) >= 1 /\ 1 \in 1 .. Len(q)
  BY <1>0, HeadIsEntry
<1>2. l[q[1]] > 0 /\ l[q[1]] \in Nat /\ l2[q[1]] = l[q[1]] - 1
  BY <1>0, <1>1 DEF Waits, TickedLag
<1>3. l2 \in [Dog -> Nat] /\ \A j \in 1 .. Len(q) : j # 1 => l2[q[j]] = l[q[j]]
  <2>1. l[Head(q)] - 1 \in Nat
    BY <1>1, <1>2
  <2>2. l2 \in [Dog -> Nat]
    BY <1>0, <1>1, <2>1 DEF TickedLag
  <2>3. ASSUME NEW j \in 1 .. Len(q), j # 1 PROVE l2[q[j]] = l[q[j]]
    <3>1. q[j] # q[1] /\ q[j] \in Dog
      BY <1>0, <1>1, <2>3 DEF IsInjective
    <3> QED BY <1>0, <1>1, <3>1 DEF TickedLag
  <2> QED BY <2>2, <2>3
<1>4. ListOK(q, l2)
  BY <1>0, <1>3 DEF ListOK
<1>5. PICK o, m, n : o = 1 /\ m = -1 /\ n = Len(q) - 1
  OBVIOUS
<1>6. Now(q, l, 1) = l[q[1]] /\ Now(q, l2, 1) = l2[q[1]]
  <2>1. 0 \in Nat /\ 0 + 1 = 1
    OBVIOUS
  <2>2. Now(q, l, 0 + 1) = Now(q, l, 0) + l[q[0 + 1]] /\ Now(q, l2, 0 + 1) = Now(q, l2, 0) + l2[q[0 + 1]]
    BY <2>1, NowNext, Zenon
  <2>3. Now(q, l, 0) = 0 /\ Now(q, l2, 0) = 0
    BY NowSteps
  <2> QED BY <1>2, <2>1, <2>2, <2>3
<1>7. Shifted(q, l, o, q, l2, o, n, m)
  <2>1. o \in Nat /\ n \in Nat /\ o + n <= Len(q) /\ m \in Int
    BY <1>0, <1>1, <1>5
  <2>2. Now(q, l2, o) = Now(q, l, o) + m
    BY <1>2, <1>5, <1>6
  <2>3. ASSUME NEW i \in 1 .. n PROVE l2[q[o + i]] = l[q[o + i]]
    <3>1. o + i \in 1 .. Len(q) /\ o + i # 1
      BY <1>0, <1>5
    <3> QED BY <1>3, <3>1
  <2> QED BY <1>4, <2>1, <2>2, <2>3 DEF Shifted
<1>8. \A i \in 0 .. n : Now(q, l2, o + i) = Now(q, l, o + i) + m
  BY <1>7, NowShift
<1>9. ASSUME NEW w \in ToSet(q)
      PROVE  Expiry(q, l2, w) = Expiry(q, l, w) - 1 /\ Expiry(q, l, w) \in Nat /\ Expiry(q, l, w) > 0
  <2>1. PICK j \in 1 .. Len(q) : q[j] = w
    BY EntryOf
  <2>2. Expiry(q, l, w) = Now(q, l, j) /\ Expiry(q, l2, w) = Now(q, l2, j)
    BY <1>4, <2>1, PlaceOfEntry
  <2>3. j - 1 \in 0 .. n /\ o + (j - 1) = j /\ j \in 0 .. Len(q) /\ 1 \in 0 .. Len(q) /\ 1 <= j
    BY <1>0, <1>5
  <2>4. Now(q, l2, o + (j - 1)) = Now(q, l, o + (j - 1)) + m
    BY <1>8, <2>3
  <2>5. Now(q, l, j) \in Nat /\ Now(q, l, 1) <= Now(q, l, j)
    BY <2>3, NowTypes, NowAscends
  <2>6. Now(q, l2, j) = Now(q, l, j) - 1
    BY <1>5, <2>3, <2>4, <2>5
  <2> QED BY <1>2, <1>6, <2>2, <2>5, <2>6
<1>10. \A w \in ToSet(q) : TimesOf(q, l)[w] > 0
  BY <1>9 DEF TimesOf
<1>11. TimesOf(q, l2) = TimesTicked(q, l)
  BY <1>9 DEF TimesOf, TimesTicked
<1>12. ASSUME NEW p \in ToSet(q) \X ToSet(q)
       PROVE  Expiry(q, l2, p[1]) = Expiry(q, l2, p[2]) <=> Expiry(q, l, p[1]) = Expiry(q, l, p[2])
  <2>1. p[1] \in ToSet(q) /\ p[2] \in ToSet(q)
    OBVIOUS
  <2>2. Expiry(q, l2, p[1]) = Expiry(q, l, p[1]) - 1 /\ Expiry(q, l, p[1]) \in Nat
    BY <1>9, <2>1
  <2>3. Expiry(q, l2, p[2]) = Expiry(q, l, p[2]) - 1 /\ Expiry(q, l, p[2]) \in Nat
    BY <1>9, <2>1
  <2> QED BY <2>2, <2>3
<1>13. OlderIn(q, l2) = OlderIn(q, l)
  BY <1>12 DEF OlderIn
<1> QED BY <1>4, <1>10, <1>11, <1>13

\* wd_expiration: the first entry has run out, and none was started before it to
\* run out with it.
LEMMA HeadTimes ==
    ASSUME NEW q, NEW l, ListOK(q, l), q # <<>>, l[Head(q)] <= 0
    PROVE  /\ Head(q) \in ToSet(q) /\ TimesOf(q, l)[Head(q)] = 0
           /\ \A u : <<u, Head(q)>> \notin OlderIn(q, l)
           /\ Tail(q) = CancelledList(q, Head(q))
<1>0. q \in Seq(Dog) /\ IsInjective(q) /\ l \in [Dog -> Nat] /\ Len(q) \in Nat
  BY DEF ListOK
<1>1. Head(q) = q[1] /\ Head(q) \in Dog /\ 1 \in 1 .. Len(q) /\ Head(q) \in ToSet(q)
  BY <1>0, HeadIsEntry
<1>2. IndexOf(q, Head(q)) = 1 /\ Expiry(q, l, Head(q)) = Now(q, l, 1)
  BY <1>1, PlaceOfEntry
<1>3. Now(q, l, 1) = 0
  <2>1. 0 \in Nat /\ 0 + 1 = 1
    OBVIOUS
  <2>2. Now(q, l, 0 + 1) = Now(q, l, 0) + l[q[0 + 1]]
    BY <2>1, NowNext, Zenon
  <2>3. Now(q, l, 0) = 0
    BY NowSteps
  <2>4. l[q[1]] = 0
    BY <1>0, <1>1
  <2> QED BY <2>1, <2>2, <2>3, <2>4
<1>4. ASSUME NEW u, <<u, Head(q)>> \in OlderIn(q, l) PROVE FALSE
  <2>1. u \in ToSet(q) /\ IndexOf(q, u) < 1
    BY <1>2, <1>4 DEF OlderIn, Ahead
  <2>2. PICK i \in 1 .. Len(q) : q[i] = u
    BY <2>1, EntryOf
  <2>3. IndexOf(q, u) = i
    BY <2>2, PlaceOfEntry
  <2> QED BY <1>0, <2>1, <2>2, <2>3
<1>5. Tail(q) = CancelledList(q, Head(q))
  BY <1>0, TailElements DEF CancelledList
<1> QED BY <1>1, <1>2, <1>3, <1>4, <1>5 DEF TimesOf

\* The variables of WatchdogAbs, in a state and after a step.
LEMMA AbsState ==
    /\ Time = TimesOf(active, lag) /\ Older = OlderIn(active, lag)
    /\ Time' = TimesOf(active', lag') /\ Older' = OlderIn(active', lag')
<1>1. \A w \in ToSet(active) : WdGettime(w) = Expiry(active, lag, w)
  BY DEF WdGettime, IsActive, Expiry
<1>2. \A w \in ToSet(active') : WdGettime(w)' = Expiry(active', lag', w)
  BY DEF WdGettime, IsActive, Expiry
<1>3. Time = TimesOf(active, lag)
  BY <1>1 DEF Time, TimesOf
<1>4. Time' = TimesOf(active', lag')
  BY <1>2 DEF Time, TimesOf
<1>5. ASSUME NEW p \in ToSet(active) \X ToSet(active)
      PROVE  WdGettime(p[1]) = Expiry(active, lag, p[1]) /\ WdGettime(p[2]) = Expiry(active, lag, p[2])
  BY <1>1
<1>6. ASSUME NEW p \in ToSet(active') \X ToSet(active')
      PROVE  WdGettime(p[1])' = Expiry(active', lag', p[1]) /\ WdGettime(p[2])' = Expiry(active', lag', p[2])
  BY <1>2
<1>7. Older = OlderIn(active, lag)
  BY <1>5 DEF Older, OlderIn, Ahead
<1>8. Older' = OlderIn(active', lag')
  BY <1>6 DEF Older, OlderIn, Ahead
<1> QED BY <1>3, <1>4, <1>7, <1>8

\* What WatchdogAbs says of a cancelled watchdog holds for one that does not run.
LEMMA AbsentTimes ==
    ASSUME NEW q, NEW l, NEW w, w \notin ToSet(q)
    PROVE  TimesOf(q, l) = TimesLess(q, l, w) /\ OlderIn(q, l) = OlderLess(q, l, w)
<1>1. ToSet(q) \ {w} = ToSet(q)
  OBVIOUS
<1>2. TimesOf(q, l) = [u \in ToSet(q) \ {w} |-> TimesOf(q, l)[u]]
  BY <1>1 DEF TimesOf
<1>3. \A p \in OlderIn(q, l) : p[1] # w /\ p[2] # w
  BY DEF OlderIn
<1> QED BY <1>2, <1>3 DEF TimesLess, OlderLess

\* A handler may return.
HandlerMayReturn == Handler' \in {Handler, NoDog}

\* A step that leaves the list alone.
LEMMA AbsSame ==
    ASSUME UNCHANGED <<active, lag>>, HandlerMayReturn
    PROVE  [Abs!Next]_(Abs!vars)
<1>1. UNCHANGED <<Time, Older>>
  BY AbsState
<1> QED BY <1>1 DEF HandlerMayReturn, Abs!Next, Abs!Return, Abs!vars

\* wd_cancel by a task, or by a handler that may return with it.
LEMMA AbsCancels ==
    ASSUME TimerInv, NEW w \in Dog, WdCancel(w), HandlerMayReturn
    PROVE  [Abs!Next]_(Abs!vars)
<1>1. CASE ~IsActive(w)
  BY <1>1, AbsSame DEF WdCancel
<1>2. CASE IsActive(w)
  <2>1. active' = CancelledList(active, w) /\ lag' = CancelledLag(active, lag, w) /\ w \in ToSet(active)
    BY <1>2 DEF WdCancel, IsActive
  <2>2. TimesOf(active', lag') = TimesLess(active, lag, w) /\ OlderIn(active', lag') = OlderLess(active, lag, w)
    BY <2>1, ActiveList, CancelTimes
  <2>3. DOMAIN Time = ToSet(active)
    BY DEF Time
  <2>4. Abs!Cancel(w)
    BY <2>2, <2>3, AbsState
       DEF HandlerMayReturn, TimesLess, OlderLess, Abs!Cancel, Abs!Removed, Abs!Running, Abs!Without, Abs!MayReturn
  <2> QED BY <2>4 DEF Abs!Next
<1> QED BY <1>1, <1>2

\* wd_start, of a watchdog that runs or does not.
LEMMA AbsStarts ==
    ASSUME TimerInv, NEW w \in Dog, NEW d \in 0 .. MaxDelay, WdStart(w, d), HandlerMayReturn
    PROVE  [Abs!Next]_(Abs!vars)
<1> DEFINE q == IF IsActive(w) THEN CancelledList(active, w) ELSE active
           l == IF IsActive(w) THEN CancelledLag(active, lag, w) ELSE lag
<1>1. /\ ListOK(q, l) /\ w \notin ToSet(q) /\ ToSet(q) = ToSet(active) \ {w}
      /\ TimesOf(q, l) = TimesLess(active, lag, w) /\ OlderIn(q, l) = OlderLess(active, lag, w)
  <2>1. CASE IsActive(w)
    BY <2>1, ActiveList, CancelKeeps, CancelTimes DEF IsActive
  <2>2. CASE ~IsActive(w)
    <3>1. q = active /\ l = lag /\ w \notin ToSet(active)
      BY <2>2 DEF IsActive
    <3> HIDE DEF q, l
    <3> QED BY <3>1, ActiveList, AbsentTimes
  <2> QED BY <2>1, <2>2
<1>2. active' = InsertedList(q, l, w, Counted(d)) /\ lag' = InsertedLag(q, l, w, Counted(d))
  BY DEF WdStart
<1>3. Counted(d) = d + 1 /\ Counted(d) \in Nat /\ Counted(d) > 0 /\ d \in Nat
  BY WatchdogConstants DEF Counted
<1> HIDE DEF q, l
<1>4. TimesOf(active', lag') = TimesMore(q, l, w, d + 1) /\ OlderIn(active', lag') = OlderMore(q, l, w, d + 1)
  <2>1. /\ TimesOf(active', lag') = TimesMore(q, l, w, Counted(d))
        /\ OlderIn(active', lag') = OlderMore(q, l, w, Counted(d))
    BY <1>1, <1>2, <1>3, InsertTimes
  <2> QED BY <1>3, <2>1
<1>5. DOMAIN Time = ToSet(active)
  BY DEF Time
<1>6. Time' = [u \in DOMAIN Time \cup {w} |-> IF u = w THEN d + 1 ELSE Time[u]]
  BY <1>1, <1>4, <1>5, AbsState DEF TimesMore, TimesLess
<1>7. Older' = {p \in Older : p[1] # w /\ p[2] # w} \cup {<<u, w>> : u \in {v \in DOMAIN Time \ {w} : Time[v] = d + 1}}
  <2>1. {v \in ToSet(q) : TimesOf(q, l)[v] = d + 1} = {v \in DOMAIN Time \ {w} : Time[v] = d + 1}
    BY <1>1, <1>5, AbsState DEF TimesLess
  <2> QED BY <1>1, <1>4, <2>1, AbsState DEF OlderMore, OlderLess
<1>8. Abs!Start(w, d)
  BY <1>6, <1>7 DEF HandlerMayReturn, Abs!Start, Abs!Running, Abs!Without, Abs!MayReturn
<1> QED BY <1>8 DEF Abs!Next

\* wd_timer outside of handlers.
LEMMA AbsTicks ==
    ASSUME TimerInv, Tick
    PROVE  [Abs!Next]_(Abs!vars)
<1>0. /\ Preemptible /\ active # <<>> /\ active' = active
      /\ lag' = TickedLag(active, lag)
      /\ called' \in {NoDog, "no"}
  BY DEF Tick, WdTimer, TickedLag
<1>1. ListOK(active, lag) /\ Waits(active, lag) /\ called \notin Dog /\ called' \notin Dog
  BY <1>0, Undisturbed, ActiveList, WatchdogConstants
<1>2. /\ \A w \in ToSet(active) : TimesOf(active, lag)[w] > 0
      /\ TimesOf(active, lag') = TimesTicked(active, lag)
      /\ OlderIn(active, lag') = OlderIn(active, lag)
  <2>1. PICK l2 : l2 = lag'
    OBVIOUS
  <2>2. /\ \A w \in ToSet(active) : TimesOf(active, lag)[w] > 0
        /\ TimesOf(active, l2) = TimesTicked(active, lag)
        /\ OlderIn(active, l2) = OlderIn(active, lag)
    BY <1>0, <1>1, <2>1, TickTimes
  <2> QED BY <2>1, <2>2
<1>3. Handler = NoDog /\ Handler' = NoDog
  BY <1>1 DEF Handler
<1>4. DOMAIN Time = ToSet(active)
  BY DEF Time
<1>5. Abs!Tick
  BY <1>0, <1>2, <1>3, <1>4, AbsState DEF TimesTicked, Abs!Tick, Abs!Running
<1> QED BY <1>5 DEF Abs!Next

\* wd_expiration takes the first entry.
LEMMA AbsExpires ==
    ASSUME TimerInv, Expire
    PROVE  [Abs!Next]_(Abs!vars)
<1> DEFINE h == Head(active)
<1>0. /\ called = NoDog /\ active # <<>> /\ lag[h] <= 0
      /\ active' = Tail(active) /\ lag' = CancelledLag(active, lag, h) /\ called' = h
  BY DEF Expire, WdExpiration
<1>1. ListOK(active, lag)
  BY ActiveList
<1>2. /\ h \in ToSet(active) /\ TimesOf(active, lag)[h] = 0
      /\ \A u : <<u, h>> \notin OlderIn(active, lag)
      /\ Tail(active) = CancelledList(active, h)
  BY <1>0, <1>1, HeadTimes
<1> HIDE DEF h
<1>3. TimesOf(active', lag') = TimesLess(active, lag, h) /\ OlderIn(active', lag') = OlderLess(active, lag, h)
  <2>1. /\ TimesOf(CancelledList(active, h), CancelledLag(active, lag, h)) = TimesLess(active, lag, h)
        /\ OlderIn(CancelledList(active, h), CancelledLag(active, lag, h)) = OlderLess(active, lag, h)
    BY <1>1, <1>2, CancelTimes
  <2> QED BY <1>0, <1>2, <2>1
<1>4. h \in Dog /\ Handler = NoDog /\ Handler' = h
  <2>1. h \in Dog
    BY <1>1, <1>2, CancelKeeps
  <2> QED BY <1>0, <2>1, WatchdogConstants DEF Handler
<1>5. DOMAIN Time = ToSet(active)
  BY DEF Time
<1>6. Abs!Removed(h)
  BY <1>3, <1>5, AbsState DEF TimesLess, OlderLess, Abs!Removed, Abs!Running, Abs!Without
<1>7. Abs!RunOut(h)
  BY <1>2, <1>4, <1>5, <1>6, AbsState DEF Abs!RunOut, Abs!Running
<1> QED BY <1>4, <1>7 DEF Abs!Next

\* A step that does not end a handler.
LEMMA HandlerStays ==
    ASSUME UNCHANGED called
    PROVE  HandlerMayReturn
BY DEF HandlerMayReturn, Handler

\* A handler that ends returns.
LEMMA HandlerEnds ==
    ASSUME HandlerReturns
    PROVE  HandlerMayReturn
<1>1. called' \in {NoDog, "no"} /\ called' \notin Dog
  BY WatchdogConstants DEF HandlerReturns
<1> QED BY <1>1 DEF HandlerMayReturn, Handler

\* The calls of a driver, and the interrupt.
LEMMA AbsInterrupt ==
    ASSUME TimerInv, DriverCall \/ Interrupt
    PROVE  [Abs!Next]_(Abs!vars)
<1>1. CASE DriverCall
  <2>1. PICK w \in StaticDog : DriverCancel(w) \/ \E d \in 0 .. MaxDelay : DriverStart(w, d)
    BY <1>1 DEF DriverCall
  <2>2. w \in Dog
    BY StaticDogs
  <2>3. HandlerMayReturn /\ (WdCancel(w) \/ \E d \in 0 .. MaxDelay : WdStart(w, d))
    BY <2>1, HandlerStays DEF DriverCancel, DriverStart
  <2> QED BY <2>2, <2>3, AbsCancels, AbsStarts
<1>2. CASE Tick
  BY <1>2, AbsTicks
<1>3. CASE Expire
  BY <1>3, AbsExpires
<1>4. ASSUME NEW t \in Timer, TimerTimeout(t) PROVE [Abs!Next]_(Abs!vars)
  <2>1. called \in Dog \ StaticDog /\ parm[called] = t /\ HandlerReturns /\ t \notin Task
    BY <1>4, TimerConstants DEF TimerTimeout
  <2>2. UsersOf(called) = {t}
    BY <2>1 DEF TimerInv, OwnInv, OwnOK
  <2>3. wdog[t] \in Dog /\ period[t] \in 0 .. MaxDelay
    <3>1. t \in UsersOf(called)
      BY <2>2
    <3> QED BY <2>1, <3>1, InUsersOf DEF TimerInv, TypeOK
  <2>4. WdStart(wdog[t], period[t]) \/ UNCHANGED <<active, lag>> \/ WdCancel(wdog[t])
    BY <1>4 DEF TimerTimeout, WdDelete
  <2> QED BY <2>1, <2>3, <2>4, HandlerEnds, AbsStarts, AbsSame, AbsCancels
<1>5. ASSUME NEW o \in Task, WaitTimeout(o) PROVE [Abs!Next]_(Abs!vars)
  BY <1>5, HandlerEnds, AbsSame DEF WaitTimeout
<1>6. CASE DriverTimeout
  <2>1. /\ HandlerReturns
        /\ \/ \E w \in StaticDog : WdCancel(w) \/ \E d \in 0 .. MaxDelay : WdStart(w, d)
           \/ UNCHANGED <<active, lag>>
    BY <1>6 DEF DriverTimeout
  <2> QED BY <2>1, StaticDogs, HandlerEnds, AbsStarts, AbsSame, AbsCancels
<1> QED BY <1>1, <1>2, <1>3, <1>4, <1>5, <1>6 DEF Interrupt

\* The steps of tasks that start or cancel nothing.
LEMMA AbsQuiet ==
    ASSUME NEW o, \/ TimerCreate(o) \/ TimerAllocate(o) \/ TimerFree(o) \/ TaskCreate(o)
                  \/ \E t \in Timer : TimerDelete(o, t)
    PROVE  [Abs!Next]_(Abs!vars)
<1>1. UNCHANGED <<active, lag, called>>
  BY DEF TimerCreate, TimerAllocate, TimerFree, TaskCreate, TimerDelete, dogVars
<1> QED BY <1>1, HandlerStays, AbsSame

\* The steps of tasks that cancel a watchdog, or find none to cancel.
LEMMA AbsCalls ==
    ASSUME TimerInv, NEW o \in Task,
           \/ TimerAllocateFails(o) \/ TimerRelease(o) \/ TimedWaitEnd(o) \/ WdRecover(o) \/ TimerDeleteall(o)
           \/ \E t \in Timer : TimerDisarm(o, t) \/ \E d, interval \in 0 .. MaxDelay : TimerSettime(o, t, d, interval)
    PROVE  [Abs!Next]_(Abs!vars)
<1>0. \A t \in alloctimers : wdog[t] \in Dog
  BY DEF TimerInv, TimersInv
<1>1. \A t \in Mine(o) : wdog[t] \in Dog
  BY <1>0 DEF Mine
<1>2. waitdog[o] # NoDog => waitdog[o] \in Dog
  BY DEF TimerInv, TypeOK
<1>3. pc[o] = "create" => pdog[o] \in Dog
  BY DEF TimerInv, TypeOK, CallInv, CallOK
<1>4. Ready(o) /\ pc[o] = "release" => ptimer[o] \in Mine(o)
  BY DEF TimerInv, CallInv, CallOK, Ready
<1>5. UNCHANGED called
  BY DEF TimerAllocateFails, TimerRelease, TimedWaitEnd, WdRecover, TimerDeleteall, TimerDisarm, TimerSettime, dogVars
<1>6. (\E w \in Dog : WdCancel(w)) \/ UNCHANGED <<active, lag>>
  <2>1. CASE TimerAllocateFails(o)
    BY <1>3, <2>1 DEF TimerAllocateFails, WdDelete
  <2>2. CASE TimerRelease(o)
    BY <1>1, <1>4, <2>2 DEF TimerRelease, WdDelete
  <2>3. CASE TimedWaitEnd(o)
    BY <1>2, <2>3 DEF TimedWaitEnd, WdDelete
  <2>4. CASE WdRecover(o)
    BY <1>2, <2>4 DEF WdRecover, WdDelete
  <2>5. CASE TimerDeleteall(o)
    BY <1>1, <2>5 DEF TimerDeleteall, WdDelete, dogVars
  <2>6. ASSUME NEW t \in Timer, TimerDisarm(o, t) \/ \E d, interval \in 0 .. MaxDelay : TimerSettime(o, t, d, interval)
        PROVE  \E w \in Dog : WdCancel(w)
    BY <1>1, <2>6 DEF TimerDisarm, TimerSettime
  <2> QED BY <2>1, <2>2, <2>3, <2>4, <2>5, <2>6
<1> QED BY <1>5, <1>6, HandlerStays, AbsCancels, AbsSame

\* The steps of tasks that start a watchdog.
LEMMA AbsArms ==
    ASSUME TimerInv, NEW o \in Task, TimerArm(o) \/ \E d \in 0 .. MaxDelay : TimedWait(o, d)
    PROVE  [Abs!Next]_(Abs!vars)
<1>1. CASE TimerArm(o)
  <2> DEFINE t == ptimer[o]
             delay == IF pdelay[o] <= 0 THEN period[t] ELSE pdelay[o]
  <2>1. t \in Mine(o)
    BY <1>1 DEF TimerArm, TimerInv, CallInv, CallOK, Ready
  <2>2. t \in Timer /\ wdog[t] \in Dog
    BY <2>1 DEF Mine, TimerInv, TimersInv, TypeOK
  <2>3. delay \in 0 .. MaxDelay
    BY <2>2 DEF TimerInv, TypeOK
  <2>4. UNCHANGED called /\ (WdStart(wdog[t], delay) \/ UNCHANGED <<active, lag>>)
    BY <1>1 DEF TimerArm
  <2> HIDE DEF t, delay
  <2> QED BY <2>2, <2>3, <2>4, HandlerStays, AbsStarts, AbsSame
<1>2. ASSUME NEW d \in 0 .. MaxDelay, TimedWait(o, d) PROVE [Abs!Next]_(Abs!vars)
  <2>1. UNCHANGED called /\ WdCreate /\ WdStart(NewDog, d)
    BY <1>2 DEF TimedWait
  <2>2. NewDog \in Dog
    BY <2>1, CreateStep DEF TimerInv
  <2> QED BY <2>1, <2>2, HandlerStays, AbsStarts
<1> QED BY <1>1, <1>2

\* Every step is one of WatchdogAbs.
LEMMA AbsNext ==
    ASSUME TimerInv, [Next]_vars
    PROVE  [Abs!Next]_(Abs!vars)
<1>1. CASE DriverCall \/ Interrupt
  BY <1>1, AbsInterrupt
<1>2. CASE Deletion
  BY <1>2, AbsCalls, AbsQuiet DEF Deletion
<1>3. ASSUME NEW o \in Task, TimerCall(o) PROVE [Abs!Next]_(Abs!vars)
  BY <1>3, AbsQuiet, AbsCalls, AbsArms DEF TimerCall
<1>4. ASSUME NEW o \in Task, WaitCall(o) PROVE [Abs!Next]_(Abs!vars)
  BY <1>4, AbsCalls, AbsArms DEF WaitCall
<1>5. CASE UNCHANGED vars
  BY <1>5, HandlerStays, AbsSame DEF vars, dogVars
<1> QED BY <1>1, <1>2, <1>3, <1>4, <1>5 DEF Next

(***************************************************************************)
(* The list of differences keeps time, for any number of watchdogs and any *)
(* delays: every start, restart, cancellation, tick and expiry, by tasks   *)
(* and by handlers, is the one of WatchdogAbs, so that each handler is     *)
(* called at the tick its watchdog was set to, first started first         *)
(* (wd_start.c:297-364, wd_cancel.c:150).                                  *)
(***************************************************************************)
THEOREM WatchdogsKeepTime == Spec => ImplementsWatchdogAbs
<1>1. Init => Abs!Init
  <2> SUFFICES ASSUME Init PROVE Abs!Init
    OBVIOUS
  <2>1. ToSet(active) = {} /\ called = "no"
    BY DEF Init, DogInit, ToSet
  <2>2. Handler = NoDog
    BY <2>1, WatchdogConstants DEF Handler
  <2>3. Older = {} /\ Time = [w \in {} |-> 0]
    BY <2>1 DEF Older, Time
  <2> QED BY <2>2, <2>3 DEF Abs!Init
<1>2. TimerInv /\ [Next]_vars => [Abs!Next]_(Abs!vars)
  BY AbsNext
<1> QED BY <1>1, <1>2, TimerInvariant, PTL DEF Spec, ImplementsWatchdogAbs, Abs!Spec
=============================================================================
