--------------------------- MODULE SequenceLemmas ---------------------------
(***************************************************************************)
(* What the operations on the kernel's linked lists do to the sequences    *)
(* that model them: an entry is inserted at a place (dq_addbefore,         *)
(* sq_addafter), or the one entry of an element is removed (dq_rem,        *)
(* sq_rem).  The proofs about the work queue, the watchdogs and the        *)
(* message queues rest on these lemmas.                                    *)
(***************************************************************************)
EXTENDS SequencesExt, SequenceTheorems, WellFoundedInduction, TLAPS

\* A set of natural numbers that is not empty has a least element: the form of
\* induction that the proofs use.
LEMMA LeastNumber ==
    ASSUME NEW S \in SUBSET Nat, S # {}
    PROVE  \E n \in S : \A m \in S : n <= m
<1> DEFINE R == OpToRel(<, Nat)
<1>1. \E x \in S : \A y \in S : ~(<<y, x>> \in R)
  <2>1. IsWellFoundedOn(R, Nat)
    BY NatLessThanWellFounded
  <2> HIDE DEF R
  <2> QED BY <2>1, WFMin
<1>2. \A x, y \in Nat : <<y, x>> \in R <=> y < x
  BY DEF OpToRel
<1>3. PICK x \in S : \A y \in S : ~(<<y, x>> \in R)
  BY <1>1
<1>4. \A y \in S : y \in Nat /\ x \in Nat /\ ~(y < x)
  BY <1>2, <1>3
<1>5. \A y \in S : x <= y
  BY <1>4
<1> QED BY <1>5

\* Min takes the least number.
LEMMA MinOfNumbers ==
    ASSUME NEW S \in SUBSET Nat, S # {}
    PROVE  Min(S) \in S /\ \A m \in S : Min(S) <= m
BY LeastNumber DEF Min

-----------------------------------------------------------------------------
(***************************************************************************)
(* Insertion.                                                              *)
(***************************************************************************)
LEMMA InsertAtProperties ==
    ASSUME NEW S, NEW s \in Seq(S), NEW i \in 1 .. Len(s) + 1, NEW e \in S
    PROVE  /\ InsertAt(s, i, e) \in Seq(S)
           /\ Len(InsertAt(s, i, e)) = Len(s) + 1
           /\ \A j \in 1 .. Len(s) + 1 :
                InsertAt(s, i, e)[j] = IF j < i THEN s[j] ELSE IF j = i THEN e ELSE s[j - 1]
<1> DEFINE a == SubSeq(s, 1, i - 1)
           b == SubSeq(s, i, Len(s))
           c == a \o <<e>>
           d == c \o b
<1>0. Len(s) \in Nat /\ i \in Int /\ i >= 1 /\ i <= Len(s) + 1
  OBVIOUS
<1>1. \A j \in 1 .. Len(s) : s[j] \in S
  OBVIOUS
<1>2. /\ a \in Seq(S) /\ Len(a) = i - 1
      /\ \A j \in 1 .. i - 1 : a[j] = s[j]
  <2>1. \A j \in 1 .. i - 1 : s[j] \in S
    BY <1>0, <1>1
  <2> QED BY <1>0, <2>1, SubSeqProperties
<1>3. /\ b \in Seq(S) /\ Len(b) = Len(s) - i + 1
      /\ \A j \in 1 .. Len(s) - i + 1 : b[j] = s[i + j - 1]
  <2>1. \A j \in i .. Len(s) : s[j] \in S
    BY <1>0, <1>1
  <2> QED BY <1>0, <2>1, SubSeqProperties
<1>4. /\ <<e>> \in Seq(S) /\ Len(<<e>>) = 1 /\ <<e>>[1] = e
  OBVIOUS
<1> HIDE DEF a, b, c, d
<1>5. /\ c \in Seq(S) /\ Len(c) = i
      /\ \A j \in 1 .. i : c[j] = IF j <= i - 1 THEN a[j] ELSE <<e>>[j - (i - 1)]
  <2>1. /\ c \in Seq(S) /\ Len(c) = Len(a) + Len(<<e>>)
        /\ \A j \in 1 .. Len(a) + Len(<<e>>) : c[j] = IF j <= Len(a) THEN a[j] ELSE <<e>>[j - Len(a)]
    BY <1>2, <1>4, ConcatProperties DEF c
  <2>2. Len(a) + Len(<<e>>) = i
    BY <1>0, <1>2, <1>4
  <2> QED BY <1>2, <2>1, <2>2
<1>6. /\ d \in Seq(S) /\ Len(d) = Len(s) + 1
      /\ \A j \in 1 .. Len(s) + 1 : d[j] = IF j <= i THEN c[j] ELSE b[j - i]
  <2>1. /\ d \in Seq(S) /\ Len(d) = Len(c) + Len(b)
        /\ \A j \in 1 .. Len(c) + Len(b) : d[j] = IF j <= Len(c) THEN c[j] ELSE b[j - Len(c)]
    BY <1>3, <1>5, ConcatProperties DEF d
  <2>2. Len(c) + Len(b) = Len(s) + 1
    BY <1>0, <1>3, <1>5
  <2> QED BY <1>5, <2>1, <2>2
<1>7. ASSUME NEW j \in 1 .. Len(s) + 1
      PROVE  d[j] = IF j < i THEN s[j] ELSE IF j = i THEN e ELSE s[j - 1]
  <2>0. j \in Int /\ 1 <= j /\ j <= Len(s) + 1
    BY <1>0
  <2>1. CASE j < i
    <3>1. j \in 1 .. i - 1 /\ j \in 1 .. i /\ j <= i
      BY <2>0, <2>1, <1>0
    <3> QED BY <2>1, <3>1, <1>2, <1>5, <1>6
  <2>2. CASE j = i
    <3>1. i \in 1 .. i /\ ~(i <= i - 1) /\ i <= i /\ i - (i - 1) = 1 /\ ~(i < i)
      BY <1>0
    <3> QED BY <2>2, <3>1, <1>4, <1>5, <1>6
  <2>3. CASE j > i
    <3>1. j - i \in 1 .. Len(s) - i + 1 /\ i + (j - i) - 1 = j - 1 /\ ~(j <= i) /\ ~(j < i) /\ j # i
      BY <2>3, <2>0, <1>0
    <3> QED BY <3>1, <1>3, <1>6
  <2> QED BY <2>0, <2>1, <2>2, <2>3, <1>0
<1>8. InsertAt(s, i, e) = d
  BY DEF InsertAt, a, b, c, d
<1> QED BY <1>6, <1>7, <1>8

\* The entries alone.
LEMMA InsertAtEntries ==
    ASSUME NEW S, NEW s \in Seq(S), NEW i \in 1 .. Len(s) + 1, NEW e \in S
    PROVE  /\ Len(InsertAt(s, i, e)) = Len(s) + 1
           /\ \A j \in 1 .. Len(s) + 1 :
                InsertAt(s, i, e)[j] = IF j < i THEN s[j] ELSE IF j = i THEN e ELSE s[j - 1]
BY InsertAtProperties

\* Removal: the entries behind it move up.
LEMMA RemoveAtEntries ==
    ASSUME NEW S, NEW s \in Seq(S), NEW i \in 1 .. Len(s)
    PROVE  /\ RemoveAt(s, i) \in Seq(S)
           /\ Len(RemoveAt(s, i)) = Len(s) - 1
           /\ \A j \in 1 .. Len(s) - 1 : RemoveAt(s, i)[j] = IF j < i THEN s[j] ELSE s[j + 1]
<1> DEFINE a == SubSeq(s, 1, i - 1)
           b == SubSeq(s, i + 1, Len(s))
           c == a \o b
<1>0. Len(s) \in Nat /\ i \in Int /\ i >= 1 /\ i <= Len(s)
  OBVIOUS
<1>1. \A j \in 1 .. Len(s) : s[j] \in S
  OBVIOUS
<1>2. /\ a \in Seq(S) /\ Len(a) = i - 1
      /\ \A j \in 1 .. i - 1 : a[j] = s[j]
  <2>1. \A j \in 1 .. i - 1 : s[j] \in S
    BY <1>0, <1>1
  <2> QED BY <1>0, <2>1, SubSeqProperties
<1>3. /\ b \in Seq(S) /\ Len(b) = Len(s) - i
      /\ \A j \in 1 .. Len(s) - i : b[j] = s[i + j]
  <2>1. \A j \in i + 1 .. Len(s) : s[j] \in S
    BY <1>0, <1>1
  <2>2. /\ b \in Seq(S) /\ Len(b) = (IF i + 1 <= Len(s) THEN Len(s) - (i + 1) + 1 ELSE 0)
        /\ \A j \in 1 .. Len(s) - (i + 1) + 1 : b[j] = s[(i + 1) + j - 1]
    BY <1>0, <2>1, SubSeqProperties
  <2> HIDE DEF b
  <2> QED BY <1>0, <2>2
<1> HIDE DEF a, b, c
<1>4. /\ c \in Seq(S) /\ Len(c) = Len(s) - 1
      /\ \A j \in 1 .. Len(s) - 1 : c[j] = IF j <= i - 1 THEN a[j] ELSE b[j - (i - 1)]
  <2>1. /\ c \in Seq(S) /\ Len(c) = Len(a) + Len(b)
        /\ \A j \in 1 .. Len(a) + Len(b) : c[j] = IF j <= Len(a) THEN a[j] ELSE b[j - Len(a)]
    BY <1>2, <1>3, ConcatProperties DEF c
  <2>2. Len(a) + Len(b) = Len(s) - 1
    BY <1>0, <1>2, <1>3
  <2> QED BY <1>2, <2>1, <2>2
<1>5. ASSUME NEW j \in 1 .. Len(s) - 1
      PROVE  c[j] = IF j < i THEN s[j] ELSE s[j + 1]
  <2>0. j \in Int /\ 1 <= j /\ j <= Len(s) - 1
    BY <1>0
  <2>1. CASE j < i
    <3>1. j \in 1 .. i - 1 /\ j <= i - 1
      BY <2>0, <2>1, <1>0
    <3> QED BY <2>1, <3>1, <1>2, <1>4
  <2>2. CASE ~(j < i)
    <3>1. j - (i - 1) \in 1 .. Len(s) - i /\ i + (j - (i - 1)) = j + 1 /\ ~(j <= i - 1)
      BY <2>2, <2>0, <1>0
    <3> QED BY <2>2, <3>1, <1>3, <1>4
  <2> QED BY <2>1, <2>2
<1>6. RemoveAt(s, i) = c
  BY DEF RemoveAt, a, b, c
<1> QED BY <1>4, <1>5, <1>6

-----------------------------------------------------------------------------
(***************************************************************************)
(* The elements of a list in which each is at most once.                   *)
(***************************************************************************)
LEMMA InsertAtElements ==
    ASSUME NEW S, NEW s \in Seq(S), NEW i \in 1 .. Len(s) + 1, NEW e \in S
    PROVE  /\ ToSet(InsertAt(s, i, e)) = ToSet(s) \cup {e}
           /\ IsInjective(s) /\ e \notin ToSet(s) => IsInjective(InsertAt(s, i, e))
<1> DEFINE r == InsertAt(s, i, e)
           old(j) == IF j < i THEN j ELSE j - 1
<1>0. Len(s) \in Nat /\ i \in Int /\ i >= 1 /\ i <= Len(s) + 1 /\ DOMAIN s = 1 .. Len(s)
  OBVIOUS
<1>1. /\ r \in Seq(S) /\ Len(r) = Len(s) + 1
      /\ \A j \in 1 .. Len(s) + 1 : r[j] = IF j < i THEN s[j] ELSE IF j = i THEN e ELSE s[j - 1]
  BY InsertAtProperties
<1> HIDE DEF r
<1>2. DOMAIN r = 1 .. Len(s) + 1
  BY <1>1
<1>3. \A j \in 1 .. Len(s) + 1 : j # i => old(j) \in 1 .. Len(s) /\ r[j] = s[old(j)]
  BY <1>0, <1>1
<1>4. r[i] = e
  <2>1. ~(i < i)
    BY <1>0
  <2> QED BY <1>1, <2>1
<1>5. ASSUME NEW j \in 1 .. Len(s) PROVE s[j] \in ToSet(r)
  <2>1. CASE j < i
    <3>1. j \in 1 .. Len(s) + 1
      BY <1>0
    <3>2. r[j] = s[j]
      BY <2>1, <3>1, <1>1
    <3> QED BY <3>1, <3>2, <1>2 DEF ToSet
  <2>2. CASE ~(j < i)
    <3>1. j + 1 \in 1 .. Len(s) + 1 /\ ~(j + 1 < i) /\ j + 1 # i /\ (j + 1) - 1 = j
      BY <2>2, <1>0
    <3>2. r[j + 1] = s[j]
      BY <3>1, <1>1
    <3> QED BY <3>1, <3>2, <1>2 DEF ToSet
  <2> QED BY <2>1, <2>2
<1>6. ToSet(r) = ToSet(s) \cup {e}
  <2>1. ToSet(s) \subseteq ToSet(r)
    BY <1>0, <1>5 DEF ToSet
  <2>2. e \in ToSet(r)
    BY <1>2, <1>4 DEF ToSet
  <2>3. ASSUME NEW j \in 1 .. Len(s) + 1 PROVE r[j] \in ToSet(s) \cup {e}
    <3>1. j # i => r[j] \in ToSet(s)
      BY <1>0, <1>3 DEF ToSet
    <3> QED BY <3>1, <1>4
  <2>4. ToSet(r) \subseteq ToSet(s) \cup {e}
    BY <2>3, <1>2 DEF ToSet
  <2> QED BY <2>1, <2>2, <2>4
<1>7. ASSUME IsInjective(s), e \notin ToSet(s) PROVE IsInjective(r)
  <2>1. SUFFICES ASSUME NEW j \in 1 .. Len(s) + 1, NEW k \in 1 .. Len(s) + 1, r[j] = r[k] PROVE j = k
    BY <1>2 DEF IsInjective
  <2>2. \A l \in 1 .. Len(s) + 1 : l # i => r[l] # e
    BY <1>0, <1>3, <1>7 DEF ToSet
  <2>3. CASE j = i \/ k = i
    BY <2>1, <2>2, <2>3, <1>4
  <2>4. CASE j # i /\ k # i
    <3>1. old(j) = old(k)
      BY <2>1, <2>4, <1>0, <1>3, <1>7 DEF IsInjective
    <3> QED BY <2>4, <3>1, <1>0
  <2> QED BY <2>3, <2>4
<1> QED BY <1>6, <1>7 DEF r

\* An entry that is appended is inserted behind the last.
LEMMA AppendIsInsert ==
    ASSUME NEW S, NEW s \in Seq(S), NEW e \in S
    PROVE  Append(s, e) = InsertAt(s, Len(s) + 1, e)
<1> DEFINE r == InsertAt(s, Len(s) + 1, e)
<1>0. Len(s) \in Nat /\ Len(s) + 1 \in 1 .. Len(s) + 1
  OBVIOUS
<1>1. /\ r \in Seq(S) /\ Len(r) = Len(s) + 1
      /\ \A j \in 1 .. Len(s) + 1 :
           r[j] = IF j < Len(s) + 1 THEN s[j] ELSE IF j = Len(s) + 1 THEN e ELSE s[j - 1]
  <2>1. r \in Seq(S)
    BY <1>0, InsertAtProperties
  <2>2. /\ Len(r) = Len(s) + 1
        /\ \A j \in 1 .. Len(s) + 1 :
             r[j] = IF j < Len(s) + 1 THEN s[j] ELSE IF j = Len(s) + 1 THEN e ELSE s[j - 1]
    BY <1>0, InsertAtEntries
  <2> HIDE DEF r
  <2> QED BY <2>1, <2>2
<1> HIDE DEF r
<1>2. /\ Append(s, e) \in Seq(S) /\ Len(Append(s, e)) = Len(s) + 1
      /\ \A j \in 1 .. Len(s) : Append(s, e)[j] = s[j]
      /\ Append(s, e)[Len(s) + 1] = e
  BY AppendProperties
<1>3. ASSUME NEW j \in 1 .. Len(s) + 1 PROVE Append(s, e)[j] = r[j]
  <2>1. CASE j < Len(s) + 1
    <3>1. j \in 1 .. Len(s)
      BY <2>1, <1>0
    <3> QED BY <2>1, <3>1, <1>1, <1>2
  <2>2. CASE ~(j < Len(s) + 1)
    <3>1. j = Len(s) + 1
      BY <2>2, <1>0
    <3> QED BY <2>2, <3>1, <1>1, <1>2
  <2> QED BY <2>1, <2>2
<1> QED BY <1>1, <1>2, <1>3, SeqEqual DEF r

\* Removal takes just the one element.
LEMMA RemoveAtElements ==
    ASSUME NEW S, NEW s \in Seq(S), IsInjective(s), NEW i \in 1 .. Len(s)
    PROVE  /\ ToSet(RemoveAt(s, i)) = ToSet(s) \ {s[i]}
           /\ IsInjective(RemoveAt(s, i))
<1> DEFINE r == RemoveAt(s, i)
           old(j) == IF j < i THEN j ELSE j + 1
<1>0. Len(s) \in Nat /\ i \in Int /\ i >= 1 /\ i <= Len(s) /\ DOMAIN s = 1 .. Len(s)
  OBVIOUS
<1>1. /\ r \in Seq(S) /\ Len(r) = Len(s) - 1
      /\ \A j \in 1 .. Len(s) - 1 : r[j] = IF j < i THEN s[j] ELSE s[j + 1]
  BY RemoveAtEntries
<1> HIDE DEF r
<1>2. DOMAIN r = 1 .. Len(s) - 1
  BY <1>1
<1>3. \A j \in 1 .. Len(s) - 1 : old(j) \in 1 .. Len(s) /\ old(j) # i /\ r[j] = s[old(j)]
  BY <1>0, <1>1
<1>4. \A j, k \in 1 .. Len(s) : s[j] = s[k] => j = k
  BY <1>0 DEF IsInjective
<1>5. ASSUME NEW j \in 1 .. Len(s), j # i PROVE s[j] \in ToSet(r)
  <2>1. CASE j < i
    <3>1. j \in 1 .. Len(s) - 1
      BY <2>1, <1>0
    <3>2. r[j] = s[j]
      BY <2>1, <3>1, <1>1
    <3> QED BY <3>1, <3>2, <1>2 DEF ToSet
  <2>2. CASE ~(j < i)
    <3>1. j - 1 \in 1 .. Len(s) - 1 /\ ~(j - 1 < i) /\ (j - 1) + 1 = j
      BY <2>2, <1>0, <1>5
    <3>2. r[j - 1] = s[j]
      BY <3>1, <1>1
    <3> QED BY <3>1, <3>2, <1>2 DEF ToSet
  <2> QED BY <2>1, <2>2
<1>6. ToSet(r) = ToSet(s) \ {s[i]}
  <2>1. ASSUME NEW x \in ToSet(s), x # s[i] PROVE x \in ToSet(r)
    <3>1. PICK j \in 1 .. Len(s) : x = s[j]
      BY <1>0 DEF ToSet
    <3> QED BY <2>1, <3>1, <1>5
  <2>2. ASSUME NEW j \in 1 .. Len(s) - 1 PROVE r[j] \in ToSet(s) \ {s[i]}
    BY <1>0, <1>3, <1>4 DEF ToSet
  <2>3. ToSet(r) \subseteq ToSet(s) \ {s[i]}
    BY <2>2, <1>2 DEF ToSet
  <2> QED BY <2>1, <2>3
<1>7. IsInjective(r)
  <2>1. SUFFICES ASSUME NEW j \in 1 .. Len(s) - 1, NEW k \in 1 .. Len(s) - 1, r[j] = r[k] PROVE j = k
    BY <1>2 DEF IsInjective
  <2>2. old(j) = old(k)
    BY <2>1, <1>3, <1>4
  <2> QED BY <2>2, <1>0
<1> QED BY <1>6, <1>7 DEF r

\* The one entry of an element is removed.
LEMMA RemoveFirstEntry ==
    ASSUME NEW S, NEW s \in Seq(S), NEW e \in ToSet(s)
    PROVE  \E i \in 1 .. Len(s) : s[i] = e /\ RemoveFirst(s, e) = RemoveAt(s, i)
<1> DEFINE I == {i \in 1 .. Len(s) : s[i] = e}
<1>1. I # {} /\ I \in SUBSET Nat
  BY DEF ToSet
<1>2. Min(I) \in I
  BY <1>1, MinOfNumbers
<1>3. SelectInSeq(s, LAMBDA v : v = e) = Min(I)
  BY <1>1 DEF SelectInSeq
<1>4. \E i \in 1 .. Len(s) : s[i] = e
  BY <1>1
<1>5. RemoveFirst(s, e) = RemoveAt(s, Min(I))
  BY <1>3, <1>4 DEF RemoveFirst
<1> QED BY <1>2, <1>5

\* The first entry is removed.
LEMMA TailElements ==
    ASSUME NEW S, NEW s \in Seq(S), IsInjective(s), s # <<>>
    PROVE  /\ Head(s) \in ToSet(s)
           /\ RemoveFirst(s, Head(s)) = Tail(s)
           /\ Tail(s) = RemoveAt(s, 1)
<1>0. Len(s) \in Nat /\ Len(s) >= 1 /\ DOMAIN s = 1 .. Len(s) /\ Head(s) = s[1]
  BY EmptySeq
<1>1. Head(s) \in ToSet(s)
  BY <1>0 DEF ToSet
<1>2. PICK i \in 1 .. Len(s) : s[i] = Head(s) /\ RemoveFirst(s, Head(s)) = RemoveAt(s, i)
  BY <1>1, RemoveFirstEntry
<1>3. i = 1
  BY <1>0, <1>2 DEF IsInjective
<1>4. /\ Tail(s) \in Seq(S) /\ Len(Tail(s)) = Len(s) - 1
      /\ \A j \in 1 .. Len(s) - 1 : Tail(s)[j] = s[j + 1]
  BY <1>0
<1>5. /\ RemoveAt(s, 1) \in Seq(S) /\ Len(RemoveAt(s, 1)) = Len(s) - 1
      /\ \A j \in 1 .. Len(s) - 1 : RemoveAt(s, 1)[j] = IF j < 1 THEN s[j] ELSE s[j + 1]
  <2>1. 1 \in 1 .. Len(s)
    BY <1>0
  <2> QED BY <2>1, RemoveAtEntries
<1>6. \A j \in 1 .. Len(s) - 1 : RemoveAt(s, 1)[j] = s[j + 1]
  BY <1>0, <1>5
<1>7. Tail(s) = RemoveAt(s, 1)
  BY <1>4, <1>5, <1>6, SeqEqual
<1> QED BY <1>1, <1>2, <1>3, <1>7
=============================================================================
