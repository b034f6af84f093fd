----------------------------- MODULE HeapProof ------------------------------
(***************************************************************************)
(* The heap of module Heap, proved for a heap of any size, any number of   *)
(* free lists and any pointers, requests and alignments.                   *)
(*                                                                         *)
(* The inductive invariant HInv says of the heap value that its headers    *)
(* tile the heap, that the lists hold exactly the free chunks and, unless  *)
(* raced, that no two of them are neighbours; that the allocated chunks    *)
(* and their owners correspond one to one and total counts them; that the  *)
(* granules of a pointer hold what was written; and of a call on its way   *)
(* that its raw chunk is large enough for its second half.                 *)
(*                                                                         *)
(* Every operation replaces the headers between two chunks b and e by one  *)
(* or two (Cut), so that tiling is shown once, for Cut, from neighbours    *)
(* alone.  Half is a heap some of whose free chunks are off the lists, the *)
(* state between two C functions; Net sums up a whole call.                *)
(***************************************************************************)
EXTENDS Heap, SequenceLemmas, FiniteSetTheorems

LEMMA Limits ==
    /\ heapbase \in Nat /\ heapend \in Nat /\ heapbase + 2 < heapend /\ MM_NNODES \in Nat /\ MM_NNODES >= 1
    /\ \A g : g \in Addr <=> g \in Nat /\ heapbase <= g /\ g <= heapend
    /\ \A i : i \in Index <=> i \in Nat /\ i <= MM_NNODES - 1
BY HeapConstants DEF heapend, Addr, Index, SIZEOF_MM_ALLOCNODE

(***************************************************************************)
(* Tilings.                                                                *)
(***************************************************************************)
Headers == [size : Nat, preceding : Nat, allocated : BOOLEAN]

IsNodes(n) ==
    /\ n = [x \in DOMAIN n |-> n[x]]
    /\ DOMAIN n \subseteq Addr
    /\ \A x \in DOMAIN n : n[x] \in Headers /\ n[x].size > 0

Nx(n, a) == a + n[a].size

Tiled(n) ==
    /\ IsNodes(n)
    /\ heapbase \in DOMAIN n /\ heapend \in DOMAIN n
    /\ n[heapbase].allocated /\ n[heapend].allocated
    /\ \A a \in DOMAIN n \ {heapend} : Nx(n, a) \in DOMAIN n /\ n[Nx(n, a)].preceding = n[a].size
    /\ \A a, b \in DOMAIN n : a # heapend /\ a < b => Nx(n, a) <= b

LEMMA TiledTypes ==
    ASSUME NEW n, Tiled(n), NEW a \in DOMAIN n
    PROVE  /\ a \in Nat /\ heapbase <= a /\ a <= heapend
           /\ n[a] \in Headers /\ n[a].size \in Nat /\ n[a].size > 0 /\ n[a].preceding \in Nat
           /\ Nx(n, a) \in Nat /\ a < Nx(n, a)
<1>1. a \in Addr /\ n[a] \in Headers /\ n[a].size > 0
  BY DEF Tiled, IsNodes
<1>2. n[a].size \in Nat /\ n[a].preceding \in Nat
  BY <1>1 DEF Headers
<1>3. a \in Nat /\ heapbase <= a /\ a <= heapend
  BY <1>1, Limits
<1> QED BY <1>1, <1>2, <1>3 DEF Nx

\* The chunk before a chunk: the greatest address below it.
LEMMA ChunkBefore ==
    ASSUME NEW n, Tiled(n), NEW b \in DOMAIN n, b # heapbase
    PROVE  \E a \in DOMAIN n \ {heapend} : a < b /\ Nx(n, a) = b /\ n[b].preceding = n[a].size
<1> DEFINE S == {heapend - x : x \in {y \in DOMAIN n : y < b}}
<1>1. \A x \in DOMAIN n : x \in Nat /\ heapbase <= x /\ x <= heapend
  BY TiledTypes
<1>2. S \in SUBSET Nat
  BY <1>1, Limits
<1>3. heapbase \in DOMAIN n /\ heapbase < b
  BY <1>1, Limits DEF Tiled
<1>4. S # {}
  BY <1>3
<1>5. PICK k \in S : \A m \in S : k <= m
  BY <1>2, <1>4, LeastNumber
<1>6. PICK a \in DOMAIN n : a < b /\ k = heapend - a
  BY <1>5
<1>7. ASSUME NEW x \in DOMAIN n, x < b PROVE x <= a
  <2>1. heapend - x \in S
    BY <1>7
  <2>2. heapend - a <= heapend - x
    BY <1>5, <1>6, <2>1
  <2> QED BY <1>1, <2>2, Limits
<1>8. a # heapend
  BY <1>1, <1>6, Limits
<1>9. Nx(n, a) \in DOMAIN n /\ n[Nx(n, a)].preceding = n[a].size /\ Nx(n, a) <= b
  BY <1>6, <1>8 DEF Tiled
<1>10. Nx(n, a) \in Nat /\ a < Nx(n, a) /\ a \in Nat /\ b \in Nat
  BY <1>1, TiledTypes
<1>11. ~(Nx(n, a) < b)
  <2> SUFFICES ASSUME Nx(n, a) < b PROVE FALSE
    OBVIOUS
  <2>1. Nx(n, a) <= a
    BY <1>7, <1>9
  <2> QED BY <1>10, <2>1
<1>12. Nx(n, a) = b
  BY <1>9, <1>10, <1>11
<1> QED BY <1>6, <1>8, <1>9, <1>12

\* The memory from a to e, which chunks of n begin at, is cut anew at m, or
\* becomes one chunk when m is e.
Cut(n2, n, a, m, e) ==
    /\ IsNodes(n2)
    /\ DOMAIN n2 = {x \in DOMAIN n : x <= a \/ e <= x} \cup {m}
    /\ n2[a].size = m - a /\ n2[a].preceding = n[a].preceding
    /\ m < e => n2[m].size = e - m /\ n2[m].preceding = m - a
    /\ n2[e].size = n[e].size /\ n2[e].allocated = n[e].allocated
    /\ n2[e].preceding = IF m < e THEN e - m ELSE e - a
    /\ \A x \in DOMAIN n : x < a \/ e < x => n2[x] = n[x]

LEMMA CutTiles ==
    ASSUME NEW n, Tiled(n), NEW n2, NEW a \in DOMAIN n \ {heapbase}, NEW e \in DOMAIN n,
           NEW m \in Nat, a < m, m <= e, Cut(n2, n, a, m, e)
    PROVE  Tiled(n2)
<1>0. \A x \in DOMAIN n : x \in Nat /\ heapbase <= x /\ x <= heapend /\ Nx(n, x) \in Nat /\ x < Nx(n, x)
  BY TiledTypes
<1>1. \A x \in DOMAIN n2 : x \in Nat /\ x <= heapend /\ (x = m \/ (x \in DOMAIN n /\ (x <= a \/ e <= x)))
  <2>1. m <= heapend
    BY <1>0, Limits
  <2>2. DOMAIN n2 = {x \in DOMAIN n : x <= a \/ e <= x} \cup {m}
    BY DEF Cut
  <2> QED BY <1>0, <2>1, <2>2
<1>2. \A x : x = m \/ (x \in DOMAIN n /\ (x <= a \/ e <= x)) => x \in DOMAIN n2
  BY DEF Cut
<1>3. heapbase \in DOMAIN n2 /\ heapend \in DOMAIN n2 /\ heapbase < a
  BY <1>0, <1>2, Limits DEF Tiled
<1>4. n2[heapbase].allocated /\ n2[heapend].allocated
  <2>1. n2[heapbase] = n[heapbase]
    BY <1>3 DEF Cut, Tiled
  <2>2. CASE e = heapend
    BY <2>1, <2>2 DEF Cut, Tiled
  <2>3. CASE e # heapend
    <3>1. e < heapend /\ heapend \in DOMAIN n
      BY <1>0, <2>3, Limits DEF Tiled
    <3>2. n2[heapend] = n[heapend]
      BY <3>1 DEF Cut
    <3> QED BY <2>1, <3>2 DEF Tiled
  <2> QED BY <2>2, <2>3
<1>5. ASSUME NEW x \in DOMAIN n2, x # heapend
      PROVE  /\ Nx(n2, x) \in DOMAIN n2 /\ n2[Nx(n2, x)].preceding = n2[x].size
             /\ \A y \in DOMAIN n2 : x < y => Nx(n2, x) <= y
  <2>1. CASE x < a
    <3>1. x \in DOMAIN n /\ n2[x] = n[x] /\ Nx(n2, x) = Nx(n, x)
      BY <1>0, <1>1, <2>1 DEF Cut, Nx
    <3>2. Nx(n, x) \in DOMAIN n /\ n[Nx(n, x)].preceding = n[x].size /\ Nx(n, x) <= a
      BY <1>5, <2>1, <3>1 DEF Tiled
    <3>3. Nx(n, x) \in DOMAIN n2
      BY <1>2, <3>2
    <3>4. n2[Nx(n, x)].preceding = n[x].size
      <4>1. CASE Nx(n, x) = a
        BY <3>2, <4>1 DEF Cut
      <4>2. CASE Nx(n, x) # a
        <5>1. Nx(n, x) < a
          BY <1>0, <3>2, <4>2
        <5> QED BY <3>2, <5>1 DEF Cut
      <4> QED BY <4>1, <4>2
    <3>5. ASSUME NEW y \in DOMAIN n2, x < y PROVE Nx(n, x) <= y
      <4>1. CASE y \in DOMAIN n
        BY <1>5, <3>1, <3>5, <4>1 DEF Tiled
      <4>2. CASE y = m
        BY <1>0, <3>2, <4>2
      <4> QED BY <1>1, <4>1, <4>2
    <3> QED BY <3>1, <3>3, <3>4, <3>5
  <2>2. CASE x = a
    <3>1. Nx(n2, x) = m /\ m \in DOMAIN n2 /\ n2[x].size = m - a
      BY <1>0, <1>2, <2>2 DEF Cut, Nx
    <3>2. n2[m].preceding = m - a
      <4>1. CASE m < e
        BY <4>1 DEF Cut
      <4>2. CASE ~(m < e)
        <5>1. m = e
          BY <1>0, <4>2
        <5> QED BY <4>2, <5>1 DEF Cut
      <4> QED BY <4>1, <4>2
    <3>3. ASSUME NEW y \in DOMAIN n2, x < y PROVE m <= y
      BY <1>0, <1>1, <2>2, <3>3
    <3> QED BY <3>1, <3>2, <3>3
  <2>3. CASE x = m /\ m < e
    <3>1. Nx(n2, x) = e /\ e \in DOMAIN n2 /\ n2[x].size = e - m /\ n2[e].preceding = e - m
      BY <1>0, <1>2, <2>3 DEF Cut, Nx
    <3>2. ASSUME NEW y \in DOMAIN n2, x < y PROVE e <= y
      BY <1>0, <1>1, <2>3, <3>2
    <3> QED BY <3>1, <3>2
  <2>4. CASE x = e
    <3>1. Nx(n2, x) = Nx(n, e) /\ n2[x].size = n[e].size
      BY <2>4 DEF Cut, Nx
    <3>2. Nx(n, e) \in DOMAIN n /\ n[Nx(n, e)].preceding = n[e].size /\ e < Nx(n, e)
      BY <1>0, <1>5, <2>4 DEF Tiled
    <3>3. Nx(n, e) \in DOMAIN n2
      BY <1>0, <1>2, <3>2
    <3>4. n2[Nx(n, e)] = n[Nx(n, e)]
      BY <3>2 DEF Cut
    <3>5. ASSUME NEW y \in DOMAIN n2, x < y PROVE Nx(n, e) <= y
      <4>1. y \in DOMAIN n
        BY <1>0, <1>1, <2>4, <3>5
      <4> QED BY <1>5, <2>4, <3>5, <4>1 DEF Tiled
    <3> QED BY <3>1, <3>2, <3>3, <3>4, <3>5
  <2>5. CASE e < x
    <3>1. x \in DOMAIN n
      BY <1>0, <1>1, <2>5
    <3>2. n2[x] = n[x] /\ Nx(n2, x) = Nx(n, x)
      BY <2>5, <3>1 DEF Cut, Nx
    <3>3. Nx(n, x) \in DOMAIN n /\ n[Nx(n, x)].preceding = n[x].size /\ x < Nx(n, x)
      BY <1>0, <1>5, <3>1 DEF Tiled
    <3>4. e < Nx(n, x)
      BY <1>0, <2>5, <3>1, <3>3
    <3>5. Nx(n, x) \in DOMAIN n2 /\ n2[Nx(n, x)] = n[Nx(n, x)]
      <4>1. e <= Nx(n, x)
        BY <1>0, <3>3, <3>4
      <4> QED BY <1>2, <3>3, <3>4, <4>1 DEF Cut
    <3>6. ASSUME NEW y \in DOMAIN n2, x < y PROVE Nx(n, x) <= y
      <4>1. y \in DOMAIN n
        BY <1>0, <1>1, <2>5, <3>1, <3>6
      <4> QED BY <1>5, <3>1, <3>6, <4>1 DEF Tiled
    <3> QED BY <3>2, <3>3, <3>5, <3>6
  <2>6. x < a \/ x = a \/ (x = m /\ m < e) \/ x = e \/ e < x
    BY <1>0, <1>1
  <2> QED BY <2>1, <2>2, <2>3, <2>4, <2>5, <2>6
<1>6. IsNodes(n2)
  BY DEF Cut
<1> QED BY <1>3, <1>4, <1>5, <1>6 DEF Tiled

-----------------------------------------------------------------------------
(***************************************************************************)
(* The index of the list of a size.  Pow2 is a recursive function: one     *)
(* that satisfies its equation exists, by the least number of entries for  *)
(* which there would be none.                                              *)
(***************************************************************************)
PowTo(f, n) ==
    /\ f = [k \in 0 .. n |-> f[k]]
    /\ f[0] = 1
    /\ \A k \in 1 .. n : f[k] = 2 * f[k - 1]

LEMMA PowExists ==
    ASSUME NEW n \in Nat
    PROVE  \E f : PowTo(f, n)
<1> DEFINE S == {m \in Nat : ~\E f : PowTo(f, m)}
<1> SUFFICES ASSUME S # {} PROVE FALSE
  OBVIOUS
<1>1. PICK m \in S : \A k \in S : m <= k
  BY LeastNumber
<1>2. m # 0
  <2> DEFINE f == [k \in 0 .. 0 |-> 1]
  <2>1. PowTo(f, 0)
    BY DEF PowTo
  <2> QED BY <1>1, <2>1
<1>3. m - 1 \in Nat /\ m - 1 \notin S
  BY <1>1, <1>2
<1>4. PICK f : PowTo(f, m - 1)
  BY <1>3
<1> DEFINE h == [i \in 0 .. m |-> IF i = m THEN 2 * f[m - 1] ELSE f[i]]
<1>5. h[0] = 1
  BY <1>1, <1>2, <1>4 DEF PowTo
<1>6. ASSUME NEW i \in 1 .. m PROVE h[i] = 2 * h[i - 1]
  <2>1. CASE i = m
    <3>1. i \in 0 .. m /\ i - 1 \in 0 .. m /\ i - 1 # m
      BY <1>3, <2>1
    <3> QED BY <2>1, <3>1
  <2>2. CASE i # m
    <3>1. i \in 0 .. m /\ i - 1 \in 0 .. m /\ i - 1 # m /\ i \in 1 .. m - 1
      BY <1>3, <2>2
    <3>2. f[i] = 2 * f[i - 1]
      BY <1>4, <3>1 DEF PowTo
    <3> QED BY <2>2, <3>1, <3>2
  <2> QED BY <2>1, <2>2
<1>7. h = [i \in 0 .. m |-> h[i]]
  OBVIOUS
<1> HIDE DEF h
<1>8. PowTo(h, m)
  BY <1>5, <1>6, <1>7 DEF PowTo
<1> QED BY <1>1, <1>8

LEMMA PowSteps == PowTo(Pow2, MM_NNODES)
<1> DEFINE Body(f) == [k \in 0 .. MM_NNODES |-> IF k = 0 THEN 1 ELSE 2 * f[k - 1]]
<1>1. PICK f : PowTo(f, MM_NNODES)
  BY PowExists, Limits
<1>2. f = Body(f)
  <2>1. \A k \in 0 .. MM_NNODES : f[k] = IF k = 0 THEN 1 ELSE 2 * f[k - 1]
    <3> TAKE k \in 0 .. MM_NNODES
    <3>1. k = 0 \/ k \in 1 .. MM_NNODES
      BY Limits
    <3> QED BY <1>1, <3>1, Limits DEF PowTo
  <2> QED BY <1>1, <2>1 DEF PowTo
<1>3. Pow2 = Body(Pow2)
  <2>1. Pow2 = CHOOSE g : g = Body(g)
    BY DEF Pow2
  <2> QED BY <1>2, <2>1
<1> HIDE DEF Body
<1>4. \A k \in 0 .. MM_NNODES : Pow2[k] = IF k = 0 THEN 1 ELSE 2 * Pow2[k - 1]
  <2>1. \A g : \A k \in 0 .. MM_NNODES : Body(g)[k] = IF k = 0 THEN 1 ELSE 2 * g[k - 1]
    BY DEF Body
  <2> QED BY <1>3, <2>1
<1>5. Pow2 = [k \in 0 .. MM_NNODES |-> Pow2[k]]
  <2>1. \A g : DOMAIN Body(g) = 0 .. MM_NNODES /\ Body(g) = [k \in 0 .. MM_NNODES |-> Body(g)[k]]
    BY DEF Body
  <2> QED BY <1>3, <2>1
<1>6. 0 \in 0 .. MM_NNODES /\ \A k \in 1 .. MM_NNODES : k \in 0 .. MM_NNODES /\ k # 0
  BY Limits
<1> QED BY <1>4, <1>5, <1>6 DEF PowTo

\* The powers are positive and ascend.
LEMMA PowTypes == \A k \in 0 .. MM_NNODES : Pow2[k] \in Nat /\ Pow2[k] > 0
<1> DEFINE S == {k \in 0 .. MM_NNODES : ~(Pow2[k] \in Nat /\ Pow2[k] > 0)}
<1> SUFFICES ASSUME S # {} PROVE FALSE
  OBVIOUS
<1>1. S \in SUBSET Nat
  BY Limits
<1>2. PICK k \in S : \A m \in S : k <= m
  BY <1>1, LeastNumber
<1>3. k # 0
  BY <1>2, PowSteps DEF PowTo
<1>4. k \in 1 .. MM_NNODES /\ k - 1 \in 0 .. MM_NNODES /\ ~(k <= k - 1)
  BY <1>2, <1>3, Limits
<1>5. Pow2[k - 1] \in Nat /\ Pow2[k - 1] > 0
  BY <1>2, <1>4
<1>6. Pow2[k] = 2 * Pow2[k - 1]
  BY <1>4, PowSteps DEF PowTo
<1> QED BY <1>2, <1>5, <1>6

LEMMA PowAscends ==
    ASSUME NEW i \in 0 .. MM_NNODES, NEW j \in 0 .. MM_NNODES, i <= j
    PROVE  Pow2[i] <= Pow2[j]
<1> DEFINE S == {k \in i .. MM_NNODES : ~(Pow2[i] <= Pow2[k])}
<1> SUFFICES ASSUME S # {} PROVE FALSE
  BY Limits
<1>1. S \in SUBSET Nat
  BY Limits
<1>2. PICK k \in S : \A m \in S : k <= m
  BY <1>1, LeastNumber
<1>3. k # i
  BY <1>2, PowTypes
<1>4. k \in 1 .. MM_NNODES /\ k - 1 \in 0 .. MM_NNODES /\ k - 1 \in i .. MM_NNODES /\ ~(k <= k - 1)
  BY <1>2, <1>3, Limits
<1>5. Pow2[i] <= Pow2[k - 1]
  BY <1>2, <1>4
<1>6. Pow2[k] = 2 * Pow2[k - 1] /\ Pow2[k - 1] \in Nat /\ Pow2[i] \in Nat
  BY <1>4, PowSteps, PowTypes DEF PowTo
<1> QED BY <1>2, <1>5, <1>6

\* A size below the largest chunk lies between two powers.
LEMMA SizeBetween ==
    ASSUME NEW s \in Nat, s > 0, ~(s >= MM_MAX_CHUNK)
    PROVE  /\ mm_size2ndx(s) \in Index /\ mm_size2ndx(s) + 1 \in 0 .. MM_NNODES
           /\ Pow2[mm_size2ndx(s)] <= s /\ s < Pow2[mm_size2ndx(s) + 1]
<1> DEFINE S == {k \in 0 .. MM_NNODES : s < Pow2[k]}
<1>1. S \in SUBSET Nat
  BY Limits
<1>2. MM_NNODES - 1 \in 0 .. MM_NNODES /\ s < Pow2[MM_NNODES - 1]
  <2>1. MM_NNODES - 1 \in 0 .. MM_NNODES
    BY Limits
  <2> QED BY <2>1, PowTypes DEF MM_MAX_CHUNK
<1>3. PICK k \in S : \A m \in S : k <= m
  BY <1>1, <1>2, LeastNumber
<1>4. k # 0 /\ k <= MM_NNODES - 1
  BY <1>2, <1>3, PowSteps DEF PowTo
<1>5. k - 1 \in Index /\ k - 1 \in 0 .. MM_NNODES /\ ~(k <= k - 1) /\ (k - 1) + 1 = k
  BY <1>3, <1>4, Limits
<1>6. Pow2[k - 1] <= s /\ s < Pow2[(k - 1) + 1]
  BY <1>3, <1>5, PowTypes
<1>7. \E i \in Index : Pow2[i] <= s /\ s < Pow2[i + 1]
  BY <1>5, <1>6
<1>8. mm_size2ndx(s) = CHOOSE i \in Index : Pow2[i] <= s /\ s < Pow2[i + 1]
  BY DEF mm_size2ndx
<1>9. mm_size2ndx(s) \in Index /\ Pow2[mm_size2ndx(s)] <= s /\ s < Pow2[mm_size2ndx(s) + 1]
  BY <1>7, <1>8
<1> QED BY <1>9, Limits

LEMMA LargeIndex ==
    ASSUME NEW s, s >= MM_MAX_CHUNK
    PROVE  mm_size2ndx(s) = MM_NNODES - 1 /\ mm_size2ndx(s) \in Index
BY Limits DEF mm_size2ndx

LEMMA SizeIndex ==
    ASSUME NEW s \in Nat, s > 0
    PROVE  mm_size2ndx(s) \in Index
BY SizeBetween, LargeIndex

\* A larger chunk is on the same list or on a later one.
LEMMA IndexAscends ==
    ASSUME NEW s \in Nat, NEW t \in Nat, s > 0, s <= t
    PROVE  mm_size2ndx(s) <= mm_size2ndx(t)
<1>1. PICK i : i = mm_size2ndx(s)
  OBVIOUS
<1>2. PICK j : j = mm_size2ndx(t)
  OBVIOUS
<1>3. i \in Index /\ j \in Index
  BY <1>1, <1>2, SizeIndex
<1>4. MM_MAX_CHUNK \in Nat
  BY PowTypes, Limits DEF MM_MAX_CHUNK
<1>5. CASE t >= MM_MAX_CHUNK
  <2>1. j = MM_NNODES - 1
    BY <1>2, <1>5, LargeIndex
  <2> QED BY <1>1, <1>2, <1>3, <2>1, Limits
<1>6. CASE ~(t >= MM_MAX_CHUNK)
  <2>1. ~(s >= MM_MAX_CHUNK) /\ t > 0
    BY <1>4, <1>6
  <2>2. Pow2[i] <= s /\ i + 1 \in 0 .. MM_NNODES
    BY <1>1, <2>1, SizeBetween
  <2>3. t < Pow2[j + 1] /\ j + 1 \in 0 .. MM_NNODES
    BY <1>2, <1>6, <2>1, SizeBetween
  <2>4. i \in Nat /\ j \in Nat /\ i \in 0 .. MM_NNODES
    BY <1>3, Limits
  <2>5. ~(j + 1 <= i)
    <3> SUFFICES ASSUME j + 1 <= i PROVE FALSE
      OBVIOUS
    <3>1. Pow2[j + 1] <= Pow2[i] /\ Pow2[i] \in Nat /\ Pow2[j + 1] \in Nat
      BY <2>3, <2>4, PowAscends, PowTypes
    <3> QED BY <2>2, <2>3, <3>1
  <2> QED BY <1>1, <1>2, <2>4, <2>5
<1> QED BY <1>5, <1>6

-----------------------------------------------------------------------------
(***************************************************************************)
(* The free lists: l has the chunks of F, each on the list of its size,    *)
(* once, in order of size.                                                 *)
(***************************************************************************)
Sorted(q, n) == \A j, k \in 1 .. Len(q) : j <= k => n[q[j]].size <= n[q[k]].size

InList(q, F, n, i) ==
    /\ q \in Seq(Addr) /\ IsInjective(q) /\ Sorted(q, n)
    /\ ToSet(q) = {x \in F : mm_size2ndx(n[x].size) = i}

Linked(l, F, n) ==
    /\ l = [i \in Index |-> l[i]]
    /\ \A i \in Index : InList(l[i], F, n, i)

LEMMA Elements ==
    ASSUME NEW q \in Seq(Addr)
    PROVE  /\ Len(q) \in Nat /\ DOMAIN q = 1 .. Len(q)
           /\ \A j \in 1 .. Len(q) : q[j] \in ToSet(q) /\ q[j] \in Addr
           /\ \A x \in ToSet(q) : \E j \in 1 .. Len(q) : x = q[j]
BY DEF ToSet

\* Only the sizes of the chunks on the lists matter.
LEMMA LinkedKept ==
    ASSUME NEW l, NEW F, NEW n, Linked(l, F, n), NEW n2, \A x \in F : n2[x].size = n[x].size
    PROVE  Linked(l, F, n2)
<1> SUFFICES ASSUME NEW i \in Index PROVE InList(l[i], F, n2, i)
  BY DEF Linked
<1>1. PICK q : q = l[i]
  OBVIOUS
<1>2. InList(q, F, n, i)
  BY <1>1 DEF Linked
<1>3. ToSet(q) = {x \in F : mm_size2ndx(n2[x].size) = i}
  <2>1. {x \in F : mm_size2ndx(n2[x].size) = i} = {x \in F : mm_size2ndx(n[x].size) = i}
    OBVIOUS
  <2> QED BY <1>2, <2>1 DEF InList
<1>4. Sorted(q, n2)
  <2>1. \A j \in 1 .. Len(q) : q[j] \in F
    BY <1>2, Elements DEF InList
  <2> QED BY <1>2, <2>1 DEF InList, Sorted
<1> QED BY <1>1, <1>2, <1>3, <1>4 DEF InList

\* A chunk leaves its list.
LEMMA RemovedFrom ==
    ASSUME NEW q, NEW F, NEW n, NEW i, InList(q, F, n, i), NEW a
    PROVE  InList(RemoveFirst(q, a), F \ {a}, n, i)
<1>0. q \in Seq(Addr) /\ IsInjective(q) /\ Sorted(q, n) /\ ToSet(q) = {x \in F : mm_size2ndx(n[x].size) = i}
  BY DEF InList
<1>1. CASE a \notin ToSet(q)
  <2>1. RemoveFirst(q, a) = q
    <3>1. ~\E k \in 1 .. Len(q) : q[k] = a
      BY <1>0, <1>1, Elements
    <3> QED BY <3>1 DEF RemoveFirst
  <2>2. {x \in F : mm_size2ndx(n[x].size) = i} = {x \in F \ {a} : mm_size2ndx(n[x].size) = i}
    BY <1>0, <1>1
  <2> QED BY <1>0, <2>1, <2>2 DEF InList
<1>2. CASE a \in ToSet(q)
  <2>1. PICK r : r = RemoveFirst(q, a)
    OBVIOUS
  <2>2. PICK k \in 1 .. Len(q) : q[k] = a /\ RemoveFirst(q, a) = RemoveAt(q, k)
    BY <1>0, <1>2, RemoveFirstEntry, Zenon
  <2>3. /\ r \in Seq(Addr) /\ Len(r) = Len(q) - 1
        /\ \A j \in 1 .. Len(q) - 1 : r[j] = IF j < k THEN q[j] ELSE q[j + 1]
    BY <1>0, <2>1, <2>2, RemoveAtEntries, Zenon
  <2>4. ToSet(r) = ToSet(q) \ {a} /\ IsInjective(r)
    BY <1>0, <2>1, <2>2, RemoveAtElements
  <2>5. Sorted(r, n)
    <3> SUFFICES ASSUME NEW j \in 1 .. Len(r), NEW m \in 1 .. Len(r), j <= m
                 PROVE  n[r[j]].size <= n[r[m]].size
      BY DEF Sorted
    <3>1. Len(q) \in Nat
      BY <1>0
    <3> DEFINE old(x) == IF x < k THEN x ELSE x + 1
    <3>2. old(j) \in 1 .. Len(q) /\ old(m) \in 1 .. Len(q) /\ old(j) <= old(m)
      BY <2>3, <3>1
    <3>3. r[j] = q[old(j)] /\ r[m] = q[old(m)]
      BY <2>3
    <3> HIDE DEF old
    <3> QED BY <1>0, <3>2, <3>3 DEF Sorted
  <2>6. ToSet(r) = {x \in F \ {a} : mm_size2ndx(n[x].size) = i}
    BY <1>0, <2>4
  <2> QED BY <2>1, <2>3, <2>4, <2>5, <2>6 DEF InList
<1> QED BY <1>1, <1>2

Dropped(l, a) == [i \in Index |-> RemoveFirst(l[i], a)]

LEMMA LinkedDrop ==
    ASSUME NEW l, NEW F, NEW n, Linked(l, F, n), NEW a
    PROVE  Linked(Dropped(l, a), F \ {a}, n)
<1>1. PICK d : d = Dropped(l, a)
  OBVIOUS
<1>2. d = [i \in Index |-> d[i]] /\ \A i \in Index : d[i] = RemoveFirst(l[i], a)
  BY <1>1 DEF Dropped
<1>3. ASSUME NEW i \in Index PROVE InList(d[i], F \ {a}, n, i)
  <2>1. InList(l[i], F, n, i)
    BY DEF Linked
  <2> QED BY <1>2, <2>1, RemovedFrom
<1> QED BY <1>1, <1>2, <1>3 DEF Linked

\* A chunk goes before the first one that is not smaller.
Placed(q, n, a) ==
    LET k == SelectInSeq(q, LAMBDA x : n[x].size >= n[a].size)
    IN  IF k = 0 THEN Append(q, a) ELSE InsertAt(q, k, a)

LEMMA PlaceOf ==
    ASSUME NEW q \in Seq(Addr), NEW n, NEW a \in Addr
    PROVE  \E k \in 1 .. Len(q) + 1 :
              /\ Placed(q, n, a) = InsertAt(q, k, a)
              /\ \A j \in 1 .. k - 1 : ~(n[q[j]].size >= n[a].size)
              /\ k <= Len(q) => n[q[k]].size >= n[a].size
<1> DEFINE I == {i \in 1 .. Len(q) : n[q[i]].size >= n[a].size}
           k0 == SelectInSeq(q, LAMBDA x : n[x].size >= n[a].size)
<1>0. Len(q) \in Nat
  OBVIOUS
<1>1. k0 = IF I # {} THEN Min(I) ELSE 0
  BY DEF SelectInSeq
<1>2. Placed(q, n, a) = IF k0 = 0 THEN Append(q, a) ELSE InsertAt(q, k0, a)
  BY DEF Placed
<1> HIDE DEF k0
<1>3. CASE I = {}
  <2>1. Placed(q, n, a) = InsertAt(q, Len(q) + 1, a)
    BY <1>1, <1>2, <1>3, AppendIsInsert
  <2>2. Len(q) + 1 \in 1 .. Len(q) + 1 /\ ~(Len(q) + 1 <= Len(q)) /\ 1 .. (Len(q) + 1) - 1 = 1 .. Len(q)
    BY <1>0
  <2>3. \A j \in 1 .. (Len(q) + 1) - 1 : ~(n[q[j]].size >= n[a].size)
    BY <1>3, <2>2
  <2> QED BY <2>1, <2>2, <2>3
<1>4. CASE I # {}
  <2>1. I \in SUBSET Nat
    OBVIOUS
  <2>2. Min(I) \in I /\ \A m \in I : Min(I) <= m
    BY <1>4, <2>1, MinOfNumbers
  <2>3. PICK k : k = Min(I)
    OBVIOUS
  <2>4. k \in 1 .. Len(q) /\ n[q[k]].size >= n[a].size /\ \A m \in I : k <= m
    BY <2>2, <2>3
  <2> HIDE DEF I
  <2>5. k0 = k /\ k # 0 /\ k \in 1 .. Len(q) + 1
    BY <1>0, <1>1, <1>4, <2>3, <2>4
  <2>6. ASSUME NEW j \in 1 .. k - 1 PROVE ~(n[q[j]].size >= n[a].size)
    <3>1. j \in 1 .. Len(q) /\ ~(k <= j)
      BY <1>0, <2>4
    <3> QED BY <2>4, <3>1 DEF I
  <2> QED BY <1>2, <2>4, <2>5, <2>6
<1> QED BY <1>3, <1>4

Inserted(r, q, k, a) ==
    /\ r \in Seq(Addr) /\ Len(r) = Len(q) + 1
    /\ \A j \in 1 .. Len(q) + 1 : r[j] = IF j < k THEN q[j] ELSE IF j = k THEN a ELSE q[j - 1]

LEMMA InsertedEntries ==
    ASSUME NEW q \in Seq(Addr), NEW k \in 1 .. Len(q) + 1, NEW a \in Addr
    PROVE  Inserted(InsertAt(q, k, a), q, k, a)
<1>1. InsertAt(q, k, a) \in Seq(Addr) /\ Len(InsertAt(q, k, a)) = Len(q) + 1
  BY InsertAtProperties
<1>2. \A j \in 1 .. Len(q) + 1 : InsertAt(q, k, a)[j] = IF j < k THEN q[j] ELSE IF j = k THEN a ELSE q[j - 1]
  BY InsertAtProperties
<1> QED BY <1>1, <1>2, Zenon DEF Inserted

LEMMA PlacedIn ==
    ASSUME NEW q, NEW F, NEW n, NEW i, InList(q, F, n, i),
           NEW a \in Addr, a \notin F, mm_size2ndx(n[a].size) = i,
           \A x \in F \cup {a} : n[x].size \in Nat
    PROVE  InList(Placed(q, n, a), F \cup {a}, n, i)
<1>0. q \in Seq(Addr) /\ IsInjective(q) /\ Sorted(q, n) /\ ToSet(q) = {x \in F : mm_size2ndx(n[x].size) = i}
  BY DEF InList
<1>1. PICK k \in 1 .. Len(q) + 1 :
              /\ Placed(q, n, a) = InsertAt(q, k, a)
              /\ \A j \in 1 .. k - 1 : ~(n[q[j]].size >= n[a].size)
              /\ k <= Len(q) => n[q[k]].size >= n[a].size
  BY <1>0, PlaceOf
<1>2. PICK r : r = Placed(q, n, a)
  OBVIOUS
<1>3. /\ r \in Seq(Addr) /\ Len(r) = Len(q) + 1
      /\ \A j \in 1 .. Len(q) + 1 : r[j] = IF j < k THEN q[j] ELSE IF j = k THEN a ELSE q[j - 1]
  <2>1. r = InsertAt(q, k, a)
    BY <1>1, <1>2
  <2>2. Inserted(r, q, k, a)
    BY <1>0, <2>1, InsertedEntries
  <2> QED BY <2>2 DEF Inserted
<1>4. a \notin ToSet(q)
  BY <1>0
<1>5. ToSet(r) = ToSet(q) \cup {a} /\ IsInjective(r)
  BY <1>0, <1>1, <1>2, <1>4, InsertAtElements
<1>6. ToSet(r) = {x \in F \cup {a} : mm_size2ndx(n[x].size) = i}
  BY <1>0, <1>5
<1>7. Len(q) \in Nat /\ \A j \in 1 .. Len(q) : n[q[j]].size \in Nat
  BY <1>0, Elements
<1>8. \A j \in 1 .. k - 1 : n[q[j]].size <= n[a].size
  <2> TAKE j \in 1 .. k - 1
  <2>1. j \in 1 .. Len(q) /\ ~(n[q[j]].size >= n[a].size)
    BY <1>1, <1>7
  <2> QED BY <1>7, <2>1
<1>9. \A j \in k .. Len(q) : n[a].size <= n[q[j]].size
  <2> TAKE j \in k .. Len(q)
  <2>1. k \in 1 .. Len(q) /\ j \in 1 .. Len(q) /\ k <= j /\ k <= Len(q)
    BY <1>7
  <2>2. n[q[k]].size <= n[q[j]].size
    BY <1>0, <2>1 DEF Sorted
  <2> QED BY <1>1, <1>7, <2>1, <2>2
<1>e. ASSUME NEW j \in 1 .. Len(r)
      PROVE  /\ j < k => r[j] = q[j] /\ j \in 1 .. k - 1 /\ j \in 1 .. Len(q)
             /\ j = k => r[j] = a
             /\ k < j => r[j] = q[j - 1] /\ j - 1 \in k .. Len(q) /\ j - 1 \in 1 .. Len(q)
  <2>1. j \in 1 .. Len(q) + 1 /\ j \in Int /\ k \in Int
    BY <1>3, <1>7
  <2>2. j < k => r[j] = q[j] /\ j \in 1 .. k - 1 /\ j \in 1 .. Len(q)
    BY <1>3, <1>7, <2>1
  <2>3. j = k => r[j] = a
    BY <1>3, <2>1
  <2>4. k < j => r[j] = q[j - 1] /\ j - 1 \in k .. Len(q) /\ j - 1 \in 1 .. Len(q)
    BY <1>3, <1>7, <2>1
  <2> QED BY <2>2, <2>3, <2>4
<1>10. Sorted(r, n)
  <2> SUFFICES ASSUME NEW j \in 1 .. Len(r), NEW m \in 1 .. Len(r), j <= m
               PROVE  n[r[j]].size <= n[r[m]].size
    BY DEF Sorted
  <2>0. j \in Int /\ m \in Int /\ k \in Int
    BY <1>3, <1>7
  <2>1. CASE j = m
    <3>1. r[j] \in F \cup {a}
      BY <1>3, <1>6, Elements
    <3> QED BY <2>1, <3>1
  <2>2. CASE j < m /\ m < k
    <3>1. j \in 1 .. Len(q) /\ m \in 1 .. Len(q) /\ r[j] = q[j] /\ r[m] = q[m]
      BY <1>e, <2>0, <2>2
    <3> QED BY <1>0, <2>2, <3>1 DEF Sorted
  <2>3. CASE j < m /\ m = k
    <3>1. j \in 1 .. k - 1 /\ r[j] = q[j] /\ r[m] = a
      BY <1>e, <2>0, <2>3
    <3> QED BY <1>8, <3>1
  <2>4. CASE j < k /\ k < m
    <3>1. j \in 1 .. Len(q) /\ m - 1 \in 1 .. Len(q) /\ j <= m - 1 /\ r[j] = q[j] /\ r[m] = q[m - 1]
      BY <1>e, <2>0, <2>4
    <3> QED BY <1>0, <3>1 DEF Sorted
  <2>5. CASE j = k /\ k < m
    <3>1. m - 1 \in k .. Len(q) /\ r[j] = a /\ r[m] = q[m - 1]
      BY <1>e, <2>0, <2>5
    <3> QED BY <1>9, <3>1
  <2>6. CASE k < j /\ j < m
    <3>1. /\ j - 1 \in 1 .. Len(q) /\ m - 1 \in 1 .. Len(q) /\ j - 1 <= m - 1
          /\ r[j] = q[j - 1] /\ r[m] = q[m - 1]
      BY <1>e, <2>0, <2>6
    <3> QED BY <1>0, <3>1 DEF Sorted
  <2> QED BY <2>0, <2>1, <2>2, <2>3, <2>4, <2>5, <2>6
<1> QED BY <1>2, <1>3, <1>5, <1>6, <1>10 DEF InList

Joined(l, n, a) == [l EXCEPT ![mm_size2ndx(n[a].size)] = Placed(@, n, a)]

LEMMA LinkedJoin ==
    ASSUME NEW l, NEW F, NEW n, Linked(l, F, n), NEW a \in Addr, a \notin F,
           \A x \in F \cup {a} : n[x].size \in Nat, n[a].size > 0
    PROVE  Linked(Joined(l, n, a), F \cup {a}, n)
<1>1. PICK i : i = mm_size2ndx(n[a].size)
  OBVIOUS
<1>2. i \in Index
  BY <1>1, SizeIndex
<1>3. PICK j : j = Joined(l, n, a)
  OBVIOUS
<1>4. l = [k \in Index |-> l[k]] /\ \A k \in Index : InList(l[k], F, n, k)
  BY DEF Linked
<1>5. j = [l EXCEPT ![i] = Placed(l[i], n, a)]
  BY <1>1, <1>3 DEF Joined
<1>6. /\ j = [k \in Index |-> j[k]] /\ j[i] = Placed(l[i], n, a)
      /\ \A k \in Index \ {i} : j[k] = l[k]
  BY <1>2, <1>4, <1>5
<1>7. InList(j[i], F \cup {a}, n, i)
  BY <1>1, <1>2, <1>4, <1>6, PlacedIn
<1>8. ASSUME NEW k \in Index, k # i PROVE InList(j[k], F \cup {a}, n, k)
  <2>1. {x \in F \cup {a} : mm_size2ndx(n[x].size) = k} = {x \in F : mm_size2ndx(n[x].size) = k}
    BY <1>1, <1>8
  <2>2. InList(l[k], F, n, k) /\ j[k] = l[k]
    BY <1>4, <1>6, <1>8
  <2> QED BY <2>1, <2>2 DEF InList
<1> QED BY <1>3, <1>6, <1>7, <1>8 DEF Linked

-----------------------------------------------------------------------------
(***************************************************************************)
(* Heap values, and the changes to the headers that the calls make.        *)
(***************************************************************************)
Val(n, l) == [node |-> n, nodelist |-> l]

Put(n, a, header) == [x \in DOMAIN n \cup {a} |-> IF x = a THEN header ELSE n[x]]
Without(n, a) == [x \in DOMAIN n \ {a} |-> n[x]]
Sized(n, a, s) == [n EXCEPT ![a].size = s]
Preceded(n, a, s) == [n EXCEPT ![a].preceding = s]
Flagged(n, a, b) == [n EXCEPT ![a].allocated = b]
Taken(n, a) == Flagged(n, a, TRUE)
Freed(n, a) == Flagged(n, a, FALSE)

LEMMA ValFields ==
    ASSUME NEW n, NEW l
    PROVE  Val(n, l).node = n /\ Val(n, l).nodelist = l
BY DEF Val

LEMMA WriteValue ==
    ASSUME NEW n, NEW l, NEW a, NEW header
    PROVE  Write(Val(n, l), a, header) = Val(Put(n, a, header), l)
BY DEF Val, Write, Put

LEMMA DropValue ==
    ASSUME NEW n, NEW l, NEW a
    PROVE  Drop(Val(n, l), a) = Val(Without(n, a), l)
BY DEF Val, Drop, Without

LEMMA SetSizeValue ==
    ASSUME NEW n, NEW l, NEW a, NEW s
    PROVE  SetSize(Val(n, l), a, s) = Val(Sized(n, a, s), l)
BY DEF Val, SetSize, Sized

LEMMA SetPrecedingValue ==
    ASSUME NEW n, NEW l, NEW a, NEW s
    PROVE  SetPreceding(Val(n, l), a, s) = Val(Preceded(n, a, s), l)
BY DEF Val, SetPreceding, Preceded

LEMMA FlagValue ==
    ASSUME NEW n, NEW l, NEW a, NEW b
    PROVE  SetAllocated(Val(n, l), a, b) = Val(Flagged(n, a, b), l)
BY DEF Val, SetAllocated, Flagged

LEMMA AllocatedValue ==
    ASSUME NEW n, NEW l, NEW a
    PROVE  Allocated(Val(n, l), a) = Val(Taken(n, a), l)
BY FlagValue, Zenon DEF Allocated, Taken

LEMMA ReleaseValue ==
    ASSUME NEW n, NEW l, NEW a
    PROVE  Release(Val(n, l), a) = Val(Freed(n, a), l)
BY FlagValue, Zenon DEF Release, Freed

LEMMA UnlinkValue ==
    ASSUME NEW n, NEW l, NEW a
    PROVE  Unlink(Val(n, l), a) = Val(n, Dropped(l, a))
BY DEF Val, Unlink, Dropped

LEMMA AddFreeValue ==
    ASSUME NEW n, NEW l, NEW a
    PROVE  mm_addfreechunk(Val(n, l), a) = Val(n, Joined(l, n, a))
BY DEF Val, mm_addfreechunk, Joined, Placed

\* Functions from addresses to headers.
IsTable(n) == n = [x \in DOMAIN n |-> n[x]] /\ \A x \in DOMAIN n : n[x] \in Headers

SameBut(n2, n, a) == DOMAIN n2 = DOMAIN n /\ \A x \in DOMAIN n \ {a} : n2[x] = n[x]

\* The change as a relation between the table before and the table after.
IsSized(n2, n, a, s) ==
    /\ IsTable(n2) /\ DOMAIN n2 = DOMAIN n /\ \A x \in DOMAIN n \ {a} : n2[x] = n[x]
    /\ n2[a].size = s /\ n2[a].preceding = n[a].preceding /\ n2[a].allocated = n[a].allocated

IsPreceded(n2, n, a, s) ==
    /\ IsTable(n2) /\ DOMAIN n2 = DOMAIN n /\ \A x \in DOMAIN n \ {a} : n2[x] = n[x]
    /\ n2[a].size = n[a].size /\ n2[a].preceding = s /\ n2[a].allocated = n[a].allocated

IsPut(n2, n, a, header) ==
    /\ IsTable(n2) /\ DOMAIN n2 = DOMAIN n \cup {a} /\ n2[a] = header
    /\ \A x \in DOMAIN n \ {a} : n2[x] = n[x]

IsWithout(n2, n, a) ==
    IsTable(n2) /\ DOMAIN n2 = DOMAIN n \ {a} /\ \A x \in DOMAIN n \ {a} : n2[x] = n[x]

LEMMA SizedFacts ==
    ASSUME NEW n, IsTable(n), NEW a, a \in DOMAIN n, NEW s, s \in Nat, NEW n2, n2 = Sized(n, a, s)
    PROVE  IsSized(n2, n, a, s)
BY DEF IsTable, IsSized, Sized, Headers

LEMMA PrecededFacts ==
    ASSUME NEW n, IsTable(n), NEW a, a \in DOMAIN n, NEW s, s \in Nat, NEW n2, n2 = Preceded(n, a, s)
    PROVE  IsPreceded(n2, n, a, s)
BY DEF IsTable, IsPreceded, Preceded, Headers

LEMMA TakenFacts ==
    ASSUME NEW n, IsTable(n), NEW a \in DOMAIN n
    PROVE  /\ IsTable(Taken(n, a)) /\ SameBut(Taken(n, a), n, a)
           /\ Taken(n, a)[a].size = n[a].size
           /\ Taken(n, a)[a].preceding = n[a].preceding
           /\ Taken(n, a)[a].allocated
BY DEF IsTable, SameBut, Taken, Flagged, Headers

LEMMA FreedFacts ==
    ASSUME NEW n, IsTable(n), NEW a \in DOMAIN n
    PROVE  /\ IsTable(Freed(n, a)) /\ SameBut(Freed(n, a), n, a)
           /\ Freed(n, a)[a].size = n[a].size
           /\ Freed(n, a)[a].preceding = n[a].preceding
           /\ ~Freed(n, a)[a].allocated
BY DEF IsTable, SameBut, Freed, Flagged, Headers

LEMMA PutFacts ==
    ASSUME NEW n, IsTable(n), NEW a, NEW header, header \in Headers, NEW n2, n2 = Put(n, a, header)
    PROVE  IsPut(n2, n, a, header)
BY DEF IsTable, IsPut, Put

LEMMA WithoutFacts ==
    ASSUME NEW n, IsTable(n), NEW a, NEW n2, n2 = Without(n, a)
    PROVE  IsWithout(n2, n, a)
BY DEF IsTable, IsWithout, Without

IsHeader(h, s, p, b) == h \in Headers /\ h.size = s /\ h.preceding = p /\ h.allocated = b

LEMMA HeaderFacts ==
    ASSUME NEW s, s \in Nat, NEW p, p \in Nat, NEW b, b \in BOOLEAN, NEW h, h = Header(s, p, b)
    PROVE  IsHeader(h, s, p, b)
BY DEF Header, Headers, IsHeader

-----------------------------------------------------------------------------
(***************************************************************************)
(* What a cut leaves.                                                      *)
(***************************************************************************)
FreeOf(n) == {x \in DOMAIN n : ~n[x].allocated}
Alloc(n) == {x \in DOMAIN n : n[x].allocated}

LEMMA NoneInside ==
    ASSUME NEW n, Tiled(n), NEW a \in DOMAIN n, a # heapend, NEW x \in DOMAIN n, a <= x, x < Nx(n, a)
    PROVE  x = a
<1>1. a \in Nat /\ x \in Nat /\ Nx(n, a) \in Nat
  BY TiledTypes
<1>2. ~(a < x)
  BY <1>1 DEF Tiled
<1> QED BY <1>1, <1>2

LEMMA TableOfTiled == ASSUME NEW n, Tiled(n) PROVE IsTable(n)
BY DEF Tiled, IsNodes, IsTable

LEMMA CutOutside ==
    ASSUME NEW n, Tiled(n), NEW n2, NEW a \in DOMAIN n, NEW e \in DOMAIN n,
           NEW m \in Nat, a < m, m <= e, Cut(n2, n, a, m, e)
    PROVE  /\ \A x : x \in DOMAIN n2 <=> (x \in DOMAIN n /\ (x < a \/ e <= x)) \/ x \in {a, m}
           /\ \A x \in DOMAIN n : x < a \/ e <= x => /\ n2[x].size = n[x].size
                                                     /\ n2[x].allocated = n[x].allocated
<1>0. \A x \in DOMAIN n : x \in Nat
  BY TiledTypes
<1>1. DOMAIN n2 = {x \in DOMAIN n : x <= a \/ e <= x} \cup {m}
  BY DEF Cut
<1>2. \A x \in DOMAIN n : x < a \/ e < x => n2[x] = n[x]
  BY DEF Cut
<1>3. n2[e].size = n[e].size /\ n2[e].allocated = n[e].allocated
  BY DEF Cut
<1>4. \A x : x \in DOMAIN n2 <=> (x \in DOMAIN n /\ (x < a \/ e <= x)) \/ x \in {a, m}
  BY <1>0, <1>1
<1>5. ASSUME NEW x \in DOMAIN n, x < a \/ e <= x
      PROVE  n2[x].size = n[x].size /\ n2[x].allocated = n[x].allocated
  <2>1. x < a \/ e < x \/ x = e
    BY <1>0, <1>5
  <2> QED BY <1>2, <1>3, <2>1
<1> QED BY <1>4, <1>5

\* A cut that follows the joining of what it covers is one cut.
LEMMA CutAgain ==
    ASSUME NEW n, Tiled(n), NEW a \in DOMAIN n, NEW b \in DOMAIN n, NEW e \in DOMAIN n, NEW e2 \in DOMAIN n,
           NEW m \in Nat, b <= a, a < e, e <= e2, b < m, m <= e2,
           NEW n1, Cut(n1, n, a, e, e), NEW n2, Cut(n2, n1, b, m, e2)
    PROVE  Cut(n2, n, b, m, e2)
<1>0. \A x \in DOMAIN n : x \in Nat
  BY TiledTypes
<1>1. DOMAIN n1 = {x \in DOMAIN n : x <= a \/ e <= x}
  BY <1>0 DEF Cut
<1>2. DOMAIN n2 = {x \in DOMAIN n1 : x <= b \/ e2 <= x} \cup {m}
  BY DEF Cut
<1>3. DOMAIN n2 = {x \in DOMAIN n : x <= b \/ e2 <= x} \cup {m}
  BY <1>0, <1>1, <1>2
<1>4. n1[b].preceding = n[b].preceding
  <2>1. b = a \/ b < a
    BY <1>0
  <2> QED BY <2>1 DEF Cut
<1>5. n1[e2].size = n[e2].size /\ n1[e2].allocated = n[e2].allocated
  <2>1. e = e2 \/ e < e2
    BY <1>0
  <2> QED BY <2>1 DEF Cut
<1>6. ASSUME NEW x \in DOMAIN n, x < b \/ e2 < x PROVE n2[x] = n[x]
  <2>1. x < a \/ e < x
    BY <1>0, <1>6
  <2>2. n1[x] = n[x]
    BY <2>1 DEF Cut
  <2>3. x \in DOMAIN n1
    BY <1>0, <1>1, <2>1
  <2> QED BY <1>6, <2>2, <2>3 DEF Cut
<1>7. /\ IsNodes(n2) /\ n2[b].size = m - b /\ n2[b].preceding = n1[b].preceding
      /\ m < e2 => n2[m].size = e2 - m /\ n2[m].preceding = m - b
      /\ n2[e2].size = n1[e2].size /\ n2[e2].allocated = n1[e2].allocated
      /\ n2[e2].preceding = IF m < e2 THEN e2 - m ELSE e2 - b
  BY DEF Cut
<1> QED BY <1>3, <1>4, <1>5, <1>6, <1>7 DEF Cut

\* A cut does not depend on the allocated bit of its first chunk.
LEMMA CutFlag ==
    ASSUME NEW n, Tiled(n), NEW a \in DOMAIN n, NEW e \in DOMAIN n,
           NEW m \in Nat, a < m, m <= e, NEW n1, Cut(n1, n, a, m, e),
           NEW n2, IsTable(n2), SameBut(n2, n1, a), n2[a].size = n1[a].size, n2[a].preceding = n1[a].preceding
    PROVE  Cut(n2, n, a, m, e)
<1>0. \A x \in DOMAIN n : x \in Nat
  BY TiledTypes
<1>1. IsNodes(n1) /\ DOMAIN n1 = {x \in DOMAIN n : x <= a \/ e <= x} \cup {m}
  BY DEF Cut
<1>2. DOMAIN n2 = DOMAIN n1 /\ \A x \in DOMAIN n1 \ {a} : n2[x] = n1[x]
  BY DEF SameBut
<1>3. IsNodes(n2)
  BY <1>1, <1>2 DEF IsNodes, IsTable
<1>4. m # a /\ e # a /\ a \in DOMAIN n1 /\ m \in DOMAIN n1 /\ e \in DOMAIN n1
  BY <1>0, <1>1
<1>5. n2[m] = n1[m] /\ n2[e] = n1[e]
  BY <1>2, <1>4
<1>6. ASSUME NEW x \in DOMAIN n, x < a \/ e < x PROVE n2[x] = n[x]
  <2>1. x \in DOMAIN n1 /\ x # a
    BY <1>0, <1>1, <1>6
  <2>2. n1[x] = n[x]
    BY <1>6 DEF Cut
  <2> QED BY <1>2, <2>1, <2>2
<1>7. /\ n1[a].size = m - a /\ n1[a].preceding = n[a].preceding
      /\ m < e => n1[m].size = e - m /\ n1[m].preceding = m - a
      /\ n1[e].size = n[e].size /\ n1[e].allocated = n[e].allocated
      /\ n1[e].preceding = IF m < e THEN e - m ELSE e - a
  BY DEF Cut
<1> QED BY <1>1, <1>2, <1>3, <1>5, <1>6, <1>7 DEF Cut

\* The bit of a chunk that stays as it is.
LEMMA FlagCut ==
    ASSUME NEW n, Tiled(n), NEW a \in DOMAIN n, a # heapend,
           NEW n2, IsTable(n2), SameBut(n2, n, a), n2[a].size = n[a].size, n2[a].preceding = n[a].preceding
    PROVE  Cut(n2, n, a, Nx(n, a), Nx(n, a))
<1>0. \A x \in DOMAIN n : x \in Nat
  BY TiledTypes
<1>1. PICK e : e = Nx(n, a)
  OBVIOUS
<1>2. e \in DOMAIN n /\ e \in Nat /\ a < e /\ n[e].preceding = n[a].size /\ e - a = n[a].size
  <2>1. Nx(n, a) \in DOMAIN n /\ n[Nx(n, a)].preceding = n[a].size
    BY DEF Tiled
  <2>2. n[a].size \in Nat /\ a < Nx(n, a) /\ a \in Nat
    BY TiledTypes
  <2>3. Nx(n, a) - a = n[a].size
    BY <2>2 DEF Nx
  <2> QED BY <1>0, <1>1, <2>1, <2>2, <2>3
<1>3. \A x \in DOMAIN n : x <= a \/ e <= x
  <2> TAKE x \in DOMAIN n
  <2>1. a < x => e <= x
    BY <1>1 DEF Tiled
  <2> QED BY <1>0, <2>1
<1>4. DOMAIN n2 = DOMAIN n /\ \A x \in DOMAIN n \ {a} : n2[x] = n[x]
  BY DEF SameBut
<1>5. DOMAIN n2 = {x \in DOMAIN n : x <= a \/ e <= x} \cup {e}
  BY <1>2, <1>3, <1>4
<1>6. IsNodes(n2)
  BY <1>4 DEF IsNodes, IsTable, Tiled
<1>7. e # a /\ n2[e] = n[e]
  BY <1>0, <1>2, <1>4
<1>8. ~(e < e) /\ \A x \in DOMAIN n : x < a \/ e < x => x # a
  BY <1>0, <1>2
<1>9. Cut(n2, n, a, e, e)
  BY <1>2, <1>4, <1>5, <1>6, <1>7, <1>8 DEF Cut
<1> QED BY <1>1, <1>9

\* The pairs of free neighbours.
Pair(n, x) == x \in DOMAIN n /\ x # heapend /\ ~n[x].allocated /\ ~n[Nx(n, x)].allocated

NoPairs(n) == \A x \in DOMAIN n : ~Pair(n, x)

LEMMA CutPairs ==
    ASSUME NEW n, Tiled(n), NEW n2, NEW a \in DOMAIN n \ {heapbase}, NEW e \in DOMAIN n,
           NEW m \in Nat, a < m, m <= e, Cut(n2, n, a, m, e), NEW x, Pair(n2, x)
    PROVE  \/ Pair(n, x)
           \/ x \in DOMAIN n /\ x < a /\ Nx(n, x) = a /\ ~n[x].allocated /\ ~n2[a].allocated
           \/ x = a /\ ~n2[a].allocated /\ ~n2[m].allocated
           \/ x = m /\ m < e /\ ~n2[m].allocated /\ ~n[e].allocated
<1>0. \A y \in DOMAIN n : y \in Nat /\ Nx(n, y) \in Nat /\ y < Nx(n, y)
  BY TiledTypes
<1>1. x \in DOMAIN n2 /\ x # heapend /\ ~n2[x].allocated /\ ~n2[Nx(n2, x)].allocated
  BY DEF Pair
<1>2. (x \in DOMAIN n /\ (x < a \/ e <= x)) \/ x \in {a, m}
  BY <1>1, CutOutside
<1>3. CASE x \in DOMAIN n /\ x < a
  <2>1. n2[x] = n[x] /\ Nx(n2, x) = Nx(n, x)
    BY <1>3 DEF Cut, Nx
  <2>2. Nx(n, x) \in DOMAIN n /\ Nx(n, x) <= a
    BY <1>1, <1>3 DEF Tiled
  <2>3. CASE Nx(n, x) = a
    BY <1>1, <1>3, <2>1, <2>3
  <2>4. CASE Nx(n, x) # a
    <3>1. Nx(n, x) < a
      BY <1>0, <2>2, <2>4
    <3>2. n2[Nx(n, x)] = n[Nx(n, x)]
      BY <2>2, <3>1 DEF Cut
    <3> QED BY <1>1, <1>3, <2>1, <3>2 DEF Pair
  <2> QED BY <2>3, <2>4
<1>4. CASE x = a
  <2>1. Nx(n2, a) = m
    BY <1>0 DEF Cut, Nx
  <2> QED BY <1>1, <1>4, <2>1
<1>5. CASE x = m /\ m < e
  <2>1. Nx(n2, m) = e /\ n2[e].allocated = n[e].allocated
    BY <1>0, <1>5 DEF Cut, Nx
  <2> QED BY <1>1, <1>5, <2>1
<1>6. CASE x \in DOMAIN n /\ e <= x
  <2>1. n2[x].size = n[x].size /\ n2[x].allocated = n[x].allocated
    BY <1>6, CutOutside
  <2>2. Nx(n2, x) = Nx(n, x)
    BY <2>1 DEF Nx
  <2>3. Nx(n, x) \in DOMAIN n /\ e <= Nx(n, x)
    BY <1>0, <1>1, <1>6 DEF Tiled
  <2>4. n2[Nx(n, x)].allocated = n[Nx(n, x)].allocated
    BY <2>3, CutOutside
  <2> QED BY <1>1, <1>6, <2>1, <2>2, <2>4 DEF Pair
<1> QED BY <1>0, <1>2, <1>3, <1>4, <1>5, <1>6

-----------------------------------------------------------------------------
(***************************************************************************)
(* The header changes of the calls are cuts.                               *)
(***************************************************************************)
\* A table that differs from a tiling as a cut does.
Recut(n2, n, a, m, e) ==
    /\ IsTable(n2)
    /\ DOMAIN n2 = {x \in DOMAIN n : x <= a \/ e <= x} \cup {m}
    /\ n2[a].size = m - a /\ n2[a].preceding = n[a].preceding
    /\ m < e => n2[m].size = e - m /\ n2[m].preceding = m - a
    /\ n2[e].size = n[e].size /\ n2[e].allocated = n[e].allocated
    /\ n2[e].preceding = IF m < e THEN e - m ELSE e - a
    /\ \A x \in DOMAIN n : x < a \/ e < x => n2[x] = n[x]

LEMMA RecutCuts ==
    ASSUME NEW n, Tiled(n), NEW n2, NEW a \in DOMAIN n, NEW e \in DOMAIN n,
           NEW m \in Nat, a < m, m <= e, Recut(n2, n, a, m, e)
    PROVE  Cut(n2, n, a, m, e)
<1>0. \A x \in DOMAIN n : x \in Nat /\ x \in Addr /\ heapbase <= x /\ x <= heapend /\ n[x].size > 0
  BY TiledTypes DEF Tiled, IsNodes
<1>1. m \in Addr
  BY <1>0, Limits
<1>2. DOMAIN n2 = {x \in DOMAIN n : x <= a \/ e <= x} \cup {m}
  BY DEF Recut
<1>3. DOMAIN n2 \subseteq Addr
  BY <1>0, <1>1, <1>2
<1>4. ASSUME NEW x \in DOMAIN n2 PROVE n2[x].size > 0
  <2>1. x = a \/ x = m \/ (x \in DOMAIN n /\ (x < a \/ e < x)) \/ x = e
    BY <1>0, <1>2
  <2>2. CASE x = a
    BY <1>0, <2>2 DEF Recut
  <2>3. CASE x = m /\ m < e
    BY <1>0, <2>3 DEF Recut
  <2>4. CASE x \in DOMAIN n /\ (x < a \/ e < x)
    <3>1. n2[x] = n[x]
      BY <2>4 DEF Recut
    <3> QED BY <1>0, <2>4, <3>1
  <2>5. CASE x = e
    <3>1. n2[e].size = n[e].size
      BY DEF Recut
    <3> QED BY <1>0, <2>5, <3>1
  <2>6. x = m => m < e \/ m = e
    BY <1>0
  <2> QED BY <2>1, <2>2, <2>3, <2>4, <2>5, <2>6
<1>5. IsNodes(n2)
  BY <1>3, <1>4 DEF Recut, IsTable, IsNodes
<1> QED BY <1>5 DEF Recut, Cut

SplitNodes(n, a, s, k) == Preceded(Put(Sized(n, a, s), a + s, Header(k - s, s, FALSE)), a + k, k - s)

LEMMA SplitCut ==
    ASSUME NEW n, Tiled(n), NEW a \in DOMAIN n, a # heapend, NEW k, k = n[a].size,
           NEW s \in Nat, 0 < s, s < k
    PROVE  /\ Cut(SplitNodes(n, a, s, k), n, a, a + s, a + k)
           /\ SplitNodes(n, a, s, k)[a].allocated = n[a].allocated
           /\ ~SplitNodes(n, a, s, k)[a + s].allocated
<1>0. \A x \in DOMAIN n : x \in Nat
  BY TiledTypes
<1>1. a \in Nat /\ k \in Nat /\ IsTable(n)
  BY TiledTypes, TableOfTiled
<1>2. PICK e : e = a + k
  OBVIOUS
<1>3. PICK m : m = a + s
  OBVIOUS
<1>4. e \in DOMAIN n /\ e = Nx(n, a) /\ e \in Nat /\ m \in Nat /\ a < m /\ m < e /\ k - s \in Nat /\ k - s = e - m /\ s = m - a
  BY <1>1, <1>2, <1>3 DEF Nx, Tiled
<1>5. m \notin DOMAIN n /\ \A x \in DOMAIN n : x <= a \/ e <= x
  <2>1. \A x \in DOMAIN n : a < x => e <= x
    BY <1>4 DEF Tiled
  <2> QED BY <1>0, <1>1, <1>4, <2>1
<1>6. PICK n1 : n1 = Sized(n, a, s)
  OBVIOUS
<1>7. /\ IsTable(n1) /\ DOMAIN n1 = DOMAIN n /\ \A x \in DOMAIN n \ {a} : n1[x] = n[x]
      /\ n1[a].size = s /\ n1[a].preceding = n[a].preceding /\ n1[a].allocated = n[a].allocated
  <2>1. IsSized(n1, n, a, s)
    BY <1>1, <1>6, SizedFacts, Zenon
  <2> QED BY <2>1, Zenon DEF IsSized
<1>8. PICK hd : hd = Header(k - s, s, FALSE)
  OBVIOUS
<1>9. hd \in Headers /\ hd.size = k - s /\ hd.preceding = s /\ ~hd.allocated
  <2>1. IsHeader(hd, k - s, s, FALSE)
    BY <1>4, <1>8, HeaderFacts, Zenon
  <2> QED BY <2>1 DEF IsHeader
<1>10. PICK n2 : n2 = Put(n1, m, hd)
  OBVIOUS
<1>11. /\ IsTable(n2) /\ DOMAIN n2 = DOMAIN n1 \cup {m} /\ n2[m] = hd
       /\ \A x \in DOMAIN n1 \ {m} : n2[x] = n1[x]
  <2>1. IsPut(n2, n1, m, hd)
    BY <1>7, <1>9, <1>10, PutFacts, Zenon
  <2> QED BY <2>1, Zenon DEF IsPut
<1>12. PICK n3 : n3 = Preceded(n2, e, k - s)
  OBVIOUS
<1>13. /\ IsTable(n3) /\ DOMAIN n3 = DOMAIN n2 /\ \A x \in DOMAIN n2 \ {e} : n3[x] = n2[x]
       /\ n3[e].size = n2[e].size /\ n3[e].preceding = k - s /\ n3[e].allocated = n2[e].allocated
  <2>1. e \in DOMAIN n2
    BY <1>4, <1>7, <1>11
  <2>2. IsPreceded(n3, n2, e, k - s)
    BY <1>4, <1>11, <1>12, <2>1, PrecededFacts, Zenon
  <2> QED BY <2>2, Zenon DEF IsPreceded
<1>14. n3 = SplitNodes(n, a, s, k)
  BY <1>2, <1>3, <1>6, <1>8, <1>10, <1>12 DEF SplitNodes
<1>15. a # m /\ a # e /\ m # e /\ ~(e < m)
  BY <1>1, <1>4
<1>16. n3[a] = n1[a] /\ n3[m] = hd
  BY <1>5, <1>7, <1>11, <1>13, <1>15
<1>17. n2[e] = n[e]
  BY <1>4, <1>7, <1>11, <1>15
<1>18. ASSUME NEW x \in DOMAIN n, x < a \/ e < x PROVE n3[x] = n[x]
  <2>1. x # a /\ x # m /\ x # e
    BY <1>0, <1>1, <1>4, <1>5, <1>18
  <2> QED BY <1>7, <1>11, <1>13, <2>1
<1>19. DOMAIN n3 = {x \in DOMAIN n : x <= a \/ e <= x} \cup {m}
  BY <1>5, <1>7, <1>11, <1>13
<1>20. Recut(n3, n, a, m, e)
  BY <1>4, <1>7, <1>9, <1>13, <1>16, <1>17, <1>18, <1>19 DEF Recut
<1>21. Cut(n3, n, a, m, e)
  <2>1. m <= e
    BY <1>4
  <2> QED BY <1>4, <1>20, <2>1, RecutCuts
<1> QED BY <1>2, <1>3, <1>7, <1>9, <1>14, <1>16, <1>21

JoinNodes(n, a, b, s) == Preceded(Without(Sized(n, a, s), b), a + s, s)

LEMMA JoinCut ==
    ASSUME NEW n, Tiled(n), NEW a \in DOMAIN n, a # heapend, NEW b, b = Nx(n, a), b # heapend,
           NEW s, s = n[a].size + n[b].size
    PROVE  /\ Cut(JoinNodes(n, a, b, s), n, a, a + s, a + s)
           /\ JoinNodes(n, a, b, s)[a].allocated = n[a].allocated
           /\ a + s = Nx(n, b) /\ a + s \in DOMAIN n /\ b \in DOMAIN n /\ s \in Nat /\ a < b /\ b < a + s
<1>0. \A x \in DOMAIN n : x \in Nat /\ n[x].size \in Nat /\ n[x].size > 0 /\ x < Nx(n, x)
  BY TiledTypes
<1>1. b \in DOMAIN n /\ Nx(n, b) \in DOMAIN n /\ IsTable(n)
  BY TableOfTiled DEF Tiled
<1>2. PICK e : e = a + s
  OBVIOUS
<1>3. e = Nx(n, b) /\ s \in Nat /\ a < b /\ b < e /\ e - a = s /\ a < e /\ ~(e < e)
  BY <1>0, <1>1, <1>2 DEF Nx
<1>4. \A x \in DOMAIN n : x <= a \/ x = b \/ e <= x
  <2> TAKE x \in DOMAIN n
  <2>1. a < x => b <= x
    BY DEF Tiled
  <2>2. b < x => e <= x
    BY <1>1, <1>3 DEF Tiled
  <2> QED BY <1>0, <1>1, <2>1, <2>2
<1>5. PICK n1 : n1 = Sized(n, a, s)
  OBVIOUS
<1>6. /\ IsTable(n1) /\ DOMAIN n1 = DOMAIN n /\ \A x \in DOMAIN n \ {a} : n1[x] = n[x]
      /\ n1[a].size = s /\ n1[a].preceding = n[a].preceding /\ n1[a].allocated = n[a].allocated
  <2>1. IsSized(n1, n, a, s)
    BY <1>1, <1>3, <1>5, SizedFacts, Zenon
  <2> QED BY <2>1, Zenon DEF IsSized
<1>7. PICK n2 : n2 = Without(n1, b)
  OBVIOUS
<1>8. IsTable(n2) /\ DOMAIN n2 = DOMAIN n1 \ {b} /\ \A x \in DOMAIN n1 \ {b} : n2[x] = n1[x]
  <2>1. IsWithout(n2, n1, b)
    BY <1>6, <1>7, WithoutFacts, Zenon
  <2> QED BY <2>1, Zenon DEF IsWithout
<1>9. PICK n3 : n3 = Preceded(n2, e, s)
  OBVIOUS
<1>10. e \in DOMAIN n /\ e # a /\ e # b /\ a # b
  BY <1>0, <1>1, <1>3
<1>11. /\ IsTable(n3) /\ DOMAIN n3 = DOMAIN n2 /\ \A x \in DOMAIN n2 \ {e} : n3[x] = n2[x]
       /\ n3[e].size = n2[e].size /\ n3[e].preceding = s /\ n3[e].allocated = n2[e].allocated
  <2>1. e \in DOMAIN n2
    BY <1>6, <1>8, <1>10
  <2>2. IsPreceded(n3, n2, e, s)
    BY <1>3, <1>8, <1>9, <2>1, PrecededFacts, Zenon
  <2> QED BY <2>2, Zenon DEF IsPreceded
<1>12. n3 = JoinNodes(n, a, b, s)
  BY <1>2, <1>5, <1>7, <1>9 DEF JoinNodes
<1>13. n3[a] = n1[a] /\ n2[e] = n[e]
  BY <1>6, <1>8, <1>10, <1>11
<1>14. ASSUME NEW x \in DOMAIN n, x < a \/ e < x PROVE n3[x] = n[x]
  <2>1. x # a /\ x # b /\ x # e
    BY <1>0, <1>1, <1>3, <1>10, <1>14
  <2> QED BY <1>6, <1>8, <1>11, <2>1
<1>15. DOMAIN n3 = {x \in DOMAIN n : x <= a \/ e <= x} \cup {e}
  <2>1. ~(b <= a) /\ ~(e <= b)
    BY <1>0, <1>1, <1>3, <1>10
  <2> QED BY <1>4, <1>6, <1>8, <1>10, <1>11, <2>1
<1>16. Recut(n3, n, a, e, e)
  BY <1>3, <1>6, <1>11, <1>13, <1>14, <1>15 DEF Recut
<1>17. Cut(n3, n, a, e, e)
  <2>1. e <= e /\ e \in Nat
    BY <1>0, <1>10
  <2> QED BY <1>3, <1>10, <1>16, <2>1, RecutCuts
<1> QED BY <1>1, <1>2, <1>3, <1>6, <1>12, <1>13, <1>17
\* A block moves down into the free chunk before it.
ShiftNodes(n, p, a, k, s, t) ==
    Preceded(Put(Sized(Without(n, a), p, k - t), a - t, Header(s + t, k - t, TRUE)), a + s, s + t)

LEMMA ShiftCut ==
    ASSUME NEW n, Tiled(n), NEW p \in DOMAIN n, p # heapend, NEW a, a = Nx(n, p), a # heapend,
           NEW k, k = n[p].size, NEW s, s = n[a].size, NEW t \in Nat, 0 < t, t < k
    PROVE  /\ Cut(ShiftNodes(n, p, a, k, s, t), n, p, a - t, a + s)
           /\ ShiftNodes(n, p, a, k, s, t)[p].allocated = n[p].allocated
           /\ ShiftNodes(n, p, a, k, s, t)[a - t].allocated
           /\ a + s = Nx(n, a) /\ a + s \in DOMAIN n /\ a \in DOMAIN n
           /\ a - t \in Nat /\ p < a - t /\ a - t < a /\ a < a + s
<1>0. \A x \in DOMAIN n : x \in Nat /\ n[x].size \in Nat /\ n[x].size > 0 /\ x < Nx(n, x)
  BY TiledTypes
<1>1. a \in DOMAIN n /\ Nx(n, a) \in DOMAIN n /\ IsTable(n)
  BY TableOfTiled DEF Tiled
<1>2. PICK e : e = a + s
  OBVIOUS
<1>3. PICK m : m = a - t
  OBVIOUS
<1>4. /\ e = Nx(n, a) /\ e \in DOMAIN n /\ e \in Nat /\ m \in Nat /\ p < m /\ m < a /\ a < e /\ m < e /\ p < e
      /\ k - t \in Nat /\ s + t \in Nat /\ k - t = m - p /\ s + t = e - m
  BY <1>0, <1>1, <1>2, <1>3 DEF Nx
<1>5. m \notin DOMAIN n /\ \A x \in DOMAIN n : x <= p \/ x = a \/ e <= x
  <2>1. \A x \in DOMAIN n : p < x => a <= x
    BY DEF Tiled
  <2>2. \A x \in DOMAIN n : a < x => e <= x
    BY <1>1, <1>4 DEF Tiled
  <2> QED BY <1>0, <1>1, <1>4, <2>1, <2>2
<1>6. a # p /\ a # m /\ a # e /\ p # m /\ p # e /\ m # e
  BY <1>0, <1>1, <1>4
<1>7. PICK n1 : n1 = Without(n, a)
  OBVIOUS
<1>8. IsTable(n1) /\ DOMAIN n1 = DOMAIN n \ {a} /\ \A x \in DOMAIN n \ {a} : n1[x] = n[x]
  <2>1. IsWithout(n1, n, a)
    BY <1>1, <1>7, WithoutFacts, Zenon
  <2> QED BY <2>1, Zenon DEF IsWithout
<1>9. PICK n2 : n2 = Sized(n1, p, k - t)
  OBVIOUS
<1>10. /\ IsTable(n2) /\ DOMAIN n2 = DOMAIN n1 /\ \A x \in DOMAIN n1 \ {p} : n2[x] = n1[x]
       /\ n2[p].size = k - t /\ n2[p].preceding = n1[p].preceding /\ n2[p].allocated = n1[p].allocated
  <2>1. p \in DOMAIN n1
    BY <1>6, <1>8
  <2>2. IsSized(n2, n1, p, k - t)
    BY <1>4, <1>8, <1>9, <2>1, SizedFacts, Zenon
  <2> QED BY <2>2, Zenon DEF IsSized
<1>11. PICK hd : hd = Header(s + t, k - t, TRUE)
  OBVIOUS
<1>12. hd \in Headers /\ hd.size = s + t /\ hd.preceding = k - t /\ hd.allocated
  <2>1. IsHeader(hd, s + t, k - t, TRUE)
    BY <1>4, <1>11, HeaderFacts, Zenon
  <2> QED BY <2>1 DEF IsHeader
<1>13. PICK n3 : n3 = Put(n2, m, hd)
  OBVIOUS
<1>14. /\ IsTable(n3) /\ DOMAIN n3 = DOMAIN n2 \cup {m} /\ n3[m] = hd
       /\ \A x \in DOMAIN n2 \ {m} : n3[x] = n2[x]
  <2>1. IsPut(n3, n2, m, hd)
    BY <1>10, <1>12, <1>13, PutFacts, Zenon
  <2> QED BY <2>1, Zenon DEF IsPut
<1>15. PICK n4 : n4 = Preceded(n3, e, s + t)
  OBVIOUS
<1>16. /\ IsTable(n4) /\ DOMAIN n4 = DOMAIN n3 /\ \A x \in DOMAIN n3 \ {e} : n4[x] = n3[x]
       /\ n4[e].size = n3[e].size /\ n4[e].preceding = s + t /\ n4[e].allocated = n3[e].allocated
  <2>1. e \in DOMAIN n3
    BY <1>4, <1>6, <1>8, <1>10, <1>14
  <2>2. IsPreceded(n4, n3, e, s + t)
    BY <1>4, <1>14, <1>15, <2>1, PrecededFacts, Zenon
  <2> QED BY <2>2, Zenon DEF IsPreceded
<1>17. n4 = ShiftNodes(n, p, a, k, s, t)
  BY <1>2, <1>3, <1>7, <1>9, <1>11, <1>13, <1>15 DEF ShiftNodes
<1>18. n4[p] = n2[p] /\ n4[m] = hd /\ n3[e] = n[e] /\ n1[p] = n[p]
  BY <1>4, <1>6, <1>8, <1>10, <1>14, <1>16
<1>19. ASSUME NEW x \in DOMAIN n, x < p \/ e < x PROVE n4[x] = n[x]
  <2>1. x # p /\ x # m /\ x # e /\ x # a
    BY <1>0, <1>1, <1>4, <1>5, <1>19
  <2> QED BY <1>8, <1>10, <1>14, <1>16, <2>1
<1>20. DOMAIN n4 = {x \in DOMAIN n : x <= p \/ e <= x} \cup {m}
  <2>1. ~(a <= p) /\ ~(e <= a)
    BY <1>0, <1>1, <1>4
  <2> QED BY <1>5, <1>8, <1>10, <1>14, <1>16, <2>1
<1>21. Recut(n4, n, p, m, e)
  BY <1>4, <1>10, <1>12, <1>16, <1>18, <1>19, <1>20 DEF Recut
<1>22. Cut(n4, n, p, m, e)
  <2>1. m <= e
    BY <1>4
  <2> QED BY <1>4, <1>21, <2>1, RecutCuts
<1> QED BY <1>1, <1>2, <1>3, <1>4, <1>10, <1>12, <1>17, <1>18, <1>22

IsShift(n2, n, p, a, m, e) ==
    /\ Cut(n2, n, p, m, e) /\ n2[p].allocated = n[p].allocated /\ n2[m].allocated
    /\ m \in Nat /\ p < m /\ m < a

LEMMA ShiftIsCut ==
    ASSUME NEW n, Tiled(n), NEW p, p \in DOMAIN n, p # heapend, NEW a, a = Nx(n, p), a # heapend,
           NEW k, k = n[p].size, NEW s, s = n[a].size, NEW t, t \in Nat, 0 < t, t < k,
           NEW m, m = a - t, NEW e, e = a + s, NEW n2, n2 = ShiftNodes(n, p, a, k, s, t)
    PROVE  IsShift(n2, n, p, a, m, e)
BY ShiftCut DEF IsShift

\* A block takes the whole free chunk before it.
AbsorbNodes(n, p, a, k, s) ==
    Preceded(Put(Without(n, a), p, Header(k + s, n[p].preceding, TRUE)), a + s, k + s)

LEMMA AbsorbCut ==
    ASSUME NEW n, Tiled(n), NEW p \in DOMAIN n, p # heapend, NEW a, a = Nx(n, p), a # heapend,
           NEW k, k = n[p].size, NEW s, s = n[a].size
    PROVE  /\ Cut(AbsorbNodes(n, p, a, k, s), n, p, a + s, a + s)
           /\ AbsorbNodes(n, p, a, k, s)[p].allocated
           /\ a + s = Nx(n, a) /\ a + s \in DOMAIN n /\ a \in DOMAIN n /\ p < a /\ a < a + s
<1>0. \A x \in DOMAIN n : x \in Nat /\ n[x].size \in Nat /\ n[x].size > 0 /\ x < Nx(n, x) /\ n[x].preceding \in Nat
  BY TiledTypes
<1>1. a \in DOMAIN n /\ Nx(n, a) \in DOMAIN n /\ IsTable(n)
  BY TableOfTiled DEF Tiled
<1>2. PICK e : e = a + s
  OBVIOUS
<1>4. /\ e = Nx(n, a) /\ e \in DOMAIN n /\ e \in Nat /\ p < a /\ a < e /\ p < e
      /\ k + s \in Nat /\ k + s = e - p /\ ~(e < e)
  BY <1>0, <1>1, <1>2 DEF Nx
<1>5. \A x \in DOMAIN n : x <= p \/ x = a \/ e <= x
  <2>1. \A x \in DOMAIN n : p < x => a <= x
    BY DEF Tiled
  <2>2. \A x \in DOMAIN n : a < x => e <= x
    BY <1>1, <1>4 DEF Tiled
  <2> QED BY <1>0, <1>1, <1>4, <2>1, <2>2
<1>6. a # p /\ a # e /\ p # e
  BY <1>0, <1>1, <1>4
<1>7. PICK n1 : n1 = Without(n, a)
  OBVIOUS
<1>8. IsTable(n1) /\ DOMAIN n1 = DOMAIN n \ {a} /\ \A x \in DOMAIN n \ {a} : n1[x] = n[x]
  <2>1. IsWithout(n1, n, a)
    BY <1>1, <1>7, WithoutFacts, Zenon
  <2> QED BY <2>1, Zenon DEF IsWithout
<1>11. PICK hd : hd = Header(k + s, n[p].preceding, TRUE)
  OBVIOUS
<1>12. hd \in Headers /\ hd.size = k + s /\ hd.preceding = n[p].preceding /\ hd.allocated
  <2>1. n[p].preceding \in Nat
    BY <1>0
  <2>2. IsHeader(hd, k + s, n[p].preceding, TRUE)
    BY <1>4, <1>11, <2>1, HeaderFacts, Zenon
  <2> QED BY <2>2 DEF IsHeader
<1>13. PICK n2 : n2 = Put(n1, p, hd)
  OBVIOUS
<1>14. /\ IsTable(n2) /\ DOMAIN n2 = DOMAIN n1 \cup {p} /\ n2[p] = hd
       /\ \A x \in DOMAIN n1 \ {p} : n2[x] = n1[x]
  <2>1. IsPut(n2, n1, p, hd)
    BY <1>8, <1>12, <1>13, PutFacts, Zenon
  <2> QED BY <2>1, Zenon DEF IsPut
<1>15. PICK n3 : n3 = Preceded(n2, e, k + s)
  OBVIOUS
<1>16. /\ IsTable(n3) /\ DOMAIN n3 = DOMAIN n2 /\ \A x \in DOMAIN n2 \ {e} : n3[x] = n2[x]
       /\ n3[e].size = n2[e].size /\ n3[e].preceding = k + s /\ n3[e].allocated = n2[e].allocated
  <2>1. e \in DOMAIN n2
    BY <1>4, <1>6, <1>8, <1>14
  <2>2. IsPreceded(n3, n2, e, k + s)
    BY <1>4, <1>14, <1>15, <2>1, PrecededFacts, Zenon
  <2> QED BY <2>2, Zenon DEF IsPreceded
<1>17. n3 = AbsorbNodes(n, p, a, k, s)
  BY <1>2, <1>7, <1>11, <1>13, <1>15 DEF AbsorbNodes
<1>18. n3[p] = hd /\ n2[e] = n[e]
  BY <1>4, <1>6, <1>8, <1>14, <1>16
<1>19. ASSUME NEW x \in DOMAIN n, x < p \/ e < x PROVE n3[x] = n[x]
  <2>1. x # p /\ x # e /\ x # a
    BY <1>0, <1>1, <1>4, <1>19
  <2> QED BY <1>8, <1>14, <1>16, <2>1
<1>20. DOMAIN n3 = {x \in DOMAIN n : x <= p \/ e <= x} \cup {e}
  <2>1. ~(a <= p) /\ ~(e <= a)
    BY <1>0, <1>1, <1>4
  <2>2. p <= p /\ e <= e
    BY <1>0, <1>4
  <2> QED BY <1>4, <1>5, <1>6, <1>8, <1>14, <1>16, <2>1, <2>2
<1>21. Recut(n3, n, p, e, e)
  BY <1>4, <1>12, <1>16, <1>18, <1>19, <1>20 DEF Recut
<1>22. Cut(n3, n, p, e, e)
  <2>1. e <= e
    BY <1>4
  <2> QED BY <1>4, <1>21, <2>1, RecutCuts
<1> QED BY <1>1, <1>2, <1>4, <1>12, <1>17, <1>18, <1>22

\* The front of a chunk becomes free.
CarveNodes(n, a, m, e) ==
    Preceded(Put(Put(n, a, Header(m - a, n[a].preceding, FALSE)), m, Header(e - m, m - a, TRUE)), e, e - m)

LEMMA CarveCut ==
    ASSUME NEW n, Tiled(n), NEW a \in DOMAIN n, a # heapend, NEW e, e = Nx(n, a),
           NEW m \in Nat, a < m, m < e
    PROVE  /\ Cut(CarveNodes(n, a, m, e), n, a, m, e)
           /\ ~CarveNodes(n, a, m, e)[a].allocated
           /\ CarveNodes(n, a, m, e)[m].allocated
           /\ e \in DOMAIN n
<1>0. \A x \in DOMAIN n : x \in Nat /\ n[x].preceding \in Nat
  BY TiledTypes
<1>1. e \in DOMAIN n /\ e \in Nat /\ IsTable(n) /\ m - a \in Nat /\ e - m \in Nat /\ n[a].preceding \in Nat
  BY <1>0, TableOfTiled DEF Tiled
<1>5. m \notin DOMAIN n /\ \A x \in DOMAIN n : x <= a \/ e <= x
  <2>1. \A x \in DOMAIN n : a < x => e <= x
    BY DEF Tiled
  <2> QED BY <1>0, <1>1, <2>1
<1>6. a # m /\ a # e /\ m # e
  BY <1>0, <1>1
<1>7. PICK front : front = Header(m - a, n[a].preceding, FALSE)
  OBVIOUS
<1>8. front \in Headers /\ front.size = m - a /\ front.preceding = n[a].preceding /\ ~front.allocated
  <2>1. IsHeader(front, m - a, n[a].preceding, FALSE)
    BY <1>1, <1>7, HeaderFacts, Zenon
  <2> QED BY <2>1 DEF IsHeader
<1>9. PICK n1 : n1 = Put(n, a, front)
  OBVIOUS
<1>10. /\ IsTable(n1) /\ DOMAIN n1 = DOMAIN n \cup {a} /\ n1[a] = front
       /\ \A x \in DOMAIN n \ {a} : n1[x] = n[x]
  <2>1. IsPut(n1, n, a, front)
    BY <1>1, <1>8, <1>9, PutFacts, Zenon
  <2> QED BY <2>1, Zenon DEF IsPut
<1>11. PICK hd : hd = Header(e - m, m - a, TRUE)
  OBVIOUS
<1>12. hd \in Headers /\ hd.size = e - m /\ hd.preceding = m - a /\ hd.allocated
  <2>1. IsHeader(hd, e - m, m - a, TRUE)
    BY <1>1, <1>11, HeaderFacts, Zenon
  <2> QED BY <2>1 DEF IsHeader
<1>13. PICK n2 : n2 = Put(n1, m, hd)
  OBVIOUS
<1>14. /\ IsTable(n2) /\ DOMAIN n2 = DOMAIN n1 \cup {m} /\ n2[m] = hd
       /\ \A x \in DOMAIN n1 \ {m} : n2[x] = n1[x]
  <2>1. IsPut(n2, n1, m, hd)
    BY <1>10, <1>12, <1>13, PutFacts, Zenon
  <2> QED BY <2>1, Zenon DEF IsPut
<1>15. PICK n3 : n3 = Preceded(n2, e, e - m)
  OBVIOUS
<1>16. /\ IsTable(n3) /\ DOMAIN n3 = DOMAIN n2 /\ \A x \in DOMAIN n2 \ {e} : n3[x] = n2[x]
       /\ n3[e].size = n2[e].size /\ n3[e].preceding = e - m /\ n3[e].allocated = n2[e].allocated
  <2>1. e \in DOMAIN n2
    BY <1>1, <1>10, <1>14
  <2>2. IsPreceded(n3, n2, e, e - m)
    BY <1>1, <1>14, <1>15, <2>1, PrecededFacts, Zenon
  <2> QED BY <2>2, Zenon DEF IsPreceded
<1>17. n3 = CarveNodes(n, a, m, e)
  BY <1>7, <1>9, <1>11, <1>13, <1>15 DEF CarveNodes
<1>18. n3[a] = front /\ n3[m] = hd /\ n2[e] = n[e]
  BY <1>1, <1>6, <1>10, <1>14, <1>16
<1>19. ASSUME NEW x \in DOMAIN n, x < a \/ e < x PROVE n3[x] = n[x]
  <2>1. x # a /\ x # e /\ x # m
    BY <1>0, <1>1, <1>5, <1>19
  <2> QED BY <1>10, <1>14, <1>16, <2>1
<1>20. DOMAIN n3 = {x \in DOMAIN n : x <= a \/ e <= x} \cup {m}
  BY <1>5, <1>10, <1>14, <1>16
<1>21. Recut(n3, n, a, m, e)
  BY <1>8, <1>12, <1>16, <1>18, <1>19, <1>20 DEF Recut
<1>22. Cut(n3, n, a, m, e)
  <2>1. m <= e
    BY <1>1
  <2> QED BY <1>1, <1>21, <2>1, RecutCuts
<1> QED BY <1>1, <1>8, <1>12, <1>17, <1>18, <1>22

-----------------------------------------------------------------------------
(***************************************************************************)
(* The steps of the calls: a heap whose lists hold the chunks of F.        *)
(***************************************************************************)
Half(h, F) ==
    /\ h = Val(h.node, h.nodelist) /\ Tiled(h.node)
    /\ F \subseteq DOMAIN h.node /\ Linked(h.nodelist, F, h.node)

LEMMA MakeHalf ==
    ASSUME NEW n, NEW l, NEW F, Tiled(n), F \subseteq DOMAIN n, Linked(l, F, n), NEW h, h = Val(n, l)
    PROVE  Half(h, F) /\ h.node = n /\ h.nodelist = l
<1>1. h.node = n /\ h.nodelist = l
  BY ValFields
<1> QED BY <1>1 DEF Half

Unlinked(h2, h, F, a) == Half(h2, F \ {a}) /\ h2.node = h.node

LEMMA UnlinkStep ==
    ASSUME NEW h, NEW F, Half(h, F), NEW a, NEW h2, h2 = Unlink(h, a)
    PROVE  Unlinked(h2, h, F, a)
<1>1. PICK n : n = h.node
  OBVIOUS
<1>2. PICK l : l = h.nodelist
  OBVIOUS
<1>3. h = Val(n, l) /\ Tiled(n) /\ F \subseteq DOMAIN n /\ Linked(l, F, n)
  BY <1>1, <1>2 DEF Half
<1>4. h2 = Val(n, Dropped(l, a))
  BY <1>3, UnlinkValue, Zenon
<1>5. Linked(Dropped(l, a), F \ {a}, n)
  BY <1>3, LinkedDrop, Zenon
<1>6. F \ {a} \subseteq DOMAIN n
  BY <1>3
<1>7. Half(h2, F \ {a}) /\ h2.node = n
  BY <1>3, <1>4, <1>5, <1>6, MakeHalf, Zenon
<1> QED BY <1>1, <1>7 DEF Unlinked

Added(h2, h, F, a) == Half(h2, F \cup {a}) /\ h2.node = h.node

LEMMA AddStep ==
    ASSUME NEW h, NEW F, Half(h, F), NEW a, a \in DOMAIN h.node, a \notin F, NEW h2, h2 = mm_addfreechunk(h, a)
    PROVE  Added(h2, h, F, a)
<1>1. PICK n : n = h.node
  OBVIOUS
<1>2. PICK l : l = h.nodelist
  OBVIOUS
<1>3. h = Val(n, l) /\ Tiled(n) /\ F \subseteq DOMAIN n /\ Linked(l, F, n) /\ a \in DOMAIN n
  BY <1>1, <1>2 DEF Half
<1>4. h2 = Val(n, Joined(l, n, a))
  BY <1>3, AddFreeValue, Zenon
<1>5. F \cup {a} \subseteq DOMAIN n /\ a \in Addr
  BY <1>3 DEF Tiled, IsNodes
<1>6. \A x \in DOMAIN n : n[x].size \in Nat /\ n[x].size > 0
  BY <1>3, TiledTypes
<1>7. Linked(Joined(l, n, a), F \cup {a}, n)
  <2>1. \A x \in F \cup {a} : n[x].size \in Nat
    BY <1>5, <1>6
  <2>2. n[a].size > 0
    BY <1>3, <1>6
  <2> QED BY <1>3, <1>5, <2>1, <2>2, LinkedJoin, Zenon
<1>8. Half(h2, F \cup {a}) /\ h2.node = n
  <2>1. PICK l2, F2 : l2 = Joined(l, n, a) /\ F2 = F \cup {a}
    OBVIOUS
  <2>2. Tiled(n) /\ F2 \subseteq DOMAIN n /\ Linked(l2, F2, n) /\ h2 = Val(n, l2)
    BY <1>3, <1>4, <1>5, <1>7, <2>1
  <2>3. Half(h2, F2) /\ h2.node = n
    BY <2>2, MakeHalf
  <2> QED BY <2>1, <2>3
<1> QED BY <1>1, <1>8 DEF Added

\* The headers change, and the chunks on the lists keep their sizes.
Keeps(n2, n, F) == F \subseteq DOMAIN n2 /\ \A x \in F : n2[x].size = n[x].size

Has(h, F, n) == Half(h, F) /\ h.node = n

LEMMA NodesStep ==
    ASSUME NEW h, NEW F, Half(h, F), NEW n2, Tiled(n2), Keeps(n2, h.node, F), NEW h2, h2 = Val(n2, h.nodelist)
    PROVE  Has(h2, F, n2)
<1>1. PICK n : n = h.node
  OBVIOUS
<1>2. PICK l : l = h.nodelist
  OBVIOUS
<1>3. Linked(l, F, n)
  BY <1>1, <1>2 DEF Half
<1>4. \A x \in F : n2[x].size = n[x].size
  BY <1>1 DEF Keeps
<1>5. Linked(l, F, n2)
  BY <1>3, <1>4, LinkedKept, Zenon
<1>6. F \subseteq DOMAIN n2
  BY DEF Keeps
<1>7. h2 = Val(n2, l)
  BY <1>2
<1>8. Half(h2, F) /\ h2.node = n2
  BY <1>5, <1>6, <1>7, MakeHalf
<1> QED BY <1>8 DEF Has

LEMMA CutKeeps ==
    ASSUME NEW n, Tiled(n), NEW n2, NEW a \in DOMAIN n, NEW e \in DOMAIN n,
           NEW m \in Nat, a < m, m <= e, Cut(n2, n, a, m, e), NEW F, F \subseteq DOMAIN n,
           \A x \in F : x < a \/ e <= x
    PROVE  Keeps(n2, n, F)
BY CutOutside DEF Keeps

Flagging(h2, h, F, a, b) ==
    /\ Half(h2, F) /\ Cut(h2.node, h.node, a, Nx(h.node, a), Nx(h.node, a))
    /\ IsTable(h2.node) /\ SameBut(h2.node, h.node, a)
    /\ h2.node[a].size = h.node[a].size /\ h2.node[a].preceding = h.node[a].preceding
    /\ h2.node[a].allocated = b

IsFlagged(n2, n, a, b) ==
    /\ IsTable(n2) /\ SameBut(n2, n, a)
    /\ n2[a].size = n[a].size /\ n2[a].preceding = n[a].preceding /\ n2[a].allocated = b

LEMMA FlaggedFacts ==
    ASSUME NEW n, IsTable(n), NEW a, a \in DOMAIN n, NEW b, b \in BOOLEAN, NEW n2, n2 = Flagged(n, a, b)
    PROVE  IsFlagged(n2, n, a, b)
BY DEF IsFlagged, IsTable, SameBut, Flagged, Headers

LEMMA FlagStep ==
    ASSUME NEW h, NEW F, Half(h, F), NEW a, a \in DOMAIN h.node, a # heapend, a # heapbase,
           NEW b, b \in BOOLEAN, NEW h2, h2 = SetAllocated(h, a, b)
    PROVE  Flagging(h2, h, F, a, b)
<1>1. PICK n : n = h.node
  OBVIOUS
<1>2. PICK l : l = h.nodelist
  OBVIOUS
<1>3. h = Val(n, l) /\ Tiled(n) /\ F \subseteq DOMAIN n /\ a \in DOMAIN n /\ IsTable(n)
  BY <1>1, <1>2, TableOfTiled DEF Half
<1>4. PICK n2 : n2 = Flagged(n, a, b)
  OBVIOUS
<1>5. h2 = Val(n2, h.nodelist)
  <2>1. SetAllocated(Val(n, l), a, b) = Val(Flagged(n, a, b), l)
    BY FlagValue, Zenon
  <2> QED BY <1>2, <1>3, <1>4, <2>1
<1>6. /\ IsTable(n2) /\ SameBut(n2, n, a)
      /\ n2[a].size = n[a].size /\ n2[a].preceding = n[a].preceding /\ n2[a].allocated = b
  <2>1. IsFlagged(n2, n, a, b)
    BY <1>3, <1>4, FlaggedFacts, Zenon
  <2> QED BY <2>1, Zenon DEF IsFlagged
<1>7. Cut(n2, n, a, Nx(n, a), Nx(n, a))
  BY <1>3, <1>6, FlagCut, Zenon
<1>8. Nx(n, a) \in DOMAIN n /\ Nx(n, a) \in Nat /\ a < Nx(n, a) /\ Nx(n, a) <= Nx(n, a)
  BY <1>3, TiledTypes DEF Tiled
<1>9. Tiled(n2)
  BY <1>3, <1>7, <1>8, CutTiles
<1>10. Keeps(n2, h.node, F)
  BY <1>1, <1>3, <1>6 DEF SameBut, Keeps
<1>11. Half(h2, F) /\ h2.node = n2
  BY <1>5, <1>9, <1>10, NodesStep, Zenon DEF Has
<1> QED BY <1>1, <1>6, <1>7, <1>11 DEF Flagging

Splitting(h2, h, F, a, m, e) ==
    /\ Half(h2, F \cup {m}) /\ Cut(h2.node, h.node, a, m, e)
    /\ h2.node[a].allocated = h.node[a].allocated /\ ~h2.node[m].allocated

LEMMA SplitStep ==
    ASSUME NEW h, NEW F, Half(h, F), NEW a, a \in DOMAIN h.node, a # heapend, a # heapbase, a \notin F,
           NEW k, k = h.node[a].size, NEW s, s \in Nat, 0 < s, s < k, NEW h2, h2 = Split(h, a, s, k)
    PROVE  Splitting(h2, h, F, a, a + s, a + k)
<1>1. PICK n : n = h.node
  OBVIOUS
<1>2. PICK l : l = h.nodelist
  OBVIOUS
<1>3. h = Val(n, l) /\ Tiled(n) /\ F \subseteq DOMAIN n /\ a \in DOMAIN n /\ k = n[a].size
  BY <1>1, <1>2 DEF Half
<1>4. PICK n2 : n2 = SplitNodes(n, a, s, k)
  OBVIOUS
<1>5. PICK h1 : h1 = Val(n2, l)
  OBVIOUS
<1>6. h2 = mm_addfreechunk(h1, a + s)
  <2>1. SetSize(h, a, s) = Val(Sized(n, a, s), l)
    BY <1>3, SetSizeValue, Zenon
  <2>2. PICK n3 : n3 = Put(Sized(n, a, s), a + s, Header(k - s, s, FALSE))
    OBVIOUS
  <2>3. Write(SetSize(h, a, s), a + s, Header(k - s, s, FALSE)) = Val(n3, l)
    <3>1. Write(Val(Sized(n, a, s), l), a + s, Header(k - s, s, FALSE))
            = Val(Put(Sized(n, a, s), a + s, Header(k - s, s, FALSE)), l)
      BY WriteValue, Zenon
    <3> QED BY <2>1, <2>2, <3>1
  <2>4. SetPreceding(Val(n3, l), a + k, k - s) = Val(Preceded(n3, a + k, k - s), l)
    BY SetPrecedingValue, Zenon
  <2>5. Preceded(n3, a + k, k - s) = n2
    BY <1>4, <2>2 DEF SplitNodes
  <2>6. h2 = mm_addfreechunk(SetPreceding(Write(SetSize(h, a, s), a + s, Header(k - s, s, FALSE)), a + k, k - s), a + s)
    BY Zenon DEF Split
  <2> QED BY <1>5, <2>3, <2>4, <2>5, <2>6, Zenon
<1>7. Cut(n2, n, a, a + s, a + k) /\ n2[a].allocated = n[a].allocated /\ ~n2[a + s].allocated
  BY <1>3, <1>4, SplitCut, Zenon
<1>8. a + k = Nx(n, a) /\ a + k \in DOMAIN n /\ a + s \in Nat /\ a < a + s /\ a + s <= a + k /\ a + s < a + k /\ a \in Nat
  <2>1. Nx(n, a) \in DOMAIN n
    BY <1>3 DEF Tiled
  <2>2. a \in Nat /\ k \in Nat
    BY <1>3, TiledTypes
  <2> QED BY <1>3, <2>1, <2>2 DEF Nx
<1>9. PICK m : m = a + s
  OBVIOUS
<1>10. PICK e : e = a + k
  OBVIOUS
<1>11. Tiled(n2)
  BY <1>3, <1>7, <1>8, CutTiles
<1>12. \A x \in F : x < a \/ e <= x
  <2>1. \A x \in DOMAIN n : x \in Nat /\ (a < x => e <= x)
    BY <1>3, <1>8, <1>10, TiledTypes DEF Tiled
  <2> QED BY <1>3, <1>8, <2>1
<1>13. Keeps(n2, n, F)
  BY <1>3, <1>7, <1>8, <1>10, <1>12, CutKeeps
<1>14. Half(h1, F) /\ h1.node = n2
  BY <1>1, <1>2, <1>5, <1>11, <1>13, NodesStep, Zenon DEF Has
<1>15. m \in DOMAIN h1.node
  BY <1>7, <1>9, <1>14 DEF Cut
<1>16. m \notin F
  <2>1. a \in Nat /\ s \in Nat /\ k \in Nat /\ 0 < s /\ s < k
    BY <1>3, TiledTypes
  <2>2. ~(a + s < a) /\ ~(a + k <= a + s)
    BY <2>1
  <2>3. ~(m < a) /\ ~(e <= m)
    BY <1>9, <1>10, <2>2
  <2> QED BY <1>12, <2>3
<1>17. Added(h2, h1, F, m)
  BY <1>6, <1>9, <1>14, <1>15, <1>16, AddStep, Zenon
<1>18. Half(h2, F \cup {m}) /\ h2.node = n2
  BY <1>14, <1>17 DEF Added
<1> QED BY <1>1, <1>7, <1>9, <1>18 DEF Splitting

Joining(h2, h, F, a, b, e) ==
    /\ Half(h2, F \ {b}) /\ Cut(h2.node, h.node, a, e, e)
    /\ h2.node[a].allocated = h.node[a].allocated
    /\ h2.node[a].size = h.node[a].size + h.node[b].size

LEMMA JoinStep ==
    ASSUME NEW h, NEW F, Half(h, F), NEW a, a \in DOMAIN h.node, a # heapend, a # heapbase, a \notin F,
           NEW b, b = Nx(h.node, a), b # heapend, NEW h2, h2 = JoinNext(h, a)
    PROVE  Joining(h2, h, F, a, b, Nx(h.node, b))
<1>1. PICK n : n = h.node
  OBVIOUS
<1>2. PICK h0 : h0 = Unlink(h, b)
  OBVIOUS
<1>3. Half(h0, F \ {b}) /\ h0.node = n
  BY <1>1, <1>2, UnlinkStep, Zenon DEF Unlinked
<1>4. PICK l : l = h0.nodelist
  OBVIOUS
<1>5. h0 = Val(n, l) /\ Tiled(n) /\ F \subseteq DOMAIN n /\ a \in DOMAIN n
  BY <1>1, <1>3, <1>4 DEF Half
<1>6. PICK s : s = n[a].size + n[b].size
  OBVIOUS
<1>7. PICK n2 : n2 = JoinNodes(n, a, b, s)
  OBVIOUS
<1>8. h2 = Val(n2, l)
  <2>1. Next_(h, a) = b
    BY DEF Next_, Nx
  <2>2. h2 = SetPreceding(Drop(SetSize(h0, a, s), b), a + s, s)
    BY <1>1, <1>2, <1>6, <2>1 DEF JoinNext
  <2>3. SetSize(h0, a, s) = Val(Sized(n, a, s), l)
    BY <1>5, SetSizeValue, Zenon
  <2>4. Drop(SetSize(h0, a, s), b) = Val(Without(Sized(n, a, s), b), l)
    BY <2>3, DropValue, Zenon
  <2>5. PICK n3 : n3 = Without(Sized(n, a, s), b)
    OBVIOUS
  <2>6. SetPreceding(Val(n3, l), a + s, s) = Val(Preceded(n3, a + s, s), l)
    BY SetPrecedingValue, Zenon
  <2>7. Preceded(n3, a + s, s) = n2
    BY <1>7, <2>5 DEF JoinNodes
  <2> QED BY <2>2, <2>4, <2>5, <2>6, <2>7, Zenon
<1>9. b = Nx(n, a)
  BY <1>1
<1>10. /\ Cut(n2, n, a, a + s, a + s) /\ n2[a].allocated = n[a].allocated
       /\ a + s = Nx(n, b) /\ a + s \in DOMAIN n /\ b \in DOMAIN n /\ s \in Nat /\ a < b /\ b < a + s
  BY <1>5, <1>6, <1>7, <1>9, JoinCut
<1>11. PICK e : e = a + s
  OBVIOUS
<1>12. \A x \in DOMAIN n : x \in Nat
  BY <1>5, TiledTypes
<1>13. e \in Nat /\ a < e /\ e <= e /\ e \in DOMAIN n /\ Cut(n2, n, a, e, e)
  BY <1>5, <1>10, <1>11, <1>12
<1>14. Tiled(n2)
  BY <1>5, <1>13, CutTiles
<1>15. \A x \in F \ {b} : x < a \/ e <= x
  <2>1. \A x \in DOMAIN n : (a < x => b <= x) /\ (b < x => e <= x)
    BY <1>5, <1>9, <1>10, <1>11 DEF Tiled
  <2> QED BY <1>5, <1>10, <1>12, <2>1
<1>16. Keeps(n2, n, F \ {b})
  <2>1. PICK G : G = F \ {b}
    OBVIOUS
  <2>2. G \subseteq DOMAIN n /\ \A x \in G : x < a \/ e <= x
    BY <1>5, <1>15, <2>1
  <2>3. Keeps(n2, n, G)
    BY <1>5, <1>13, <2>2, CutKeeps
  <2> QED BY <2>1, <2>3
<1>17. Half(h2, F \ {b}) /\ h2.node = n2
  BY <1>3, <1>4, <1>8, <1>14, <1>16, NodesStep, Zenon DEF Has
<1>18. n2[a].size = s
  <2>1. n2[a].size = e - a
    BY <1>13 DEF Cut
  <2> QED BY <1>5, <1>10, <1>11, <1>12, <2>1
<1> QED BY <1>1, <1>6, <1>10, <1>11, <1>13, <1>17, <1>18 DEF Joining

-----------------------------------------------------------------------------
(***************************************************************************)
(* A call as a whole: the memory from b to e is cut anew.                  *)
(***************************************************************************)
HeapOk(h) == Half(h, FreeOf(h.node))

Inside(n, b, e) == {x \in DOMAIN n : b <= x /\ x < e}

Fresh(n2, b, m, e) == {x \in {b, m} : x < e /\ ~n2[x].allocated}

LEMMA FreshSecond ==
    ASSUME NEW n2, NEW b, NEW m, NEW e, n2[b].allocated, ~n2[m].allocated, m < e
    PROVE  Fresh(n2, b, m, e) = {m}
BY DEF Fresh

LEMMA FreshNone ==
    ASSUME NEW n2, NEW b, NEW e, n2[b].allocated, ~(e < e)
    PROVE  Fresh(n2, b, e, e) = {}
BY DEF Fresh

Net(h2, h, b, m, e) ==
    /\ b \in DOMAIN h.node \ {heapbase} /\ e \in DOMAIN h.node /\ m \in Nat /\ b < m /\ m <= e
    /\ Cut(h2.node, h.node, b, m, e)
    /\ Half(h2, (FreeOf(h.node) \ Inside(h.node, b, e)) \cup Fresh(h2.node, b, m, e))

LEMMA HeapOkParts ==
    ASSUME NEW h, HeapOk(h)
    PROVE  /\ Tiled(h.node) /\ Linked(h.nodelist, FreeOf(h.node), h.node)
           /\ h = Val(h.node, h.nodelist) /\ Half(h, FreeOf(h.node))
BY DEF HeapOk, Half

LEMMA EndsAllocated ==
    ASSUME NEW n, Tiled(n)
    PROVE  /\ heapbase \in Alloc(n) /\ heapend \in Alloc(n) /\ heapbase \notin FreeOf(n) /\ heapend \notin FreeOf(n)
           /\ heapbase # heapend
BY Limits DEF Tiled, Alloc, FreeOf

LEMMA NetSets ==
    ASSUME NEW n, Tiled(n), NEW n2, NEW b \in DOMAIN n, NEW e \in DOMAIN n,
           NEW m \in Nat, b < m, m <= e, Cut(n2, n, b, m, e)
    PROVE  /\ FreeOf(n2) = (FreeOf(n) \ Inside(n, b, e)) \cup Fresh(n2, b, m, e)
           /\ Alloc(n2) = (Alloc(n) \ Inside(n, b, e)) \cup {x \in {b, m} : x < e /\ n2[x].allocated}
           /\ \A x \in DOMAIN n \ Inside(n, b, e) : x \in DOMAIN n2 /\ n2[x].size = n[x].size
<1>0. \A x \in DOMAIN n : x \in Nat
  BY TiledTypes
<1>1. /\ \A x : x \in DOMAIN n2 <=> (x \in DOMAIN n /\ (x < b \/ e <= x)) \/ x \in {b, m}
      /\ \A x \in DOMAIN n : x < b \/ e <= x => n2[x].size = n[x].size /\ n2[x].allocated = n[x].allocated
  BY CutOutside
<1>2. \A x \in DOMAIN n : x \in Inside(n, b, e) <=> ~(x < b \/ e <= x)
  BY <1>0 DEF Inside
<1>3. \A x \in DOMAIN n \ Inside(n, b, e) :
         x \in DOMAIN n2 /\ n2[x].size = n[x].size /\ n2[x].allocated = n[x].allocated
  BY <1>1, <1>2
<1>4. \A x \in DOMAIN n2 : x \in DOMAIN n \ Inside(n, b, e) \/ (x \in {b, m} /\ x < e)
  <2> TAKE x \in DOMAIN n2
  <2>1. CASE x = b
    BY <1>0, <2>1
  <2>2. CASE x = m
    <3>1. m < e \/ m = e
      BY <1>0
    <3>2. m = e => m \in DOMAIN n \ Inside(n, b, e)
      BY <1>0, <1>2
    <3> QED BY <2>2, <3>1, <3>2
  <2>3. CASE x \in DOMAIN n /\ (x < b \/ e <= x)
    BY <1>2, <2>3
  <2> QED BY <1>1, <2>1, <2>2, <2>3
<1>5. b \in DOMAIN n2 /\ m \in DOMAIN n2
  BY <1>1
<1>6. \A x : x \in FreeOf(n) <=> x \in DOMAIN n /\ ~n[x].allocated
  BY DEF FreeOf
<1>7. \A x : x \in FreeOf(n2) <=> x \in DOMAIN n2 /\ ~n2[x].allocated
  BY DEF FreeOf
<1>8. \A x : x \in Alloc(n) <=> x \in DOMAIN n /\ n[x].allocated
  BY DEF Alloc
<1>9. \A x : x \in Alloc(n2) <=> x \in DOMAIN n2 /\ n2[x].allocated
  BY DEF Alloc
<1>10. \A x : x \in Fresh(n2, b, m, e) <=> x \in {b, m} /\ x < e /\ ~n2[x].allocated
  BY DEF Fresh
<1>11. FreeOf(n2) = (FreeOf(n) \ Inside(n, b, e)) \cup Fresh(n2, b, m, e)
  BY <1>3, <1>4, <1>5, <1>6, <1>7, <1>10
<1>12. Alloc(n2) = (Alloc(n) \ Inside(n, b, e)) \cup {x \in {b, m} : x < e /\ n2[x].allocated}
  BY <1>3, <1>4, <1>5, <1>8, <1>9
<1> QED BY <1>3, <1>11, <1>12

\* The blocks of X are gone, those of Y are new, the others are as before.
Outcome(h2, h, X, Y) ==
    /\ HeapOk(h2)
    /\ Alloc(h2.node) = (Alloc(h.node) \ X) \cup Y
    /\ \A x \in Alloc(h.node) \ X : h2.node[x].size = h.node[x].size

LEMMA NetOutcome ==
    ASSUME NEW h, HeapOk(h), NEW h2, NEW b, NEW m, NEW e, Net(h2, h, b, m, e), NEW X, NEW Y,
           \A x \in Alloc(h.node) : x \in X <=> x \in Inside(h.node, b, e),
           \A x : x \in Y <=> x \in {b, m} /\ x < e /\ h2.node[x].allocated
    PROVE  Outcome(h2, h, X, Y)
<1>1. PICK n : n = h.node
  OBVIOUS
<1>2. PICK n2 : n2 = h2.node
  OBVIOUS
<1>3. Tiled(n)
  BY <1>1, HeapOkParts
<1>4. /\ b \in DOMAIN n \ {heapbase} /\ e \in DOMAIN n /\ m \in Nat /\ b < m /\ m <= e /\ Cut(n2, n, b, m, e)
      /\ Half(h2, (FreeOf(n) \ Inside(n, b, e)) \cup Fresh(n2, b, m, e))
  BY <1>1, <1>2 DEF Net
<1>5. /\ FreeOf(n2) = (FreeOf(n) \ Inside(n, b, e)) \cup Fresh(n2, b, m, e)
      /\ Alloc(n2) = (Alloc(n) \ Inside(n, b, e)) \cup {x \in {b, m} : x < e /\ n2[x].allocated}
      /\ \A x \in DOMAIN n \ Inside(n, b, e) : x \in DOMAIN n2 /\ n2[x].size = n[x].size
  BY <1>3, <1>4, NetSets
<1>6. HeapOk(h2)
  BY <1>2, <1>4, <1>5 DEF HeapOk
<1>7. Y = {x \in {b, m} : x < e /\ n2[x].allocated}
  BY <1>2
<1>8. Alloc(n) \ Inside(n, b, e) = Alloc(n) \ X
  BY <1>1
<1>9. Alloc(n2) = (Alloc(n) \ X) \cup Y
  BY <1>5, <1>7, <1>8
<1>10. \A x \in Alloc(n) \ X : n2[x].size = n[x].size
  BY <1>5, <1>8 DEF Alloc
<1> QED BY <1>1, <1>2, <1>6, <1>9, <1>10 DEF Outcome

\* No new pair of free neighbours.
Calm(h2, h) == NoPairs(h.node) => NoPairs(h2.node)

LEMMA NetCalm ==
    ASSUME NEW h, HeapOk(h), NEW h2, NEW b, NEW m, NEW e, Net(h2, h, b, m, e),
           NoPairs(h.node) /\ ~h2.node[b].allocated =>
              /\ \A x \in DOMAIN h.node : x < b /\ Nx(h.node, x) = b => h.node[x].allocated
              /\ h2.node[m].allocated,
           NoPairs(h.node) /\ m < e /\ ~h2.node[m].allocated => h.node[e].allocated
    PROVE  Calm(h2, h)
<1> SUFFICES ASSUME NoPairs(h.node), NEW x, Pair(h2.node, x) PROVE FALSE
  BY DEF Calm, NoPairs
<1>1. PICK n : n = h.node
  OBVIOUS
<1>2. PICK n2 : n2 = h2.node
  OBVIOUS
<1>3. Tiled(n) /\ Pair(n2, x)
  BY <1>1, <1>2, HeapOkParts
<1>4. b \in DOMAIN n \ {heapbase} /\ e \in DOMAIN n /\ m \in Nat /\ b < m /\ m <= e /\ Cut(n2, n, b, m, e)
  BY <1>1, <1>2 DEF Net
<1>5. ~Pair(n, x)
  BY <1>1 DEF NoPairs, Pair
<1>6. \/ Pair(n, x)
      \/ x \in DOMAIN n /\ x < b /\ Nx(n, x) = b /\ ~n[x].allocated /\ ~n2[b].allocated
      \/ x = b /\ ~n2[b].allocated /\ ~n2[m].allocated
      \/ x = m /\ m < e /\ ~n2[m].allocated /\ ~n[e].allocated
  BY <1>3, <1>4, CutPairs
<1> QED BY <1>1, <1>2, <1>5, <1>6

-----------------------------------------------------------------------------
(***************************************************************************)
(* The search of mm_malloc.                                                *)
(***************************************************************************)
Large(n, s) == {a \in FreeOf(n) : n[a].size >= s}

FindsBest(h, s) ==
    /\ Fitting(h, s) = {} <=> Large(h.node, s) = {}
    /\ Large(h.node, s) # {} =>
          /\ Found(h, s) \in Large(h.node, s)
          /\ \A a \in Large(h.node, s) : h.node[Found(h, s)].size <= h.node[a].size

LEMMA NotAbove == ASSUME NEW i \in Nat, NEW j \in Nat, j <= i, i # j PROVE ~(i <= j)
OBVIOUS

LEMMA FoundBest ==
    ASSUME NEW h, HeapOk(h), NEW s, s \in Nat, s > 0
    PROVE  FindsBest(h, s)
<1>1. PICK n : n = h.node
  OBVIOUS
<1>2. PICK l : l = h.nodelist
  OBVIOUS
<1>3. Tiled(n) /\ Linked(l, FreeOf(n), n)
  BY <1>1, <1>2, HeapOkParts
<1>4. \A x \in FreeOf(n) : n[x].size \in Nat /\ n[x].size > 0
  BY <1>3, TiledTypes DEF FreeOf
<1>5. PICK T : T = Fitting(h, s)
  OBVIOUS
<1>6. \A i : i \in T <=> i \in mm_size2ndx(s) .. MM_NNODES - 1 /\ Fits(h, s, i) # {}
  BY <1>5 DEF Fitting
<1>7. mm_size2ndx(s) \in Index
  BY SizeIndex
<1>8. mm_size2ndx(s) \in Nat /\ MM_NNODES \in Nat
  BY <1>7, Limits
<1>9. T \subseteq Index
  BY <1>6, <1>8, Limits
<1>10. ASSUME NEW i \in Index
       PROVE  /\ Len(l[i]) \in Nat
              /\ \A k : k \in Fits(h, s, i) <=> k \in 1 .. Len(l[i]) /\ n[l[i][k]].size >= s
              /\ \A k \in 1 .. Len(l[i]) : l[i][k] \in FreeOf(n) /\ mm_size2ndx(n[l[i][k]].size) = i
              /\ \A x \in FreeOf(n) : mm_size2ndx(n[x].size) = i => \E k \in 1 .. Len(l[i]) : x = l[i][k]
              /\ \A j, k \in 1 .. Len(l[i]) : j <= k => n[l[i][j]].size <= n[l[i][k]].size
  <2>1. PICK q : q = l[i]
    OBVIOUS
  <2>2. InList(q, FreeOf(n), n, i)
    BY <1>3, <2>1 DEF Linked
  <2>3. q \in Seq(Addr) /\ Sorted(q, n) /\ ToSet(q) = {x \in FreeOf(n) : mm_size2ndx(n[x].size) = i}
    BY <2>2 DEF InList
  <2>4. /\ Len(q) \in Nat /\ DOMAIN q = 1 .. Len(q)
        /\ \A j \in 1 .. Len(q) : q[j] \in ToSet(q)
        /\ \A x \in ToSet(q) : \E j \in 1 .. Len(q) : x = q[j]
    BY <2>3, Elements
  <2>5. \A k : k \in Fits(h, s, i) <=> k \in 1 .. Len(q) /\ n[q[k]].size >= s
    BY <1>1, <1>2, <2>1, <2>4 DEF Fits
  <2>6. \A k \in 1 .. Len(q) : q[k] \in FreeOf(n) /\ mm_size2ndx(n[q[k]].size) = i
    BY <2>3, <2>4
  <2>7. \A x \in FreeOf(n) : mm_size2ndx(n[x].size) = i => \E k \in 1 .. Len(q) : x = q[k]
    BY <2>3, <2>4
  <2>8. \A j, k \in 1 .. Len(q) : j <= k => n[q[j]].size <= n[q[k]].size
    BY <2>3 DEF Sorted
  <2> QED BY <2>1, <2>4, <2>5, <2>6, <2>7, <2>8
<1>11. PICK L : L = Large(n, s)
  OBVIOUS
<1>12. \A x : x \in L <=> x \in FreeOf(n) /\ n[x].size >= s
  BY <1>11 DEF Large
<1>13. \A i \in Index : \A k \in Fits(h, s, i) : l[i][k] \in L
  <2> SUFFICES ASSUME NEW i \in Index, NEW k \in Fits(h, s, i) PROVE l[i][k] \in L
    OBVIOUS
  <2>1. k \in 1 .. Len(l[i]) /\ n[l[i][k]].size >= s
    BY <1>10, Zenon
  <2>2. \A j \in 1 .. Len(l[i]) : l[i][j] \in FreeOf(n)
    BY <1>10, Zenon
  <2>3. l[i][k] \in FreeOf(n)
    BY <2>1, <2>2
  <2> QED BY <1>12, <2>1, <2>3, Zenon
<1>14. ASSUME NEW x \in L
       PROVE  \E i \in T : i = mm_size2ndx(n[x].size) /\ \E k \in Fits(h, s, i) : x = l[i][k]
  <2>1. x \in FreeOf(n) /\ n[x].size >= s /\ n[x].size \in Nat /\ n[x].size > 0 /\ s <= n[x].size
    BY <1>4, <1>12
  <2>2. PICK z : z = n[x].size
    OBVIOUS
  <2>3. PICK i : i = mm_size2ndx(z)
    OBVIOUS
  <2>4. i \in Index /\ mm_size2ndx(s) <= i
    BY <2>1, <2>2, <2>3, SizeIndex, IndexAscends
  <2>5. i \in mm_size2ndx(s) .. MM_NNODES - 1
    BY <1>8, <2>4, Limits
  <2>6. PICK k \in 1 .. Len(l[i]) : x = l[i][k]
    BY <1>10, <2>1, <2>2, <2>3, <2>4
  <2>7. k \in Fits(h, s, i)
    BY <1>10, <2>1, <2>4, <2>6
  <2>8. i \in T
    BY <1>6, <2>5, <2>7
  <2> QED BY <2>2, <2>3, <2>6, <2>7, <2>8, Zenon
<1>15. T = {} <=> L = {}
  <2>1. ASSUME NEW i \in T PROVE L # {}
    BY <1>6, <1>9, <1>13
  <2> QED BY <1>14, <2>1
<1>16. ASSUME L # {}
       PROVE  Found(h, s) \in L /\ \A x \in L : n[Found(h, s)].size <= n[x].size
  <2>1. T # {} /\ T \in SUBSET Nat
    BY <1>9, <1>15, <1>16, Limits
  <2>2. PICK i0 : i0 = Min(T)
    OBVIOUS
  <2>3. i0 \in T /\ \A j \in T : i0 <= j
    BY <2>1, <2>2, MinOfNumbers
  <2>4. i0 \in Index /\ i0 \in Nat
    BY <1>9, <2>1, <2>3
  <2>5. PICK K : K = Fits(h, s, i0)
    OBVIOUS
  <2>6. K # {} /\ K \in SUBSET Nat
    BY <1>6, <1>10, <2>3, <2>4, <2>5
  <2>7. PICK k0 : k0 = Min(K)
    OBVIOUS
  <2>8. k0 \in K /\ \A j \in K : k0 <= j
    BY <2>6, <2>7, MinOfNumbers
  <2>9. PICK f : f = l[i0][k0]
    OBVIOUS
  <2>10. Found(h, s) = f
    BY <1>2, <1>5, <2>2, <2>5, <2>7, <2>9 DEF Found
  <2>11. f \in L
    BY <1>13, <2>4, <2>5, <2>8, <2>9
  <2>12. k0 \in 1 .. Len(l[i0]) /\ mm_size2ndx(n[f].size) = i0
    BY <1>10, <2>4, <2>5, <2>8, <2>9
  <2>13. ASSUME NEW x \in L PROVE n[f].size <= n[x].size
    <3>1. PICK i \in T : i = mm_size2ndx(n[x].size) /\ \E k \in Fits(h, s, i) : x = l[i][k]
      BY <1>14, Zenon
    <3>2. PICK k \in Fits(h, s, i) : x = l[i][k]
      BY <3>1, Zenon
    <3>3. /\ n[f].size \in Nat /\ n[f].size > 0 /\ n[x].size \in Nat /\ n[x].size > 0
          /\ i0 <= i /\ i \in Nat
      BY <1>4, <1>12, <2>1, <2>3, <2>11, <3>1
    <3>4. CASE i = i0
      <4>1. k \in K /\ k0 <= k /\ k \in 1 .. Len(l[i0])
        BY <1>10, <2>4, <2>5, <2>8, <3>2, <3>4
      <4> QED BY <1>10, <2>4, <2>9, <2>12, <3>2, <3>4, <4>1
    <3>5. CASE i # i0
      <4>0. i \in Nat /\ i0 \in Nat /\ i0 <= i
        BY <2>4, <3>3, Zenon
      <4>1. ~(i <= i0)
        BY <3>5, <4>0
      <4>2. ~(n[x].size <= n[f].size)
        BY <2>12, <3>1, <3>3, <4>1, IndexAscends
      <4> QED BY <3>3, <4>2
    <3> QED BY <3>4, <3>5
  <2> QED BY <2>10, <2>11, <2>13
<1> QED BY <1>1, <1>5, <1>11, <1>15, <1>16 DEF FindsBest

-----------------------------------------------------------------------------
(***************************************************************************)
(* The calls.                                                              *)
(***************************************************************************)
LEMMA InsideOne ==
    ASSUME NEW n, Tiled(n), NEW a, a \in DOMAIN n, a # heapend, NEW e, e = Nx(n, a)
    PROVE  Inside(n, a, e) = {a} /\ e \in DOMAIN n /\ e \in Nat /\ a < e
<1>1. e \in DOMAIN n /\ \A x \in DOMAIN n : a < x => e <= x
  BY DEF Tiled
<1>2. a \in Nat /\ e \in Nat /\ a < e /\ \A x \in DOMAIN n : x \in Nat
  BY TiledTypes
<1> QED BY <1>1, <1>2 DEF Inside

LEMMA InsideTwo ==
    ASSUME NEW n, Tiled(n), NEW a, a \in DOMAIN n, a # heapend, NEW b, b = Nx(n, a), b # heapend,
           NEW e, e = Nx(n, b)
    PROVE  Inside(n, a, e) = {a, b} /\ b \in DOMAIN n /\ e \in DOMAIN n /\ a < b /\ b < e /\ a < e /\ e \in Nat
<1>1. b \in DOMAIN n /\ \A x \in DOMAIN n : a < x => b <= x
  BY DEF Tiled
<1>2. e \in DOMAIN n /\ \A x \in DOMAIN n : b < x => e <= x
  BY <1>1 DEF Tiled
<1>3. a < b /\ b < e /\ \A x \in DOMAIN n : x \in Nat
  BY <1>1, TiledTypes
<1> QED BY <1>1, <1>2, <1>3 DEF Inside

\* A chunk is taken whole.
TakenFrom(h2, h, a, m, e, s) ==
    /\ Net(h2, h, a, m, e) /\ h2.node[a].allocated /\ h2.node[a].size = s
    /\ m < e => ~h2.node[m].allocated

LEMMA TakeWhole ==
    ASSUME NEW h, HeapOk(h), NEW a, a \in FreeOf(h.node), NEW e, e = Nx(h.node, a), NEW k, k = h.node[a].size,
           NEW h1, h1 = Unlink(h, a), NEW h2, h2 = Allocated(h1, a)
    PROVE  TakenFrom(h2, h, a, e, e, k)
<1>1. PICK n : n = h.node
  OBVIOUS
<1>2. Tiled(n) /\ Half(h, FreeOf(n))
  BY <1>1, HeapOkParts
<1>3. a \in DOMAIN n /\ a # heapbase /\ a # heapend
  BY <1>1, <1>2, EndsAllocated DEF FreeOf
<1>4. Half(h1, FreeOf(n) \ {a}) /\ h1.node = n
  BY <1>1, <1>2, UnlinkStep, Zenon DEF Unlinked
<1>5. Flagging(h2, h1, FreeOf(n) \ {a}, a, TRUE)
  BY <1>3, <1>4, FlagStep, Zenon DEF Allocated
<1>6. e = Nx(n, a)
  BY <1>1
<1>7. Inside(n, a, e) = {a} /\ e \in DOMAIN n /\ e \in Nat /\ a < e
  BY <1>2, <1>3, <1>6, InsideOne, Zenon
<1>8. /\ Half(h2, FreeOf(n) \ {a}) /\ Cut(h2.node, n, a, e, e)
      /\ h2.node[a].size = n[a].size /\ h2.node[a].allocated
  BY <1>4, <1>5, <1>6 DEF Flagging
<1>9. Fresh(h2.node, a, e, e) = {}
  BY <1>7, <1>8 DEF Fresh
<1>10. Net(h2, h, a, e, e)
  <2>1. (FreeOf(n) \ Inside(n, a, e)) \cup Fresh(h2.node, a, e, e) = FreeOf(n) \ {a}
    BY <1>7, <1>9
  <2>2. e <= e
    BY <1>7
  <2>3. a \in DOMAIN n \ {heapbase}
    BY <1>3
  <2> QED BY <1>1, <1>7, <1>8, <2>1, <2>2, <2>3 DEF Net
<1> QED BY <1>1, <1>7, <1>8, <1>10 DEF TakenFrom

\* Its first s granules are taken.
LEMMA TakeFront ==
    ASSUME NEW h, HeapOk(h), NEW a, a \in FreeOf(h.node), NEW s, s \in Nat, 0 < s,
           NEW k, k = h.node[a].size, s < k, NEW e, e = Nx(h.node, a), NEW m, m = a + s,
           NEW h1, h1 = Unlink(h, a), NEW h2, h2 = Split(h1, a, s, k), NEW h3, h3 = Allocated(h2, a)
    PROVE  TakenFrom(h3, h, a, m, e, s)
<1>1. PICK n : n = h.node
  OBVIOUS
<1>2. Tiled(n) /\ Half(h, FreeOf(n))
  BY <1>1, HeapOkParts
<1>3. a \in DOMAIN n /\ a # heapbase /\ a # heapend
  BY <1>1, <1>2, EndsAllocated DEF FreeOf
<1>4. Half(h1, FreeOf(n) \ {a}) /\ h1.node = n
  BY <1>1, <1>2, UnlinkStep, Zenon DEF Unlinked
<1>5. e = Nx(n, a)
  BY <1>1
<1>7. Inside(n, a, e) = {a} /\ e \in DOMAIN n /\ e \in Nat /\ a < e
  BY <1>2, <1>3, <1>5, InsideOne, Zenon
<1>8. a \in Nat /\ k \in Nat /\ e = a + k
  BY <1>1, <1>2, <1>3, <1>5, TiledTypes DEF Nx
<1>9. m \in Nat /\ a < m /\ m < e /\ m <= e /\ a # m /\ ~(m < a) /\ m - a = s
  BY <1>8
<1>10. PICK G : G = FreeOf(n) \ {a}
  OBVIOUS
<1>11. Splitting(h2, h1, G, a, m, e)
  <2>1. a \notin G /\ a \in DOMAIN h1.node /\ k = h1.node[a].size
    BY <1>1, <1>3, <1>4, <1>10
  <2>2. Splitting(h2, h1, G, a, a + s, a + k)
    BY <1>3, <1>4, <1>10, <2>1, SplitStep
  <2> QED BY <1>8, <2>2
<1>12. Half(h2, G \cup {m}) /\ Cut(h2.node, n, a, m, e) /\ ~h2.node[m].allocated
  BY <1>4, <1>11 DEF Splitting
<1>13. a \in DOMAIN h2.node /\ m \in DOMAIN h2.node
  BY <1>3, <1>8, <1>12 DEF Cut
<1>14. Flagging(h3, h2, G \cup {m}, a, TRUE)
  <2>1. PICK G2 : G2 = G \cup {m}
    OBVIOUS
  <2>2. Half(h2, G2) /\ h3 = SetAllocated(h2, a, TRUE)
    BY <1>12, <2>1 DEF Allocated
  <2>3. Flagging(h3, h2, G2, a, TRUE)
    BY <1>3, <1>13, <2>2, FlagStep
  <2> QED BY <2>1, <2>3
<1>15. /\ Half(h3, G \cup {m}) /\ IsTable(h3.node) /\ SameBut(h3.node, h2.node, a)
       /\ h3.node[a].size = h2.node[a].size /\ h3.node[a].preceding = h2.node[a].preceding
       /\ h3.node[a].allocated
  BY <1>14 DEF Flagging
<1>16. Cut(h3.node, n, a, m, e)
  BY <1>2, <1>3, <1>7, <1>9, <1>12, <1>15, CutFlag, ZenonT(30)
<1>17. h3.node[m] = h2.node[m]
  BY <1>9, <1>13, <1>15, Zenon DEF SameBut
<1>18. Fresh(h3.node, a, m, e) = {m}
  <2>1. h3.node[a].allocated /\ ~h3.node[m].allocated /\ m < e
    BY <1>9, <1>12, <1>15, <1>17, Zenon
  <2> QED BY <2>1, FreshSecond
<1>19. Net(h3, h, a, m, e)
  BY <1>1, <1>3, <1>7, <1>9, <1>10, <1>15, <1>16, <1>18 DEF Net
<1>20. h3.node[a].size = s
  BY <1>9, <1>16 DEF Cut
<1> QED BY <1>12, <1>15, <1>17, <1>19, <1>20 DEF TakenFrom

Gives(h2, h, a, s) == Outcome(h2, h, {}, {a}) /\ Calm(h2, h) /\ h2.node[a].size \in Nat /\ h2.node[a].size >= s

LEMMA MallocEffect ==
    ASSUME NEW h, HeapOk(h), NEW s, s \in Nat, 0 < s, NEW a, a = Found(h, s), a \in Large(h.node, s),
           NEW h2, h2 = mm_malloc(h, s)
    PROVE  Gives(h2, h, a, s)
<1>1. PICK n : n = h.node
  OBVIOUS
<1>2. PICK k : k = n[a].size
  OBVIOUS
<1>3. PICK h1 : h1 = Unlink(h, a)
  OBVIOUS
<1>4. Tiled(n) /\ a \in FreeOf(n) /\ k >= s
  BY <1>1, <1>2, HeapOkParts DEF Large
<1>5. a \in DOMAIN n /\ a # heapend /\ ~n[a].allocated
  BY <1>4, EndsAllocated DEF FreeOf
<1>6. a \in Nat /\ k \in Nat
  BY <1>2, <1>4, <1>5, TiledTypes
<1>7. PICK e : e = Nx(n, a)
  OBVIOUS
<1>8. Inside(n, a, e) = {a} /\ e \in DOMAIN n /\ e \in Nat /\ a < e
  BY <1>4, <1>5, <1>7, InsideOne, Zenon
<1>9. h2 = Allocated(IF k - s >= 1 THEN Split(h1, a, s, k) ELSE h1, a)
  BY <1>1, <1>2, <1>3 DEF mm_malloc, SIZEOF_MM_FREENODE
<1>10. \E m : /\ Net(h2, h, a, m, e) /\ h2.node[a].allocated
              /\ h2.node[a].size \in Nat /\ h2.node[a].size >= s
              /\ m < e => ~h2.node[m].allocated
  <2>1. CASE s < k
    <3>1. h2 = Allocated(Split(h1, a, s, k), a)
      BY <1>6, <1>9, <2>1
    <3>2. PICK m : m = a + s
      OBVIOUS
    <3>3. TakenFrom(h2, h, a, m, e, s)
      BY <1>1, <1>2, <1>3, <1>4, <1>7, <2>1, <3>1, <3>2, TakeFront, Zenon
    <3>4. s >= s
      OBVIOUS
    <3> QED BY <3>3, <3>4 DEF TakenFrom
  <2>2. CASE ~(s < k)
    <3>1. h2 = Allocated(h1, a)
      BY <1>6, <1>9, <2>2
    <3>2. TakenFrom(h2, h, a, e, e, k)
      BY <1>1, <1>2, <1>3, <1>4, <1>7, <3>1, TakeWhole, Zenon
    <3> QED BY <1>4, <1>6, <3>2 DEF TakenFrom
  <2> QED BY <2>1, <2>2
<1>11. PICK m : /\ Net(h2, h, a, m, e) /\ h2.node[a].allocated
                /\ h2.node[a].size \in Nat /\ h2.node[a].size >= s
                /\ m < e => ~h2.node[m].allocated
  BY <1>10
<1>12. m \in Nat /\ a < m /\ m <= e
  BY <1>11 DEF Net
<1>13. NoPairs(n) => n[e].allocated
  BY <1>5, <1>7 DEF NoPairs, Pair
<1>14. Calm(h2, h)
  BY <1>1, <1>11, <1>13, NetCalm
<1>15. \A x : x \in {a} <=> x \in {a, m} /\ x < e /\ h2.node[x].allocated
  BY <1>6, <1>8, <1>11, <1>12
<1>16. \A x \in Alloc(h.node) : x \in {} <=> x \in Inside(h.node, a, e)
  BY <1>1, <1>5, <1>8 DEF Alloc
<1>17. Outcome(h2, h, {}, {a})
  BY <1>11, <1>15, <1>16, NetOutcome
<1> QED BY <1>11, <1>14, <1>17 DEF Gives

\* The chunk before a chunk is the one its header leads to.
LEMMA PrevChunk ==
    ASSUME NEW n, Tiled(n), NEW a, a \in DOMAIN n, a # heapbase
    PROVE  \E p \in DOMAIN n : /\ p < a /\ p # heapend /\ Nx(n, p) = a /\ a - n[a].preceding = p
                               /\ \A x \in DOMAIN n : x < a /\ Nx(n, x) = a => x = p
<1>1. PICK p \in DOMAIN n \ {heapend} : p < a /\ Nx(n, p) = a /\ n[a].preceding = n[p].size
  BY ChunkBefore
<1>2. p \in Nat /\ n[p].size \in Nat /\ a \in Nat
  BY <1>1, TiledTypes
<1>3. a - n[a].preceding = p
  BY <1>1, <1>2 DEF Nx
<1>4. ASSUME NEW x \in DOMAIN n, x < a, Nx(n, x) = a PROVE x = p
  <2>1. x \in Nat /\ x # heapend
    BY <1>2, <1>4, TiledTypes
  <2>2. ~(x < p) /\ ~(p < x)
    BY <1>1, <1>2, <1>4, <2>1 DEF Tiled
  <2> QED BY <1>2, <2>1, <2>2
<1> QED BY <1>1, <1>3, <1>4

\* mm_free joins the chunk with the one after it.
Loosened(hj, h, a, e) ==
    /\ e \in DOMAIN h.node /\ a < e /\ Cut(hj.node, h.node, a, e, e)
    /\ Half(hj, FreeOf(h.node) \ Inside(h.node, a, e)) /\ ~hj.node[a].allocated
    /\ \A x \in Alloc(h.node) : x \in {a} <=> x \in Inside(h.node, a, e)
    /\ NoPairs(h.node) => h.node[e].allocated

LEMMA FreeLoosens ==
    ASSUME NEW h, HeapOk(h), NEW a, a \in Alloc(h.node), a # heapbase, a # heapend,
           NEW h1, h1 = Release(h, a),
           NEW hj, hj = IF IsFree(h1, Next_(h1, a)) THEN JoinNext(h1, a) ELSE h1
    PROVE  \E e : Loosened(hj, h, a, e)
<1>1. PICK n : n = h.node
  OBVIOUS
<1>2. Tiled(n) /\ Half(h, FreeOf(n))
  BY <1>1, HeapOkParts
<1>3. a \in DOMAIN n /\ n[a].allocated /\ a \notin FreeOf(n)
  BY <1>1 DEF Alloc, FreeOf
<1>4. PICK F : F = FreeOf(n)
  OBVIOUS
<1>5. Flagging(h1, h, F, a, FALSE)
  BY <1>1, <1>2, <1>3, <1>4, FlagStep, Zenon DEF Release
<1>6. PICK n1 : n1 = h1.node
  OBVIOUS
<1>7. PICK b : b = Nx(n, a)
  OBVIOUS
<1>8. Inside(n, a, b) = {a} /\ b \in DOMAIN n /\ b \in Nat /\ a < b
  BY <1>2, <1>3, <1>7, InsideOne, Zenon
<1>9. /\ Half(h1, F) /\ Cut(n1, n, a, b, b) /\ SameBut(n1, n, a)
      /\ n1[a].size = n[a].size /\ ~n1[a].allocated
  BY <1>1, <1>5, <1>6, <1>7 DEF Flagging
<1>10. \A x \in DOMAIN n : x \in Nat
  BY <1>2, TiledTypes
<1>11. b # a /\ n1[b] = n[b] /\ Nx(n1, a) = b /\ a \in DOMAIN n1 /\ b \in DOMAIN n1
  BY <1>3, <1>7, <1>8, <1>9, <1>10 DEF SameBut, Nx
<1>12. IsFree(h1, Next_(h1, a)) <=> ~n[b].allocated
  BY <1>6, <1>11 DEF IsFree, Next_, Nx
<1>13. CASE n[b].allocated
  <2>1. hj = h1 /\ F = F \ {a}
    BY <1>3, <1>4, <1>12, <1>13
  <2>2. \A x \in Alloc(n) : x \in {a} <=> x \in Inside(n, a, b)
    BY <1>8
  <2>3. Loosened(hj, h, a, b)
    BY <1>1, <1>4, <1>6, <1>8, <1>9, <1>13, <2>1, <2>2 DEF Loosened
  <2> QED BY <2>3
<1>14. CASE ~n[b].allocated
  <2>1. b # heapend /\ b \in F
    BY <1>2, <1>4, <1>8, <1>14, EndsAllocated DEF FreeOf
  <2>2. hj = JoinNext(h1, a)
    BY <1>12, <1>14
  <2>3. PICK e : e = Nx(n, b)
    OBVIOUS
  <2>4. Nx(n1, b) = e
    BY <1>11, <2>3 DEF Nx
  <2>5. Inside(n, a, e) = {a, b} /\ e \in DOMAIN n /\ b < e /\ a < e /\ e \in Nat
    BY <1>2, <1>3, <1>7, <2>1, <2>3, InsideTwo
  <2>6. Joining(hj, h1, F, a, b, e)
    <3>1. a \notin F /\ b = Nx(h1.node, a) /\ e = Nx(h1.node, b) /\ a \in DOMAIN h1.node
      BY <1>3, <1>4, <1>6, <1>11, <2>4
    <3> QED BY <1>9, <2>1, <2>2, <3>1, JoinStep, Zenon
  <2>7. Half(hj, F \ {b}) /\ Cut(hj.node, n1, a, e, e) /\ ~hj.node[a].allocated
    BY <1>6, <1>9, <2>6 DEF Joining
  <2>8. Cut(hj.node, n, a, e, e)
    <3>1. a <= a /\ b <= e /\ e <= e
      BY <1>3, <1>8, <1>10, <2>5
    <3> QED BY <1>2, <1>3, <1>8, <1>9, <2>5, <2>7, <3>1, CutAgain
  <2>9. F \ {b} = F \ Inside(n, a, e)
    BY <1>3, <1>4, <2>5
  <2>10. \A x \in Alloc(n) : x \in {a} <=> x \in Inside(n, a, e)
    BY <1>14, <2>5 DEF Alloc
  <2>11. NoPairs(n) => n[e].allocated
    BY <1>8, <1>14, <2>1, <2>3 DEF NoPairs, Pair
  <2>12. Loosened(hj, h, a, e)
    BY <1>1, <1>4, <2>5, <2>7, <2>8, <2>9, <2>10, <2>11 DEF Loosened
  <2> QED BY <2>12
<1> QED BY <1>13, <1>14

Frees(h2, h, a) == Outcome(h2, h, {a}, {}) /\ Calm(h2, h)

LEMMA FreeEffect ==
    ASSUME NEW h, HeapOk(h), NEW a, a \in Alloc(h.node), a # heapbase, a # heapend,
           NEW h2, h2 = mm_free(h, a)
    PROVE  Frees(h2, h, a)
<1>1. PICK n : n = h.node
  OBVIOUS
<1>2. Tiled(n) /\ \A x \in DOMAIN n : x \in Nat
  BY <1>1, HeapOkParts, TiledTypes
<1>3. a \in DOMAIN n /\ n[a].allocated /\ a \notin FreeOf(n)
  BY <1>1 DEF Alloc, FreeOf
<1>4. PICK h1 : h1 = Release(h, a)
  OBVIOUS
<1>5. PICK hj : hj = IF IsFree(h1, Next_(h1, a)) THEN JoinNext(h1, a) ELSE h1
  OBVIOUS
<1>6. PICK e : Loosened(hj, h, a, e)
  BY <1>4, <1>5, FreeLoosens, Zenon
<1>7. PICK nj : nj = hj.node
  OBVIOUS
<1>8. PICK G : G = FreeOf(n) \ Inside(n, a, e)
  OBVIOUS
<1>9. /\ e \in DOMAIN n /\ a < e /\ Cut(nj, n, a, e, e) /\ Half(hj, G) /\ ~nj[a].allocated
      /\ \A x \in Alloc(n) : x \in {a} <=> x \in Inside(n, a, e)
      /\ NoPairs(n) => n[e].allocated
  BY <1>1, <1>6, <1>7, <1>8 DEF Loosened
<1>10. PICK p \in DOMAIN n : /\ p < a /\ p # heapend /\ Nx(n, p) = a /\ a - n[a].preceding = p
                             /\ \A x \in DOMAIN n : x < a /\ Nx(n, x) = a => x = p
  BY <1>2, <1>3, PrevChunk
<1>11. nj[a].preceding = n[a].preceding /\ nj[p] = n[p] /\ Nx(nj, a) = e /\ nj[e].allocated = n[e].allocated
  <2>1. nj[a].size = e - a
    BY <1>9 DEF Cut
  <2> QED BY <1>2, <1>3, <1>9, <1>10, <2>1 DEF Cut, Nx
<1>12. a \in DOMAIN nj /\ p \in DOMAIN nj /\ e \in DOMAIN nj
  <2>1. a <= a /\ p <= a /\ e <= e
    BY <1>2, <1>3, <1>9, <1>10
  <2> QED BY <1>3, <1>9, <1>10, <2>1 DEF Cut
<1>13. Prev_(hj, a) = p /\ (IsFree(hj, p) <=> ~n[p].allocated)
  BY <1>7, <1>10, <1>11 DEF Prev_, IsFree
<1>14. h2 = IF ~n[p].allocated
              THEN mm_addfreechunk(JoinNext(Unlink(hj, p), p), p)
              ELSE mm_addfreechunk(hj, a)
  BY <1>4, <1>5, <1>13 DEF mm_free
<1>15. a \in Inside(n, a, e) /\ e \in Nat /\ a \in Nat /\ p \in Nat /\ e <= e /\ ~(e < e) /\ p < e
  BY <1>2, <1>3, <1>9, <1>10 DEF Inside
<1>16. CASE n[p].allocated
  <2>1. h2 = mm_addfreechunk(hj, a) /\ a \notin G
    BY <1>3, <1>8, <1>14, <1>16
  <2>2. Added(h2, hj, G, a)
    BY <1>7, <1>9, <1>12, <2>1, AddStep, Zenon
  <2>3. Half(h2, G \cup {a}) /\ h2.node = nj
    BY <1>7, <2>2 DEF Added
  <2>4. Fresh(nj, a, e, e) = {a}
    BY <1>9, <1>15 DEF Fresh
  <2>5. Net(h2, h, a, e, e)
    BY <1>1, <1>3, <1>8, <1>9, <1>15, <2>3, <2>4 DEF Net
  <2>6. \A x : x \in {} <=> x \in {a, e} /\ x < e /\ h2.node[x].allocated
    BY <1>9, <1>15, <2>3
  <2>7. Outcome(h2, h, {a}, {})
    BY <1>1, <1>9, <2>5, <2>6, NetOutcome
  <2>8. \A x \in DOMAIN n : x < a /\ Nx(n, x) = a => n[x].allocated
    BY <1>10, <1>16
  <2>9. Calm(h2, h)
    BY <1>1, <1>9, <1>11, <1>15, <2>3, <2>5, <2>8, NetCalm
  <2> QED BY <2>7, <2>9 DEF Frees
<1>17. CASE ~n[p].allocated
  <2>1. p # heapbase /\ p \in FreeOf(n)
    BY <1>2, <1>10, <1>17, EndsAllocated DEF FreeOf
  <2>2. PICK hu : hu = Unlink(hj, p)
    OBVIOUS
  <2>3. Half(hu, G \ {p}) /\ hu.node = nj
    BY <1>7, <1>9, <2>2, UnlinkStep, Zenon DEF Unlinked
  <2>4. PICK hn : hn = JoinNext(hu, p)
    OBVIOUS
  <2>5. PICK K : K = G \ {p}
    OBVIOUS
  <2>6. Joining(hn, hu, K, p, a, e)
    <3>1. p \notin K /\ p \in DOMAIN hu.node /\ a = Nx(hu.node, p) /\ e = Nx(hu.node, a)
      BY <1>10, <1>11, <1>12, <2>3, <2>5 DEF Nx
    <3> QED BY <1>10, <2>1, <2>3, <2>4, <2>5, <3>1, JoinStep, Zenon
  <2>7. Half(hn, K \ {a}) /\ Cut(hn.node, nj, p, e, e) /\ ~hn.node[p].allocated
    BY <1>11, <1>17, <2>3, <2>6 DEF Joining
  <2>8. Cut(hn.node, n, p, e, e)
    <3>1. p <= a
      BY <1>10, <1>15
    <3> QED BY <1>2, <1>3, <1>9, <1>10, <1>15, <2>7, <3>1, CutAgain
  <2>9. p \in DOMAIN hn.node /\ p \notin K \ {a}
    <3>1. p <= p
      BY <1>15
    <3> QED BY <1>10, <2>5, <2>8, <3>1 DEF Cut
  <2>10. Added(h2, hn, K \ {a}, p)
    <3>1. h2 = mm_addfreechunk(hn, p)
      BY <1>14, <1>17, <2>2, <2>4
    <3> QED BY <2>7, <2>9, <3>1, AddStep, Zenon
  <2>11. Half(h2, (K \ {a}) \cup {p}) /\ h2.node = hn.node
    BY <2>10 DEF Added
  <2>12. Fresh(h2.node, p, e, e) = {p}
    BY <1>15, <2>7, <2>11 DEF Fresh
  <2>13. Inside(n, p, e) = Inside(n, a, e) \cup {p}
    <3>1. \A x \in DOMAIN n : p < x => a <= x
      BY <1>2, <1>10 DEF Tiled
    <3> QED BY <1>2, <1>10, <1>15, <3>1 DEF Inside
  <2>14. K \ {a} = FreeOf(n) \ Inside(n, p, e)
    BY <1>3, <1>8, <2>5, <2>13
  <2>15. Net(h2, h, p, e, e)
    BY <1>1, <1>9, <1>10, <1>15, <2>1, <2>8, <2>11, <2>12, <2>14 DEF Net
  <2>16. \A x : x \in {} <=> x \in {p, e} /\ x < e /\ h2.node[x].allocated
    BY <1>15, <2>7, <2>11
  <2>17. \A x \in Alloc(n) : x \in {a} <=> x \in Inside(n, p, e)
    BY <1>9, <1>17, <2>13 DEF Alloc
  <2>18. Outcome(h2, h, {a}, {})
    BY <1>1, <2>15, <2>16, <2>17, NetOutcome
  <2>19. NoPairs(n) => \A x \in DOMAIN n : x < p /\ Nx(n, x) = p => n[x].allocated
    <3> SUFFICES ASSUME NoPairs(n), NEW x \in DOMAIN n, x < p, Nx(n, x) = p PROVE n[x].allocated
      OBVIOUS
    <3>1. x # heapend
      BY <1>2, <1>10, TiledTypes
    <3> QED BY <1>17, <3>1 DEF NoPairs, Pair
  <2>20. NoPairs(n) => h2.node[e].allocated
    BY <1>9, <2>8, <2>11 DEF Cut
  <2>21. Calm(h2, h)
    BY <1>1, <1>15, <2>15, <2>19, <2>20, NetCalm
  <2> QED BY <2>18, <2>21 DEF Frees
<1> QED BY <1>16, <1>17

\* A block has r granules now, where it was.
Resized(h2, h, a, r) == Outcome(h2, h, {a}, {a}) /\ Calm(h2, h) /\ h2.node[a].size = r

\* It is joined with the free chunk after it, and the rest is split off again.
LEMMA JoinAndSplit ==
    ASSUME NEW h, HeapOk(h), NEW a, a \in Alloc(h.node), a # heapbase, a # heapend,
           NEW b, b = Nx(h.node, a), ~h.node[b].allocated,
           NEW k, k = h.node[a].size + h.node[b].size, NEW r, r \in Nat, 0 < r, r <= k,
           NEW hj, hj = JoinNext(h, a), NEW h2, h2 = IF r < k THEN Split(hj, a, r, k) ELSE hj
    PROVE  Resized(h2, h, a, r)
<1>1. PICK n : n = h.node
  OBVIOUS
<1>2. Tiled(n) /\ Half(h, FreeOf(n))
  BY <1>1, HeapOkParts
<1>3. a \in DOMAIN n /\ n[a].allocated /\ a \notin FreeOf(n) /\ b = Nx(n, a)
  BY <1>1 DEF Alloc, FreeOf
<1>4. PICK F : F = FreeOf(n)
  OBVIOUS
<1>5. b \in DOMAIN n
  BY <1>2, <1>3 DEF Tiled
<1>6. b # heapend /\ b \in F
  BY <1>1, <1>2, <1>4, <1>5, EndsAllocated DEF FreeOf
<1>7. PICK e : e = Nx(n, b)
  OBVIOUS
<1>8. Inside(n, a, e) = {a, b} /\ e \in DOMAIN n /\ a < b /\ b < e /\ a < e /\ e \in Nat
  BY <1>2, <1>3, <1>6, <1>7, InsideTwo
<1>9. a \in Nat /\ b \in Nat /\ k \in Nat /\ e = a + k
  <2>1. a \in Nat /\ b \in Nat /\ n[a].size \in Nat /\ n[b].size \in Nat
    BY <1>2, <1>3, <1>5, TiledTypes
  <2> QED BY <1>1, <1>3, <1>7, <2>1 DEF Nx
<1>10. Joining(hj, h, F, a, b, e)
  BY <1>1, <1>2, <1>3, <1>4, <1>6, <1>7, JoinStep, Zenon
<1>11. PICK nj : nj = hj.node
  OBVIOUS
<1>12. Half(hj, F \ {b}) /\ Cut(nj, n, a, e, e) /\ nj[a].allocated /\ nj[a].size = k
  BY <1>1, <1>3, <1>10, <1>11 DEF Joining
<1>13. a \in DOMAIN nj
  <2>1. a <= a
    BY <1>9
  <2> QED BY <1>3, <1>12, <2>1 DEF Cut
<1>14. PICK m : m = a + r
  OBVIOUS
<1>15. m \in Nat /\ a < m /\ m <= e /\ a # m /\ a <= a /\ e <= e /\ m - a = r
  BY <1>8, <1>9, <1>14
<1>16. /\ Cut(h2.node, n, a, m, e) /\ h2.node[a].allocated /\ (m < e => ~h2.node[m].allocated)
       /\ Half(h2, (F \ {b}) \cup Fresh(h2.node, a, m, e))
  <2>1. CASE r < k
    <3>1. h2 = Split(hj, a, r, k) /\ m < e
      BY <1>9, <1>14, <2>1
    <3>2. Splitting(h2, hj, F \ {b}, a, m, e)
      <4>1. a \notin F \ {b} /\ a \in DOMAIN hj.node /\ k = hj.node[a].size
        BY <1>3, <1>4, <1>11, <1>12, <1>13
      <4> QED BY <1>9, <1>12, <1>14, <2>1, <3>1, <4>1, SplitStep, Zenon
    <3>3. /\ Half(h2, (F \ {b}) \cup {m}) /\ Cut(h2.node, nj, a, m, e)
          /\ h2.node[a].allocated /\ ~h2.node[m].allocated
      BY <1>11, <1>12, <3>2 DEF Splitting
    <3>4. Cut(h2.node, n, a, m, e)
      BY <1>2, <1>3, <1>8, <1>12, <1>15, <3>3, CutAgain
    <3>5. Fresh(h2.node, a, m, e) = {m}
      BY <3>1, <3>3, FreshSecond
    <3> QED BY <3>3, <3>4, <3>5, Zenon
  <2>2. CASE ~(r < k)
    <3>1. h2 = hj /\ m = e /\ ~(e < e)
      BY <1>9, <1>14, <2>2
    <3>2. Fresh(h2.node, a, m, e) = {}
      BY <1>11, <1>12, <3>1, FreshNone, Zenon
    <3>3. Cut(h2.node, n, a, m, e) /\ h2.node[a].allocated /\ ~(m < e)
      BY <1>11, <1>12, <3>1, Zenon
    <3>4. (F \ {b}) \cup Fresh(h2.node, a, m, e) = F \ {b}
      BY <3>2
    <3>5. Half(h2, (F \ {b}) \cup Fresh(h2.node, a, m, e))
      BY <1>12, <3>1, <3>4, Zenon
    <3> QED BY <3>3, <3>5, Zenon
  <2> QED BY <2>1, <2>2, Zenon
<1>17. Net(h2, h, a, m, e)
  <2>1. F \ {b} = F \ Inside(n, a, e)
    BY <1>3, <1>4, <1>8
  <2> QED BY <1>1, <1>3, <1>4, <1>8, <1>15, <1>16, <2>1 DEF Net
<1>18. \A x \in Alloc(n) : x \in {a} <=> x \in Inside(n, a, e)
  BY <1>1, <1>8 DEF Alloc
<1>19. \A x : x \in {a} <=> x \in {a, m} /\ x < e /\ h2.node[x].allocated
  BY <1>8, <1>16
<1>20. Outcome(h2, h, {a}, {a})
  BY <1>1, <1>17, <1>18, <1>19, NetOutcome
<1>21. NoPairs(n) => n[e].allocated
  BY <1>1, <1>5, <1>6, <1>7, Zenon DEF NoPairs, Pair
<1>22. Calm(h2, h)
  <2>1. h2.node[a].allocated
    BY <1>16
  <2>2. NoPairs(h.node) /\ m < e /\ ~h2.node[m].allocated => h.node[e].allocated
    BY <1>1, <1>21, Zenon
  <2> QED BY <1>17, <2>1, <2>2, NetCalm, ZenonT(30)
<1>23. h2.node[a].size = r
  BY <1>15, <1>16, Zenon DEF Cut
<1> QED BY <1>20, <1>22, <1>23 DEF Resized

LEMMA ShrinkEffect ==
    ASSUME NEW h, HeapOk(h), NEW a, a \in Alloc(h.node), a # heapbase, a # heapend,
           NEW r, r \in Nat, 0 < r, r < h.node[a].size, NEW h2, h2 = mm_shrinkchunk(h, a, r)
    PROVE  Resized(h2, h, a, r)
<1>1. PICK n : n = h.node
  OBVIOUS
<1>2. Tiled(n) /\ Half(h, FreeOf(n))
  BY <1>1, HeapOkParts
<1>3. a \in DOMAIN n /\ n[a].allocated /\ a \notin FreeOf(n)
  BY <1>1 DEF Alloc, FreeOf
<1>4. PICK b : b = Nx(n, a)
  OBVIOUS
<1>5. Inside(n, a, b) = {a} /\ b \in DOMAIN n /\ b \in Nat /\ a < b
  BY <1>2, <1>3, <1>4, InsideOne, Zenon
<1>6. PICK s : s = n[a].size
  OBVIOUS
<1>7. a \in Nat /\ s \in Nat /\ n[b].size \in Nat /\ b = a + s /\ r < s
  BY <1>1, <1>2, <1>3, <1>4, <1>5, <1>6, TiledTypes DEF Nx
<1>8. Next_(h, a) = b /\ (IsFree(h, b) <=> ~n[b].allocated)
  BY <1>1, <1>4 DEF Next_, Nx, IsFree
<1>9. CASE ~n[b].allocated
  <2>1. PICK hj : hj = JoinNext(h, a)
    OBVIOUS
  <2>2. PICK k : k = n[a].size + n[b].size
    OBVIOUS
  <2>3. r < k /\ r <= k
    BY <1>6, <1>7, <2>2
  <2>4. hj.node[a].size = k
    <3>1. b # heapend
      BY <1>2, <1>9 DEF Tiled
    <3>2. Joining(hj, h, FreeOf(n), a, b, Nx(n, b))
      BY <1>1, <1>2, <1>3, <1>4, <2>1, <3>1, JoinStep, Zenon
    <3> QED BY <1>1, <2>2, <3>2 DEF Joining
  <2>5. h2 = Split(hj, a, r, k)
    BY <1>8, <1>9, <2>1, <2>4 DEF mm_shrinkchunk
  <2>6. h2 = IF r < k THEN Split(hj, a, r, k) ELSE hj
    BY <2>3, <2>5
  <2> QED BY <1>1, <1>4, <1>9, <2>1, <2>2, <2>3, <2>6, JoinAndSplit, Zenon
<1>10. CASE n[b].allocated
  <2>1. h2 = Split(h, a, r, s)
    BY <1>1, <1>6, <1>7, <1>8, <1>10 DEF mm_shrinkchunk, SIZEOF_MM_FREENODE
  <2>2. PICK m : m = a + r
    OBVIOUS
  <2>3. m \in Nat /\ a < m /\ m < b /\ m <= b /\ a # m /\ m - a = r
    BY <1>7, <2>2
  <2>4. PICK F : F = FreeOf(n)
    OBVIOUS
  <2>5. Splitting(h2, h, F, a, m, b)
    BY <1>1, <1>2, <1>3, <1>6, <1>7, <2>1, <2>2, <2>4, SplitStep, Zenon
  <2>6. Half(h2, F \cup {m}) /\ Cut(h2.node, n, a, m, b) /\ h2.node[a].allocated /\ ~h2.node[m].allocated
    BY <1>1, <1>3, <2>5 DEF Splitting
  <2>7. Fresh(h2.node, a, m, b) = {m}
    BY <2>3, <2>6 DEF Fresh
  <2>8. Net(h2, h, a, m, b)
    <3>1. F = F \ Inside(n, a, b)
      BY <1>3, <1>5, <2>4
    <3> QED BY <1>1, <1>3, <1>5, <2>3, <2>4, <2>6, <2>7, <3>1 DEF Net
  <2>9. \A x : x \in {a} <=> x \in {a, m} /\ x < b /\ h2.node[x].allocated
    BY <1>5, <2>6
  <2>10. Outcome(h2, h, {a}, {a})
    BY <1>1, <1>5, <2>8, <2>9, NetOutcome
  <2>11. Calm(h2, h)
    BY <1>1, <1>10, <2>6, <2>8, NetCalm
  <2>12. h2.node[a].size = r
    BY <2>3, <2>6 DEF Cut
  <2> QED BY <2>10, <2>11, <2>12 DEF Resized
<1> QED BY <1>9, <1>10

LEMMA TakeNextEffect ==
    ASSUME NEW h, HeapOk(h), NEW a, a \in Alloc(h.node), a # heapbase, a # heapend,
           NEW b, b = Nx(h.node, a), ~h.node[b].allocated,
           NEW t, t \in Nat, 0 < t, t <= h.node[b].size, NEW h2, h2 = TakeNext(h, a, t)
    PROVE  Resized(h2, h, a, h.node[a].size + t)
<1>1. PICK n : n = h.node
  OBVIOUS
<1>2. Tiled(n)
  BY <1>1, HeapOkParts
<1>3. a \in DOMAIN n
  BY <1>1 DEF Alloc
<1>4. b \in DOMAIN n
  BY <1>1, <1>2, <1>3 DEF Tiled
<1>5. PICK s : s = n[a].size
  OBVIOUS
<1>6. PICK z : z = n[b].size
  OBVIOUS
<1>7. s \in Nat /\ 0 < s /\ z \in Nat
  BY <1>2, <1>3, <1>4, <1>5, <1>6, TiledTypes
<1>8. PICK k : k = s + z
  OBVIOUS
<1>9. PICK r : r = s + t
  OBVIOUS
<1>10. r \in Nat /\ 0 < r /\ r <= k /\ (z - t >= 1 <=> r < k)
  BY <1>1, <1>6, <1>7, <1>8, <1>9
<1>11. PICK hj : hj = JoinNext(h, a)
  OBVIOUS
<1>12. Next_(h, a) = b
  BY DEF Next_, Nx
<1>13. t # 0
  OBVIOUS
<1>14. h2 = IF z - t >= 1 THEN Split(hj, a, s + t, s + z) ELSE hj
  BY <1>1, <1>5, <1>6, <1>11, <1>12, <1>13 DEF TakeNext, SIZEOF_MM_FREENODE
<1>15. h2 = IF r < k THEN Split(hj, a, r, k) ELSE hj
  BY <1>8, <1>9, <1>10, <1>14
<1>16. k = h.node[a].size + h.node[b].size
  BY <1>1, <1>5, <1>6, <1>8
<1>17. Resized(h2, h, a, r)
  BY <1>10, <1>11, <1>15, <1>16, JoinAndSplit, Zenon
<1> QED BY <1>1, <1>5, <1>9, <1>17

\* A block has begun t granules earlier.
Lowered(h2, h, a, at, t) ==
    /\ Outcome(h2, h, {a}, {at}) /\ Calm(h2, h) /\ at = a - t
    /\ h2.node[at].size = h.node[a].size + t
    /\ \A x \in DOMAIN h.node : Nx(h.node, a) <= x => /\ h2.node[x].size = h.node[x].size
                                                      /\ h2.node[x].allocated = h.node[x].allocated

\* What a block and the chunk before it are cut into.
LowCut(h2, h, p, m, e, at) ==
    /\ at \in {p, m} /\ Net(h2, h, p, m, e) /\ at < e /\ h2.node[at].allocated
    /\ at # p => ~h2.node[p].allocated
    /\ at = p => m = e

LEMMA LoweredNet ==
    ASSUME NEW h, HeapOk(h), NEW a, a \in Alloc(h.node), a # heapend,
           NEW p, p \in FreeOf(h.node), a = Nx(h.node, p), NEW e, e = Nx(h.node, a),
           NEW t, t \in Nat, NEW at, at = a - t, NEW m, NEW h2, LowCut(h2, h, p, m, e, at),
           h2.node[at].size = h.node[a].size + t
    PROVE  Lowered(h2, h, a, at, t)
<1>0. /\ at \in {p, m} /\ Net(h2, h, p, m, e) /\ at < e /\ h2.node[at].allocated
      /\ at # p => ~h2.node[p].allocated
      /\ at = p => m = e
  BY DEF LowCut
<1>1. PICK n : n = h.node
  OBVIOUS
<1>2. Tiled(n) /\ \A x \in DOMAIN n : x \in Nat
  BY <1>1, HeapOkParts, TiledTypes
<1>3. a \in DOMAIN n /\ n[a].allocated /\ p \in DOMAIN n /\ ~n[p].allocated /\ p # heapend
  BY <1>1, <1>2, EndsAllocated DEF Alloc, FreeOf
<1>4. Inside(n, p, e) = {p, a} /\ e \in DOMAIN n /\ p < a /\ a < e /\ p < e /\ e \in Nat
  BY <1>1, <1>2, <1>3, InsideTwo
<1>5. m \in Nat /\ p < m /\ m <= e /\ Cut(h2.node, n, p, m, e) /\ p # m /\ ~(e < e)
  BY <1>0, <1>1, <1>2, <1>3, <1>4 DEF Net
<1>6. \A x \in Alloc(n) : x \in {a} <=> x \in Inside(n, p, e)
  BY <1>3, <1>4 DEF Alloc
<1>7. \A x : x \in {at} <=> x \in {p, m} /\ x < e /\ h2.node[x].allocated
  BY <1>0, <1>5
<1>8. Outcome(h2, h, {a}, {at})
  BY <1>0, <1>1, <1>6, <1>7, NetOutcome
<1>9. NoPairs(n) => \A x \in DOMAIN n : x < p /\ Nx(n, x) = p => n[x].allocated
  <2> SUFFICES ASSUME NoPairs(n), NEW x \in DOMAIN n, x < p, Nx(n, x) = p PROVE n[x].allocated
    OBVIOUS
  <2>1. x # heapend
    BY <1>2, <1>3, TiledTypes
  <2> QED BY <1>3, <2>1 DEF NoPairs, Pair
<1>10. ~h2.node[p].allocated => h2.node[m].allocated
  BY <1>0, <1>5
<1>11. m < e => h2.node[m].allocated
  BY <1>0, <1>5
<1>12. Calm(h2, h)
  BY <1>0, <1>1, <1>9, <1>10, <1>11, NetCalm
<1>13. \A x \in DOMAIN n : e <= x => h2.node[x].size = n[x].size /\ h2.node[x].allocated = n[x].allocated
  BY <1>2, <1>3, <1>4, <1>5, CutOutside
<1> QED BY <1>1, <1>8, <1>12, <1>13 DEF Lowered

FreeBefore(h, p, a) == p \in FreeOf(h.node) /\ a = Nx(h.node, p) /\ p = Prev_(h, a)

LEMMA TakePrevEffect ==
    ASSUME NEW h, HeapOk(h), NEW a, a \in Alloc(h.node), a # heapbase, a # heapend,
           NEW p, FreeBefore(h, p, a), NEW t, t \in Nat, 0 < t, t <= h.node[p].size,
           NEW r, r = TakePrev(h, a, t)
    PROVE  Lowered(r.heap, h, a, r.at, t)
<1>1. PICK n : n = h.node
  OBVIOUS
<1>2. Tiled(n) /\ Half(h, FreeOf(n)) /\ \A x \in DOMAIN n : x \in Nat
  BY <1>1, HeapOkParts, TiledTypes
<1>3. a \in DOMAIN n /\ n[a].allocated /\ p \in DOMAIN n /\ ~n[p].allocated /\ p # heapend /\ p # heapbase
  BY <1>1, <1>2, EndsAllocated DEF Alloc, FreeOf, FreeBefore
<1>a. a = Nx(n, p)
  BY <1>1 DEF FreeBefore
<1>4. PICK k : k = n[p].size
  OBVIOUS
<1>5. PICK s : s = n[a].size
  OBVIOUS
<1>6. k \in Nat /\ s \in Nat /\ a \in Nat /\ p \in Nat /\ a = p + k /\ t <= k
  <2>1. k \in Nat /\ s \in Nat /\ a \in Nat /\ p \in Nat
    BY <1>2, <1>3, <1>4, <1>5, TiledTypes
  <2>2. a = p + k
    BY <1>4, <1>a DEF Nx
  <2> QED BY <1>1, <1>4, <2>1, <2>2
<1>7. PICK e : e = Nx(n, a)
  OBVIOUS
<1>8. Inside(n, p, e) = {p, a} /\ e \in DOMAIN n /\ p < a /\ a < e /\ p < e /\ e \in Nat
  BY <1>2, <1>3, <1>7, <1>a, InsideTwo
<1>9. e = a + s /\ t # 0 /\ p = Prev_(h, a)
  <2>1. e = a + s
    BY <1>5, <1>7 DEF Nx
  <2>2. t # 0
    OBVIOUS
  <2>3. p = Prev_(h, a)
    BY DEF FreeBefore
  <2> QED BY <2>1, <2>2, <2>3
<1>10. PICK h0 : h0 = Unlink(h, p)
  OBVIOUS
<1>11. PICK F : F = FreeOf(n) \ {p}
  OBVIOUS
<1>12. Half(h0, F) /\ h0.node = n
  <2>1. Unlinked(h0, h, FreeOf(n), p)
    BY <1>2, <1>10, UnlinkStep, Zenon
  <2> QED BY <1>1, <1>11, <2>1 DEF Unlinked
<1>13. PICK l : l = h0.nodelist
  OBVIOUS
<1>14. h0 = Val(n, l) /\ F = FreeOf(n) \ Inside(n, p, e)
  BY <1>3, <1>8, <1>11, <1>12, <1>13 DEF Half, FreeOf
<1>15. \A x \in F : x < p \/ e <= x
  BY <1>2, <1>3, <1>8, <1>11, <1>14 DEF Inside, FreeOf
<1>16. CASE t < k
  <2>1. PICK n2 : n2 = ShiftNodes(n, p, a, k, s, t)
    OBVIOUS
  <2>2. PICK m : m = a - t
    OBVIOUS
  <2>3. PICK h1 : h1 = Val(n2, l)
    OBVIOUS
  <2>4. r = [heap |-> mm_addfreechunk(h1, p), at |-> m]
    <3>1. Drop(h0, a) = Val(Without(n, a), l)
      BY <1>14, DropValue, Zenon
    <3>w. PICK w : w = Without(n, a)
      OBVIOUS
    <3>2. SetSize(Val(w, l), p, k - t) = Val(Sized(w, p, k - t), l)
      BY SetSizeValue, Zenon
    <3>h. PICK hd : hd = Header(s + t, k - t, TRUE)
      OBVIOUS
    <3>s. PICK w2 : w2 = Sized(w, p, k - t)
      OBVIOUS
    <3>3. PICK n3 : n3 = Put(w2, m, hd)
      OBVIOUS
    <3>4. Write(Val(w2, l), m, hd) = Val(n3, l)
      BY <3>3, WriteValue, Zenon
    <3>5. SetPreceding(Val(n3, l), a + s, s + t) = Val(Preceded(n3, a + s, s + t), l)
      BY SetPrecedingValue, Zenon
    <3>6. Preceded(n3, a + s, s + t) = n2
      BY <2>1, <2>2, <3>3, <3>w, <3>h, <3>s DEF ShiftNodes
    <3>7. k - t >= 1
      BY <1>6, <1>16
    <3>8. r = [heap |-> mm_addfreechunk(SetPreceding(Write(SetSize(Drop(h0, a), p, k - t), m,
                                                           Header(s + t, k - t, TRUE)), a + s, s + t), p),
               at |-> m]
      BY <1>1, <1>4, <1>5, <1>9, <1>10, <2>2, <3>7 DEF TakePrev, SIZEOF_MM_FREENODE
    <3> QED BY <2>3, <3>1, <3>2, <3>4, <3>5, <3>6, <3>8, <3>w, <3>h, <3>s, Zenon
  <2>5. /\ Cut(n2, n, p, m, e) /\ n2[p].allocated = n[p].allocated /\ n2[m].allocated
        /\ m \in Nat /\ p < m /\ m < a
    <3>1. e = a + s
      BY <1>9
    <3>2. IsShift(n2, n, p, a, m, e)
      BY <1>2, <1>3, <1>4, <1>5, <1>16, <1>a, <2>1, <2>2, <3>1, ShiftIsCut, Zenon
    <3> QED BY <3>2, Zenon DEF IsShift
  <2>6. m < e /\ m <= e /\ p # m /\ e - m = s + t
    <3>1. e = a + s /\ m = a - t /\ p < m /\ m < a /\ m \in Nat
      BY <1>9, <2>2, <2>5
    <3> QED BY <1>6, <3>1
  <2>7. Tiled(n2)
    BY <1>2, <1>3, <1>8, <2>5, <2>6, CutTiles
  <2>8. Keeps(n2, n, F)
    <3>1. F \subseteq DOMAIN n
      BY <1>11 DEF FreeOf
    <3> QED BY <1>2, <1>3, <1>8, <1>15, <2>5, <2>6, <3>1, CutKeeps
  <2>9. Half(h1, F) /\ h1.node = n2
    BY <1>12, <1>13, <2>3, <2>7, <2>8, NodesStep, Zenon DEF Has
  <2>10. PICK h2 : h2 = mm_addfreechunk(h1, p)
    OBVIOUS
  <2>11. p \in DOMAIN n2 /\ p \notin F
    <3>1. p <= p
      BY <1>6
    <3> QED BY <1>3, <1>11, <2>5, <3>1 DEF Cut
  <2>12. Added(h2, h1, F, p)
    BY <2>9, <2>10, <2>11, AddStep, Zenon
  <2>13. Half(h2, F \cup {p}) /\ h2.node = n2
    BY <2>9, <2>12 DEF Added
  <2>14. Fresh(n2, p, m, e) = {p}
    BY <1>3, <1>8, <2>5 DEF Fresh
  <2>15. Net(h2, h, p, m, e)
    BY <1>1, <1>3, <1>8, <1>14, <2>5, <2>6, <2>13, <2>14 DEF Net
  <2>16. h2.node[m].size = h.node[a].size + t
    BY <1>1, <1>5, <2>5, <2>6, <2>13 DEF Cut
  <2>17. h2.node[m].allocated /\ ~h2.node[p].allocated
    BY <1>3, <2>5, <2>13
  <2>18. Lowered(h2, h, a, m, t)
    <3>1. p \in FreeOf(h.node) /\ a = Nx(h.node, p) /\ e = Nx(h.node, a)
      BY <1>1, <1>3, <1>7, <1>a DEF FreeOf
    <3>2. m # p /\ m < e /\ m \in {p, m}
      BY <2>6
    <3>3. LowCut(h2, h, p, m, e, m)
      BY <2>15, <2>17, <3>2 DEF LowCut
    <3> QED BY <2>2, <2>16, <3>1, <3>3, LoweredNet, Zenon
  <2>19. r.heap = h2 /\ r.at = m
    BY <2>4, <2>10
  <2> QED BY <2>18, <2>19
<1>17. CASE ~(t < k)
  <2>1. PICK n2 : n2 = AbsorbNodes(n, p, a, k, s)
    OBVIOUS
  <2>2. t = k /\ p = a - t
    BY <1>6, <1>17
  <2>3. PICK h2 : h2 = Val(n2, l)
    OBVIOUS
  <2>4. r = [heap |-> h2, at |-> p]
    <3>1. Drop(h0, a) = Val(Without(n, a), l)
      BY <1>14, DropValue, Zenon
    <3>w. PICK w : w = Without(n, a)
      OBVIOUS
    <3>h. PICK hd : hd = Header(k + s, n[p].preceding, TRUE)
      OBVIOUS
    <3>2. PICK n3 : n3 = Put(w, p, hd)
      OBVIOUS
    <3>3. Write(Val(w, l), p, hd) = Val(n3, l)
      BY <3>2, WriteValue, Zenon
    <3>4. SetPreceding(Val(n3, l), a + s, k + s) = Val(Preceded(n3, a + s, k + s), l)
      BY SetPrecedingValue, Zenon
    <3>5. Preceded(n3, a + s, k + s) = n2
      BY <2>1, <3>2, <3>w, <3>h DEF AbsorbNodes
    <3>6. ~(k - t >= 1)
      BY <1>6, <2>2
    <3>7. r = [heap |-> SetPreceding(Write(Drop(h0, a), p, Header(k + s, n[p].preceding, TRUE)), a + s, k + s),
               at |-> p]
      BY <1>1, <1>4, <1>5, <1>9, <1>10, <3>6 DEF TakePrev, SIZEOF_MM_FREENODE
    <3> QED BY <2>3, <3>1, <3>3, <3>4, <3>5, <3>7, <3>w, <3>h, Zenon
  <2>5. Cut(n2, n, p, e, e) /\ n2[p].allocated
    BY <1>2, <1>3, <1>4, <1>5, <1>9, <1>a, <2>1, AbsorbCut
  <2>6. e <= e /\ ~(e < e) /\ e - p = s + t /\ p # e
    BY <1>6, <1>8, <1>9, <2>2
  <2>7. Tiled(n2)
    BY <1>2, <1>3, <1>8, <2>5, <2>6, CutTiles
  <2>8. Keeps(n2, n, F)
    <3>1. F \subseteq DOMAIN n
      BY <1>11 DEF FreeOf
    <3> QED BY <1>2, <1>3, <1>8, <1>15, <2>5, <2>6, <3>1, CutKeeps
  <2>9. Half(h2, F) /\ h2.node = n2
    BY <1>12, <1>13, <2>3, <2>7, <2>8, NodesStep, Zenon DEF Has
  <2>14. Fresh(n2, p, e, e) = {}
    BY <2>5, <2>6 DEF Fresh
  <2>15. Net(h2, h, p, e, e)
    BY <1>1, <1>3, <1>8, <1>14, <2>5, <2>6, <2>9, <2>14 DEF Net
  <2>16. h2.node[p].size = h.node[a].size + t
    BY <1>1, <1>5, <2>5, <2>6, <2>9 DEF Cut
  <2>17. Lowered(h2, h, a, p, t)
    <3>1. p \in FreeOf(h.node) /\ a = Nx(h.node, p) /\ e = Nx(h.node, a)
      BY <1>1, <1>3, <1>7, <1>a DEF FreeOf
    <3>2. h2.node[p].allocated
      BY <2>5, <2>9
    <3>3. LowCut(h2, h, p, e, e, p)
      BY <1>8, <2>15, <3>2 DEF LowCut
    <3> QED BY <2>2, <2>16, <3>1, <3>3, LoweredNet, Zenon
  <2>18. r.heap = h2 /\ r.at = p
    BY <2>4
  <2> QED BY <2>17, <2>18
<1> QED BY <1>16, <1>17

\* The front of a raw chunk is free now, its block begins at m.
Carved(h2, h, a, m) ==
    /\ Outcome(h2, h, {a}, {m}) /\ h2.node[m].size = Nx(h.node, a) - m
    /\ h.node[Prev_(h, a)].allocated => Calm(h2, h)

LEMMA CarveEffect ==
    ASSUME NEW h, HeapOk(h), NEW a, a \in Alloc(h.node), a # heapbase, a # heapend,
           NEW m, m \in Nat, a < m, m < Nx(h.node, a), NEW g, g = m + 1, NEW h2, h2 = Carve(h, a, g)
    PROVE  Carved(h2, h, a, m)
<1>1. PICK n : n = h.node
  OBVIOUS
<1>2. Tiled(n) /\ Half(h, FreeOf(n)) /\ \A x \in DOMAIN n : x \in Nat
  BY <1>1, HeapOkParts, TiledTypes
<1>3. a \in DOMAIN n /\ n[a].allocated /\ a \notin FreeOf(n)
  BY <1>1 DEF Alloc, FreeOf
<1>4. PICK e : e = Nx(n, a)
  OBVIOUS
<1>5. Inside(n, a, e) = {a} /\ e \in DOMAIN n /\ e \in Nat /\ a < e
  BY <1>2, <1>3, <1>4, InsideOne
<1>6. PICK F : F = FreeOf(n)
  OBVIOUS
<1>7. PICK l : l = h.nodelist
  OBVIOUS
<1>8. h = Val(n, l)
  BY <1>1, <1>2, <1>7 DEF Half
<1>9. PICK n2 : n2 = CarveNodes(n, a, m, e)
  OBVIOUS
<1>10. PICK h1 : h1 = Val(n2, l)
  OBVIOUS
<1>11. h2 = mm_addfreechunk(h1, a)
  <2>1. PICK n3 : n3 = Put(n, a, Header(m - a, n[a].preceding, FALSE))
    OBVIOUS
  <2>2. Write(h, a, Header(m - a, n[a].preceding, FALSE)) = Val(n3, l)
    BY <1>8, <2>1, WriteValue, Zenon
  <2>3. PICK n4 : n4 = Put(n3, m, Header(e - m, m - a, TRUE))
    OBVIOUS
  <2>4. Write(Val(n3, l), m, Header(e - m, m - a, TRUE)) = Val(n4, l)
    BY <2>3, WriteValue, Zenon
  <2>5. SetPreceding(Val(n4, l), e, e - m) = Val(Preceded(n4, e, e - m), l)
    BY SetPrecedingValue, Zenon
  <2>6. Preceded(n4, e, e - m) = n2
    BY <1>9, <2>1, <2>3 DEF CarveNodes
  <2>7. g - 1 = m /\ Next_(h, a) = e
    BY <1>1, <1>4 DEF Next_, Nx
  <2>8. h2 = mm_addfreechunk(SetPreceding(Write(Write(h, a, Header(m - a, n[a].preceding, FALSE)), m,
                                                Header(e - m, m - a, TRUE)), e, e - m), a)
    BY <1>1, <2>7 DEF Carve, SIZEOF_MM_ALLOCNODE
  <2> QED BY <1>10, <2>2, <2>4, <2>5, <2>6, <2>8, Zenon
<1>12. m < e /\ m <= e /\ a # m /\ a \in Nat
  BY <1>1, <1>2, <1>3, <1>4, <1>5
<1>13. Cut(n2, n, a, m, e) /\ ~n2[a].allocated /\ n2[m].allocated
  BY <1>2, <1>3, <1>4, <1>9, <1>12, CarveCut
<1>14. Tiled(n2)
  BY <1>2, <1>3, <1>5, <1>12, <1>13, CutTiles
<1>15. Keeps(n2, n, F)
  <2>1. F \subseteq DOMAIN n /\ \A x \in F : x < a \/ e <= x
    BY <1>2, <1>3, <1>5, <1>6, <1>12 DEF FreeOf, Inside
  <2> QED BY <1>2, <1>3, <1>5, <1>12, <1>13, <2>1, CutKeeps
<1>16. Half(h1, F) /\ h1.node = n2
  BY <1>1, <1>2, <1>6, <1>7, <1>10, <1>14, <1>15, NodesStep, Zenon DEF Has
<1>17. a \in DOMAIN n2 /\ a \notin F
  <2>1. a <= a
    BY <1>12
  <2> QED BY <1>3, <1>6, <1>13, <2>1 DEF Cut
<1>18. Added(h2, h1, F, a)
  BY <1>11, <1>16, <1>17, AddStep, Zenon
<1>19. Half(h2, F \cup {a}) /\ h2.node = n2
  BY <1>16, <1>18 DEF Added
<1>20. Fresh(n2, a, m, e) = {a} /\ F = F \ Inside(n, a, e)
  BY <1>3, <1>5, <1>6, <1>13 DEF Fresh
<1>21. Net(h2, h, a, m, e)
  BY <1>1, <1>3, <1>5, <1>6, <1>12, <1>13, <1>19, <1>20 DEF Net
<1>22. \A x : x \in {m} <=> x \in {a, m} /\ x < e /\ h2.node[x].allocated
  BY <1>12, <1>13, <1>19
<1>23. Outcome(h2, h, {a}, {m})
  BY <1>1, <1>5, <1>21, <1>22, NetOutcome
<1>24. h2.node[m].size = e - m
  BY <1>12, <1>13, <1>19 DEF Cut
<1>25. ASSUME n[Prev_(h, a)].allocated PROVE Calm(h2, h)
  <2>1. PICK p \in DOMAIN n : /\ a - n[a].preceding = p
                              /\ \A x \in DOMAIN n : x < a /\ Nx(n, x) = a => x = p
    BY <1>2, <1>3, PrevChunk
  <2>2. Prev_(h, a) = p
    BY <1>1, <2>1 DEF Prev_
  <2>3. \A x \in DOMAIN n : x < a /\ Nx(n, x) = a => n[x].allocated
    BY <1>25, <2>1, <2>2
  <2> QED BY <1>1, <1>13, <1>19, <1>21, <2>3, NetCalm
<1> QED BY <1>1, <1>4, <1>23, <1>24, <1>25 DEF Carved

-----------------------------------------------------------------------------
(***************************************************************************)
(* Who holds which block.                                                  *)
(***************************************************************************)
Hold(k, o, a) == <<k, o, a>>

LEMMA HoldParts ==
    /\ \A k, o, a : Hold(k, o, a)[3] = a
    /\ \A k, o, a, k2, o2, a2 : Hold(k, o, a) = Hold(k2, o2, a2) <=> k = k2 /\ o = o2 /\ a = a2
BY DEF Hold

PtrHeld(f) == {Hold("ptr", p, f[p].mem) : p \in {q \in Ptr : f[q] # Null}}
CallHeld(c) == {Hold("call", p, c[p].mem) : p \in {q \in Ptr : c[q] # None}}
DelayedHeld(dl) == {Hold("delayed", a, a) : a \in ToSet(dl)}
CollectHeld(co) == {Hold("collecting", a, a) : a \in {co} \ {Null}}

Books(f, c, dl, co) == PtrHeld(f) \cup CallHeld(c) \cup DelayedHeld(dl) \cup CollectHeld(co)

LEMMA HoldingsAreBooks == Holdings = Books(ptr, call, delayed, collecting)
BY DEF Holdings, Books, PtrHeld, CallHeld, DelayedHeld, CollectHeld, Hold, Chunk, Ready

\* The books are exact: one entry for every block.
Exact(H, B) ==
    /\ \A x, y \in H : x[3] = y[3] => x = y
    /\ \A x \in H : x[3] \in B
    /\ \A a \in B : \E x \in H : x[3] = a

LEMMA ExactAdd ==
    ASSUME NEW H, NEW B, Exact(H, B), NEW x, NEW a, x[3] = a, a \notin B, NEW H2, H2 = H \cup {x},
           NEW B2, B2 = B \cup {a}
    PROVE  Exact(H2, B2)
BY DEF Exact

LEMMA ExactRemove ==
    ASSUME NEW H, NEW B, Exact(H, B), NEW x \in H, NEW a, x[3] = a, NEW H2, H2 = H \ {x}, NEW B2, B2 = B \ {a}
    PROVE  Exact(H2, B2)
BY DEF Exact

\* The entries of each kind.
LEMMA BooksEntries ==
    ASSUME NEW f, NEW c, NEW dl, NEW co, NEW H, H = Books(f, c, dl, co), NEW x
    PROVE  x \in H <=> \/ \E p \in Ptr : f[p] # Null /\ x = Hold("ptr", p, f[p].mem)
                       \/ \E p \in Ptr : c[p] # None /\ x = Hold("call", p, c[p].mem)
                       \/ \E a \in ToSet(dl) : x = Hold("delayed", a, a)
                       \/ co # Null /\ x = Hold("collecting", co, co)
BY DEF Books, PtrHeld, CallHeld, DelayedHeld, CollectHeld

LEMMA KindsDiffer ==
    /\ "ptr" # "call" /\ "ptr" # "delayed" /\ "ptr" # "collecting"
    /\ "call" # "delayed" /\ "call" # "collecting" /\ "delayed" # "collecting"
OBVIOUS

LEMMA PtrGained ==
    ASSUME NEW f, NEW p \in Ptr, f[p] = Null, NEW f2, \A q \in Ptr \ {p} : f2[q] = f[q],
           f2[p] # Null, NEW a, f2[p].mem = a, NEW c, NEW dl, NEW co
    PROVE  /\ Books(f2, c, dl, co) = Books(f, c, dl, co) \cup {Hold("ptr", p, a)}
           /\ Hold("ptr", p, a) \notin Books(f, c, dl, co)
<1>1. PICK H : H = Books(f, c, dl, co)
  OBVIOUS
<1>2. PICK H2 : H2 = Books(f2, c, dl, co)
  OBVIOUS
<1>3. ASSUME NEW x PROVE x \in H2 <=> x \in H \/ x = Hold("ptr", p, a)
  <2>1. (\E q \in Ptr : f2[q] # Null /\ x = Hold("ptr", q, f2[q].mem))
          <=> (\E q \in Ptr : f[q] # Null /\ x = Hold("ptr", q, f[q].mem)) \/ x = Hold("ptr", p, a)
    OBVIOUS
  <2> QED BY <1>1, <1>2, <2>1, BooksEntries
<1>4. Hold("ptr", p, a) \notin H
  BY <1>1, BooksEntries, HoldParts, KindsDiffer
<1>5. H2 = H \cup {Hold("ptr", p, a)}
  BY <1>3
<1> QED BY <1>1, <1>2, <1>4, <1>5

LEMMA CallGained ==
    ASSUME NEW c, NEW p \in Ptr, c[p] = None, NEW c2, \A q \in Ptr \ {p} : c2[q] = c[q],
           c2[p] # None, NEW a, c2[p].mem = a, NEW f, NEW dl, NEW co
    PROVE  /\ Books(f, c2, dl, co) = Books(f, c, dl, co) \cup {Hold("call", p, a)}
           /\ Hold("call", p, a) \notin Books(f, c, dl, co)
<1>1. PICK H : H = Books(f, c, dl, co)
  OBVIOUS
<1>2. PICK H2 : H2 = Books(f, c2, dl, co)
  OBVIOUS
<1>3. ASSUME NEW x PROVE x \in H2 <=> x \in H \/ x = Hold("call", p, a)
  <2>1. (\E q \in Ptr : c2[q] # None /\ x = Hold("call", q, c2[q].mem))
          <=> (\E q \in Ptr : c[q] # None /\ x = Hold("call", q, c[q].mem)) \/ x = Hold("call", p, a)
    OBVIOUS
  <2> QED BY <1>1, <1>2, <2>1, BooksEntries
<1>4. Hold("call", p, a) \notin H
  BY <1>1, BooksEntries, HoldParts, KindsDiffer
<1>5. H2 = H \cup {Hold("call", p, a)}
  BY <1>3
<1> QED BY <1>1, <1>2, <1>4, <1>5

LEMMA DelayedGained ==
    ASSUME NEW dl, NEW dl2, NEW a, ToSet(dl2) = ToSet(dl) \cup {a}, a \notin ToSet(dl), NEW f, NEW c, NEW co
    PROVE  /\ Books(f, c, dl2, co) = Books(f, c, dl, co) \cup {Hold("delayed", a, a)}
           /\ Hold("delayed", a, a) \notin Books(f, c, dl, co)
<1>1. PICK H : H = Books(f, c, dl, co)
  OBVIOUS
<1>2. PICK H2 : H2 = Books(f, c, dl2, co)
  OBVIOUS
<1>3. ASSUME NEW x PROVE x \in H2 <=> x \in H \/ x = Hold("delayed", a, a)
  <2>1. (\E b \in ToSet(dl2) : x = Hold("delayed", b, b))
          <=> (\E b \in ToSet(dl) : x = Hold("delayed", b, b)) \/ x = Hold("delayed", a, a)
    OBVIOUS
  <2> QED BY <1>1, <1>2, <2>1, BooksEntries
<1>4. Hold("delayed", a, a) \notin H
  BY <1>1, BooksEntries, HoldParts, KindsDiffer
<1>5. H2 = H \cup {Hold("delayed", a, a)}
  BY <1>3
<1> QED BY <1>1, <1>2, <1>4, <1>5

LEMMA CollectGained ==
    ASSUME NEW co, co = Null, NEW co2, co2 # Null, NEW f, NEW c, NEW dl
    PROVE  /\ Books(f, c, dl, co2) = Books(f, c, dl, co) \cup {Hold("collecting", co2, co2)}
           /\ Hold("collecting", co2, co2) \notin Books(f, c, dl, co)
<1>1. PICK H : H = Books(f, c, dl, co)
  OBVIOUS
<1>2. PICK H2 : H2 = Books(f, c, dl, co2)
  OBVIOUS
<1>3. ASSUME NEW x PROVE x \in H2 <=> x \in H \/ x = Hold("collecting", co2, co2)
  BY <1>1, <1>2, BooksEntries
<1>4. Hold("collecting", co2, co2) \notin H
  BY <1>1, BooksEntries, HoldParts, KindsDiffer
<1>5. H2 = H \cup {Hold("collecting", co2, co2)}
  BY <1>3
<1> QED BY <1>1, <1>2, <1>4, <1>5

\* Two entries for blocks of other kinds or others' blocks.
LEMMA Apart ==
    ASSUME NEW f, NEW c, NEW dl, NEW co, NEW B, Exact(Books(f, c, dl, co), B), NEW q \in Ptr,
           NEW k, NEW o, NEW a, Hold(k, o, a) \in Books(f, c, dl, co)
    PROVE  /\ f[q] # Null => f[q].mem \in B /\ (f[q].mem = a => k = "ptr" /\ o = q)
           /\ c[q] # None => c[q].mem \in B /\ (c[q].mem = a => k = "call" /\ o = q)
<1>1. PICK H : H = Books(f, c, dl, co)
  OBVIOUS
<1>2. Exact(H, B) /\ Hold(k, o, a) \in H
  BY <1>1
<1>3. ASSUME f[q] # Null PROVE f[q].mem \in B /\ (f[q].mem = a => k = "ptr" /\ o = q)
  <2>1. Hold("ptr", q, f[q].mem) \in H
    BY <1>1, <1>3, BooksEntries
  <2> QED BY <1>2, <2>1, HoldParts DEF Exact
<1>4. ASSUME c[q] # None PROVE c[q].mem \in B /\ (c[q].mem = a => k = "call" /\ o = q)
  <2>1. Hold("call", q, c[q].mem) \in H
    BY <1>1, <1>4, BooksEntries
  <2> QED BY <1>2, <2>1, HoldParts DEF Exact
<1> QED BY <1>3, <1>4

-----------------------------------------------------------------------------
(***************************************************************************)
(* The granules of blocks, and their number.                               *)
(***************************************************************************)
Blocks(n) == Alloc(n) \ {heapbase, heapend}

Cover(n, B) == {g \in Addr : \E a \in B : a <= g /\ g < Nx(n, a)}

LEMMA CoverSize ==
    ASSUME NEW n, NEW B
    PROVE  IsFiniteSet(Cover(n, B)) /\ Cardinality(Cover(n, B)) \in Nat
<1>1. IsFiniteSet(Addr)
  BY Limits, FS_Interval DEF Addr
<1>2. Cover(n, B) \subseteq Addr
  BY DEF Cover
<1>3. IsFiniteSet(Cover(n, B))
  BY <1>1, <1>2, FS_Subset
<1> QED BY <1>3, FS_CardinalityType

LEMMA CoverSame ==
    ASSUME NEW n, NEW n2, NEW B, \A a \in B : n2[a].size = n[a].size
    PROVE  Cover(n2, B) = Cover(n, B)
BY DEF Cover, Nx

\* A block more is its size more.
LEMMA CoverAdd ==
    ASSUME NEW n, Tiled(n), NEW B, B \subseteq DOMAIN n \ {heapend}, NEW a, a \in DOMAIN n \ {heapend}, a \notin B
    PROVE  Cardinality(Cover(n, B \cup {a})) = Cardinality(Cover(n, B)) + n[a].size
<1>1. a \in Nat /\ heapbase <= a /\ n[a].size \in Nat /\ n[a].size > 0 /\ Nx(n, a) \in Nat /\ a < Nx(n, a)
  BY TiledTypes
<1>2. Nx(n, a) \in DOMAIN n
  BY DEF Tiled
<1>3. Nx(n, a) <= heapend
  BY <1>2, TiledTypes
<1>4. PICK e : e = Nx(n, a)
  OBVIOUS
<1>5. e \in Nat /\ a < e /\ e <= heapend /\ e = a + n[a].size
  BY <1>1, <1>3, <1>4 DEF Nx
<1>6. PICK C : C = a .. e - 1
  OBVIOUS
<1>7. IsFiniteSet(C) /\ Cardinality(C) = n[a].size
  <2>1. PICK f : f = e - 1
    OBVIOUS
  <2>2. a \in Int /\ f \in Int /\ ~(a > f) /\ f - a + 1 = n[a].size
    BY <1>1, <1>5, <2>1
  <2>3. IsFiniteSet(a .. f) /\ Cardinality(a .. f) = IF a > f THEN 0 ELSE f - a + 1
    BY <2>2, FS_Interval
  <2> QED BY <1>6, <2>1, <2>2, <2>3
<1>8. PICK D : D = Cover(n, B)
  OBVIOUS
<1>9. IsFiniteSet(D) /\ Cardinality(D) \in Nat
  BY <1>8, CoverSize
<1>10. \A g : g \in C <=> g \in Addr /\ a <= g /\ g < e
  BY <1>1, <1>5, <1>6, Limits, SMTT(30)
<1>11. Cover(n, B \cup {a}) = D \cup C
  BY <1>4, <1>8, <1>10 DEF Cover
<1>12. D \cap C = {}
  <2> SUFFICES ASSUME NEW g \in D, g \in C PROVE FALSE
    OBVIOUS
  <2>1. PICK b \in B : b <= g /\ g < Nx(n, b)
    BY <1>8 DEF Cover
  <2>2. b \in DOMAIN n /\ b # heapend /\ b # a
    BY <2>1
  <2>3. b \in Nat /\ Nx(n, b) \in Nat /\ g \in Nat
    BY <1>8, <2>2, TiledTypes, Limits DEF Cover
  <2>4. a <= g /\ g < e
    BY <1>10
  <2>5. (a < b => e <= b) /\ (b < a => Nx(n, b) <= a)
    BY <1>4, <2>2 DEF Tiled
  <2> QED BY <1>1, <1>5, <2>1, <2>2, <2>3, <2>4, <2>5
<1>13. Cardinality(D \cup C) = Cardinality(D) + Cardinality(C) - Cardinality(D \cap C)
  BY <1>7, <1>9, FS_Union
<1>14. Cardinality(D \cap C) = 0
  BY <1>12, FS_EmptySet
<1>15. Cardinality(D \cup C) = Cardinality(D) + Cardinality(C)
  BY <1>1, <1>7, <1>9, <1>13, <1>14
<1> QED BY <1>7, <1>8, <1>11, <1>15

Total(n) == Cardinality(Cover(n, Blocks(n)))

LEMMA BlocksOf ==
    ASSUME NEW n, Tiled(n)
    PROVE  /\ Blocks(n) \subseteq DOMAIN n \ {heapend} /\ Total(n) \in Nat
           /\ \A a \in Blocks(n) : a \in Alloc(n) /\ a # heapbase /\ a # heapend /\ a \in DOMAIN n /\ a \in Nat
                                   /\ a \in Addr /\ n[a].size \in Nat /\ n[a].size > 0
<1>1. \A a \in Blocks(n) : a \in Alloc(n) /\ a # heapbase /\ a # heapend /\ a \in DOMAIN n
  BY DEF Blocks, Alloc
<1>2. \A a \in DOMAIN n : a \in Nat /\ a \in Addr /\ n[a].size \in Nat /\ n[a].size > 0
  BY TiledTypes DEF Tiled, IsNodes
<1> QED BY <1>1, <1>2, CoverSize DEF Total

\* The blocks of X go, the block of Y comes.
LEMMA BlocksMove ==
    ASSUME NEW h, HeapOk(h), NEW h2, NEW X, NEW Y, Outcome(h2, h, X, Y), heapbase \notin X \cup Y, heapend \notin X \cup Y
    PROVE  /\ Blocks(h2.node) = (Blocks(h.node) \ X) \cup Y
           /\ \A a \in Blocks(h.node) \ X : h2.node[a].size = h.node[a].size
           /\ Tiled(h2.node) /\ Tiled(h.node)
BY HeapOkParts DEF Outcome, Blocks

LEMMA TotalGained ==
    ASSUME NEW h, HeapOk(h), NEW h2, NEW a, a \in FreeOf(h.node), Outcome(h2, h, {}, {a})
    PROVE  Total(h2.node) = Total(h.node) + h2.node[a].size
<1>1. PICK n : n = h.node
  OBVIOUS
<1>2. PICK n2 : n2 = h2.node
  OBVIOUS
<1>3. a \notin Alloc(n) /\ a # heapbase /\ a # heapend
  BY <1>1, HeapOkParts, EndsAllocated DEF FreeOf, Alloc
<1>4. /\ Blocks(n2) = Blocks(n) \cup {a} /\ (\A x \in Blocks(n) : n2[x].size = n[x].size)
      /\ Tiled(n2) /\ Tiled(n)
  BY <1>1, <1>2, <1>3, BlocksMove
<1>5. Cover(n2, Blocks(n)) = Cover(n, Blocks(n))
  BY <1>4, CoverSame
<1>6. a \notin Blocks(n) /\ a \in DOMAIN n2 \ {heapend} /\ Blocks(n) \subseteq DOMAIN n2 \ {heapend}
  BY <1>3, <1>4, BlocksOf DEF Blocks
<1>7. Cardinality(Cover(n2, Blocks(n) \cup {a})) = Cardinality(Cover(n2, Blocks(n))) + n2[a].size
  BY <1>4, <1>6, CoverAdd
<1> QED BY <1>1, <1>2, <1>4, <1>5, <1>7 DEF Total

LEMMA TotalWithout ==
    ASSUME NEW n, Tiled(n), NEW a, a \in Blocks(n)
    PROVE  Total(n) = Cardinality(Cover(n, Blocks(n) \ {a})) + n[a].size
<1>1. PICK B : B = Blocks(n) \ {a}
  OBVIOUS
<1>2. B \subseteq DOMAIN n \ {heapend} /\ a \in DOMAIN n \ {heapend} /\ a \notin B /\ B \cup {a} = Blocks(n)
  BY <1>1, BlocksOf
<1>3. Cardinality(Cover(n, B \cup {a})) = Cardinality(Cover(n, B)) + n[a].size
  BY <1>2, CoverAdd
<1> QED BY <1>1, <1>2, <1>3 DEF Total

LEMMA TotalLost ==
    ASSUME NEW h, HeapOk(h), NEW h2, NEW a, a \in Blocks(h.node), Outcome(h2, h, {a}, {})
    PROVE  Total(h2.node) = Total(h.node) - h.node[a].size
<1>1. PICK n : n = h.node
  OBVIOUS
<1>2. PICK n2 : n2 = h2.node
  OBVIOUS
<1>3. PICK B : B = Blocks(n) \ {a}
  OBVIOUS
<1>4. a # heapbase /\ a # heapend
  BY DEF Blocks
<1>5. Blocks(n2) = B /\ (\A x \in B : n2[x].size = n[x].size) /\ Tiled(n)
  BY <1>1, <1>2, <1>3, <1>4, BlocksMove
<1>6. Cover(n2, B) = Cover(n, B)
  BY <1>5, CoverSame
<1>7. Total(n) = Cardinality(Cover(n, B)) + n[a].size
  BY <1>1, <1>3, <1>5, TotalWithout
<1>8. Cardinality(Cover(n, B)) \in Nat /\ n[a].size \in Nat
  BY <1>1, <1>5, CoverSize, BlocksOf
<1>9. Total(n2) = Cardinality(Cover(n, B))
  BY <1>5, <1>6 DEF Total
<1> QED BY <1>1, <1>2, <1>7, <1>8, <1>9

LEMMA TotalMoved ==
    ASSUME NEW h, HeapOk(h), NEW h2, NEW a, a \in Blocks(h.node), NEW b, b # heapbase, b # heapend,
           b \notin Blocks(h.node) \ {a}, Outcome(h2, h, {a}, {b})
    PROVE  Total(h2.node) = (Total(h.node) - h.node[a].size) + h2.node[b].size
<1>1. PICK n : n = h.node
  OBVIOUS
<1>2. PICK n2 : n2 = h2.node
  OBVIOUS
<1>3. PICK B : B = Blocks(n) \ {a}
  OBVIOUS
<1>4. a # heapbase /\ a # heapend /\ b \notin B
  BY <1>1, <1>3 DEF Blocks
<1>5. Blocks(n2) = B \cup {b} /\ (\A x \in B : n2[x].size = n[x].size) /\ Tiled(n) /\ Tiled(n2)
  BY <1>1, <1>2, <1>3, <1>4, BlocksMove
<1>6. Cover(n2, B) = Cover(n, B)
  BY <1>5, CoverSame
<1>7. Total(n) = Cardinality(Cover(n, B)) + n[a].size
  BY <1>1, <1>3, <1>5, TotalWithout
<1>8. b \in Blocks(n2) /\ Blocks(n2) \ {b} = B
  BY <1>4, <1>5
<1>9. Total(n2) = Cardinality(Cover(n2, B)) + n2[b].size
  BY <1>5, <1>8, TotalWithout
<1>10. Cardinality(Cover(n, B)) \in Nat /\ n[a].size \in Nat /\ n2[b].size \in Nat
  BY <1>1, <1>5, <1>8, CoverSize, BlocksOf
<1> QED BY <1>1, <1>2, <1>6, <1>7, <1>9, <1>10

-----------------------------------------------------------------------------
(***************************************************************************)
(* What the blocks contain.                                                *)
(***************************************************************************)
Blk == [mem : Nat, want : Nat]

Mine(n, b, d, q) == n[b.mem].size >= b.want + 1 /\ \A g \in Payload(b.mem, b.want) : d[g] = q

\* The blocks of the pointers in S.
Intact(S, n, f, d) == \A q \in S : f[q] # Null => Mine(n, f[q], d, q)

\* They are blocks, and none of them is a.
Away(S, n, f, a) == \A q \in S : f[q] # Null => f[q].mem \in Blocks(n) /\ f[q].mem # a

\* Pointers, and functions on them.
Pointers(f) == f \in [Ptr -> Blk \cup {Null}]
Indexed(f) == f = [q \in Ptr |-> f[q]]
Updated(f, p, x) == [f EXCEPT ![p] = x]

LEMMA UpdatedAt ==
    ASSUME NEW f, Indexed(f), NEW p, p \in Ptr, NEW x, NEW f2, f2 = Updated(f, p, x)
    PROVE  Indexed(f2) /\ f2[p] = x /\ \A q \in Ptr \ {p} : f2[q] = f[q]
BY DEF Indexed, Updated

LEMMA PointersIndexed == ASSUME NEW f, Pointers(f) PROVE Indexed(f)
BY DEF Pointers, Indexed

LEMMA UpdatedPointer ==
    ASSUME NEW f, Pointers(f), NEW p, p \in Ptr, NEW x, x \in Blk \cup {Null}, NEW f2, f2 = Updated(f, p, x)
    PROVE  Pointers(f2)
BY DEF Pointers, Updated

LEMMA UpdatedTwice ==
    ASSUME NEW f, Indexed(f), NEW p, p \in Ptr, NEW x, NEW y, NEW f1, f1 = Updated(f, p, x)
    PROVE  Updated(f1, p, y) = Updated(f, p, y)
BY DEF Indexed, Updated

LEMMA PtrTypes ==
    ASSUME NEW f, Pointers(f), NEW q \in Ptr, f[q] # Null
    PROVE  f[q].mem \in Nat /\ f[q].want \in Nat
BY DEF Blk, Pointers

LEMMA PayloadIn ==
    ASSUME NEW n, Tiled(n), NEW c, c \in Blocks(n), NEW w, w \in Nat, n[c].size >= w + 1, NEW g, g \in Payload(c, w)
    PROVE  g \in Addr /\ g \in Nat /\ g \notin DOMAIN n /\ c < g /\ g < Nx(n, c)
<1>1. c \in DOMAIN n /\ c # heapend /\ c \in Nat /\ n[c].size \in Nat
  BY BlocksOf
<1>2. Nx(n, c) \in DOMAIN n /\ Nx(n, c) = c + n[c].size
  BY <1>1 DEF Tiled, Nx
<1>3. Nx(n, c) \in Nat /\ Nx(n, c) <= heapend /\ heapbase <= c
  BY <1>1, <1>2, TiledTypes
<1>4. g \in Nat /\ c < g /\ g < Nx(n, c)
  BY <1>1, <1>2 DEF Payload, SIZEOF_MM_ALLOCNODE
<1>5. g \in Addr
  BY <1>1, <1>3, <1>4, Limits
<1>6. g \notin DOMAIN n
  <2>1. \A x \in DOMAIN n : c < x => Nx(n, c) <= x
    BY <1>1 DEF Tiled
  <2> QED BY <1>3, <1>4, <2>1
<1> QED BY <1>4, <1>5, <1>6

LEMMA PayloadApart ==
    ASSUME NEW n, Tiled(n), NEW c, c \in Blocks(n), NEW a, a \in Blocks(n), a # c,
           NEW g, g \in Nat, c < g, g < Nx(n, c), NEW z, z \in Nat, z + 1 <= n[a].size
    PROVE  g \notin Payload(a, z)
<1>1. /\ c \in DOMAIN n /\ c # heapend /\ c \in Nat /\ Nx(n, c) \in Nat
      /\ a \in DOMAIN n /\ a # heapend /\ a \in Nat /\ n[a].size \in Nat /\ Nx(n, a) = a + n[a].size
  BY BlocksOf, TiledTypes DEF Nx
<1>2. (a < c => Nx(n, a) <= c) /\ (c < a => Nx(n, c) <= a)
  BY <1>1 DEF Tiled
<1> QED BY <1>1, <1>2 DEF Payload, SIZEOF_MM_ALLOCNODE

\* Contents that are the same where the blocks are.
LEMMA SameIntact ==
    ASSUME NEW S, NEW n, NEW f, NEW d, Intact(S, n, f, d), NEW d2,
           \A q \in S : f[q] # Null => \A g \in Payload(f[q].mem, f[q].want) : d2[g] = d[g]
    PROVE  Intact(S, n, f, d2)
BY DEF Intact, Mine

LEMMA UnderIntact ==
    ASSUME NEW S, S \subseteq Ptr, NEW n, Tiled(n), NEW f, Pointers(f),
           NEW d, Intact(S, n, f, d), NEW a, Away(S, n, f, a), NEW h, h.node = n, NEW d2, d2 = Under(h, d)
    PROVE  Intact(S, n, f, d2)
<1>1. ASSUME NEW q \in S, f[q] # Null, NEW g \in Payload(f[q].mem, f[q].want) PROVE d2[g] = d[g]
  <2>1. f[q].mem \in Blocks(n) /\ f[q].want \in Nat /\ n[f[q].mem].size >= f[q].want + 1
    BY <1>1, PtrTypes DEF Intact, Mine, Away
  <2>2. g \in Addr /\ g \notin DOMAIN n
    BY <2>1, PayloadIn
  <2> QED BY <2>2 DEF Under
<1> QED BY <1>1, SameIntact

\* Contents that change inside block a only.
Within(d2, d, n, a) == \A g \in Addr : ~(a < g /\ g < Nx(n, a)) => d2[g] = d[g]

LEMMA WithinIntact ==
    ASSUME NEW S, S \subseteq Ptr, NEW n, Tiled(n), NEW f, Pointers(f),
           NEW d, Intact(S, n, f, d), NEW a, a \in Blocks(n), Away(S, n, f, a), NEW d2, Within(d2, d, n, a)
    PROVE  Intact(S, n, f, d2)
<1>1. ASSUME NEW q \in S, f[q] # Null, NEW g \in Payload(f[q].mem, f[q].want) PROVE d2[g] = d[g]
  <2>1. PICK c : c = f[q].mem
    OBVIOUS
  <2>2. c \in Blocks(n) /\ f[q].want \in Nat /\ n[c].size >= f[q].want + 1 /\ c # a
    BY <1>1, <2>1, PtrTypes DEF Intact, Mine, Away
  <2>3. g \in Addr /\ g \in Nat /\ c < g /\ g < Nx(n, c)
    BY <2>1, <2>2, PayloadIn
  <2>4. /\ a \in Nat /\ c \in Nat /\ Nx(n, a) \in Nat /\ Nx(n, c) \in Nat
        /\ (a < c => Nx(n, a) <= c) /\ (c < a => Nx(n, c) <= a)
    <3>1. a \in DOMAIN n /\ c \in DOMAIN n /\ a # heapend /\ c # heapend
      BY <2>2, BlocksOf
    <3>2. a \in Nat /\ c \in Nat /\ Nx(n, a) \in Nat /\ Nx(n, c) \in Nat
      BY <3>1, TiledTypes
    <3> QED BY <3>1, <3>2 DEF Tiled
  <2>5. ~(a < g /\ g < Nx(n, a))
    BY <2>2, <2>3, <2>4
  <2> QED BY <2>3, <2>5 DEF Within
<1> QED BY <1>1, SameIntact

LEMMA WithinPayload ==
    ASSUME NEW n, Tiled(n), NEW a, a \in Blocks(n), NEW z, z \in Nat, z + 1 <= n[a].size, NEW g, g \in Payload(a, z)
    PROVE  a < g /\ g < Nx(n, a)
<1>1. n[a].size >= z + 1
  BY BlocksOf
<1> QED BY <1>1, PayloadIn

LEMMA FilledWithin ==
    ASSUME NEW n, Tiled(n), NEW a, a \in Blocks(n), NEW d, NEW x, NEW d2,
           d2 = Filled(d, Payload(a, n[a].size - SIZEOF_MM_ALLOCNODE), x)
    PROVE  Within(d2, d, n, a)
<1>1. PICK z : z = n[a].size - SIZEOF_MM_ALLOCNODE
  OBVIOUS
<1>2. z \in Nat /\ z + 1 <= n[a].size
  BY <1>1, BlocksOf DEF SIZEOF_MM_ALLOCNODE
<1>3. \A g : g \in Payload(a, z) => a < g /\ g < Nx(n, a)
  BY <1>2, WithinPayload
<1>4. d2 = Filled(d, Payload(a, z), x)
  BY <1>1
<1> QED BY <1>3, <1>4 DEF Filled, Within

LEMMA CopiedWithin ==
    ASSUME NEW n, Tiled(n), NEW a, a \in Blocks(n), NEW d, NEW b, NEW z, z \in Nat, z + 1 <= n[a].size, NEW d2,
           d2 = Copied(d, a, b, z)
    PROVE  Within(d2, d, n, a)
<1>1. \A g : g \in Payload(a, z) => a < g /\ g < Nx(n, a)
  BY WithinPayload
<1> QED BY <1>1 DEF Copied, Within

\* What Got does to the contents.
GotTo(d, a, s, had, w, p) ==
    Filled(Filled(d, Payload(a, s - SIZEOF_MM_ALLOCNODE) \ Payload(a, w), Junk),
           Payload(a, w) \ Payload(a, had), p)

LEMMA GotWithin ==
    ASSUME NEW n, Tiled(n), NEW a, a \in Blocks(n), NEW d, NEW s, s = n[a].size, NEW had, NEW w, w \in Nat,
           n[a].size >= w + 1, NEW p, NEW d2, d2 = GotTo(d, a, s, had, w, p)
    PROVE  Within(d2, d, n, a)
<1>1. PICK z : z = s - SIZEOF_MM_ALLOCNODE
  OBVIOUS
<1>2. z \in Nat /\ z + 1 <= n[a].size /\ w + 1 <= n[a].size
  BY <1>1, BlocksOf DEF SIZEOF_MM_ALLOCNODE
<1>3. \A g : g \in Payload(a, z) => a < g /\ g < Nx(n, a)
  BY <1>2, WithinPayload
<1>4. \A g : g \in Payload(a, w) => a < g /\ g < Nx(n, a)
  BY <1>2, WithinPayload
<1>5. d2 = Filled(Filled(d, Payload(a, z) \ Payload(a, w), Junk), Payload(a, w) \ Payload(a, had), p)
  BY <1>1 DEF GotTo
<1> QED BY <1>3, <1>4, <1>5 DEF Filled, Within

LEMMA GotMine ==
    ASSUME NEW n, Tiled(n), NEW a, a \in Blocks(n), NEW d, NEW s, NEW had, NEW w, w \in Nat,
           n[a].size >= w + 1, NEW p, NEW d2, d2 = GotTo(d, a, s, had, w, p),
           \A g \in Payload(a, w) : g \in Payload(a, had) => d[g] = p
    PROVE  Mine(n, Block(a, w), d2, p)
<1>1. Block(a, w).mem = a /\ Block(a, w).want = w
  BY DEF Block
<1>2. ASSUME NEW g \in Payload(a, w) PROVE d2[g] = p
  <2>1. g \in Addr
    BY PayloadIn
  <2> QED BY <2>1 DEF GotTo, Filled
<1> QED BY <1>1, <1>2 DEF Mine

LEMMA NoPayload == ASSUME NEW a, a \in Nat PROVE Payload(a, 0) = {}
BY DEF Payload, SIZEOF_MM_ALLOCNODE

\* All pointers, when one of them has got a block.
LEMMA GotIntact ==
    ASSUME NEW n, Tiled(n), NEW f, Pointers(f), NEW p, p \in Ptr, NEW S, S = Ptr \ {p},
           NEW d, Intact(S, n, f, d), NEW a, a \in Blocks(n), Away(S, n, f, a),
           NEW w, w \in Nat, n[a].size >= w + 1, NEW had, NEW d2, d2 = GotTo(d, a, n[a].size, had, w, p),
           \A g \in Payload(a, w) : g \in Payload(a, had) => d[g] = p,
           NEW f2, f2 = Updated(f, p, Block(a, w))
    PROVE  Intact(Ptr, n, f2, d2)
<1>1. Within(d2, d, n, a)
  BY GotWithin
<1>2. Intact(S, n, f, d2)
  BY <1>1, WithinIntact
<1>3. Mine(n, Block(a, w), d2, p)
  BY GotMine
<1>4. f2[p] = Block(a, w) /\ \A q \in S : f2[q] = f[q]
  BY PointersIndexed, UpdatedAt
<1> QED BY <1>2, <1>3, <1>4 DEF Intact

\* Entries of the books come and go.
LEMMA PtrGain ==
    ASSUME NEW f, Indexed(f), NEW p, p \in Ptr, f[p] = Null, NEW b, b # Null,
           NEW f2, f2 = Updated(f, p, b), NEW c, NEW dl, NEW co,
           NEW B, Exact(Books(f, c, dl, co), B), b.mem \notin B, NEW B2, B2 = B \cup {b.mem}
    PROVE  Exact(Books(f2, c, dl, co), B2)
<1>1. f2[p] = b /\ \A q \in Ptr \ {p} : f2[q] = f[q]
  BY UpdatedAt
<1>2. PICK a : a = b.mem
  OBVIOUS
<1>3. Books(f2, c, dl, co) = Books(f, c, dl, co) \cup {Hold("ptr", p, a)}
  BY <1>1, <1>2, PtrGained
<1>4. Hold("ptr", p, a)[3] = a
  BY HoldParts
<1> QED BY <1>2, <1>3, <1>4, ExactAdd

LEMMA PtrLose ==
    ASSUME NEW f, Indexed(f), NEW p, p \in Ptr, f[p] # Null, NEW a, a = f[p].mem,
           NEW f2, f2 = Updated(f, p, Null), NEW c, NEW dl, NEW co,
           NEW B, Exact(Books(f, c, dl, co), B), NEW B2, B2 = B \ {a}
    PROVE  /\ Exact(Books(f2, c, dl, co), B2)
           /\ a \in B
<1>1. f2[p] = Null /\ \A q \in Ptr \ {p} : f[q] = f2[q]
  BY UpdatedAt
<1>2. /\ Books(f, c, dl, co) = Books(f2, c, dl, co) \cup {Hold("ptr", p, a)}
      /\ Hold("ptr", p, a) \notin Books(f2, c, dl, co)
  BY <1>1, PtrGained
<1>3. Hold("ptr", p, a)[3] = a
  BY HoldParts
<1>4. PICK H : H = Books(f, c, dl, co)
  OBVIOUS
<1>5. PICK H2 : H2 = Books(f2, c, dl, co)
  OBVIOUS
<1>6. PICK x : x = Hold("ptr", p, a)
  OBVIOUS
<1>7. H2 = H \ {x} /\ x \in H /\ x[3] = a /\ Exact(H, B)
  BY <1>2, <1>3, <1>4, <1>5, <1>6
<1>8. Exact(H2, B2)
  BY <1>7, ExactRemove
<1>9. a \in B
  BY <1>7 DEF Exact
<1> QED BY <1>5, <1>8, <1>9

LEMMA CallGain ==
    ASSUME NEW c, Indexed(c), NEW p, p \in Ptr, c[p] = None, NEW b, b # None,
           NEW c2, c2 = Updated(c, p, b), NEW f, NEW dl, NEW co,
           NEW B, Exact(Books(f, c, dl, co), B), b.mem \notin B, NEW B2, B2 = B \cup {b.mem}
    PROVE  Exact(Books(f, c2, dl, co), B2)
<1>1. c2[p] = b /\ \A q \in Ptr \ {p} : c2[q] = c[q]
  BY UpdatedAt
<1>2. PICK a : a = b.mem
  OBVIOUS
<1>3. Books(f, c2, dl, co) = Books(f, c, dl, co) \cup {Hold("call", p, a)}
  BY <1>1, <1>2, CallGained
<1>4. Hold("call", p, a)[3] = a
  BY HoldParts
<1> QED BY <1>2, <1>3, <1>4, ExactAdd

\* The call of p ends and lets go of the chunk at a.
Ending(c, c2, p, a) ==
    Indexed(c) /\ p \in Ptr /\ c[p] # None /\ a = c[p].mem /\ c2 = Updated(c, p, None)

LEMMA CallLose ==
    ASSUME NEW c, NEW c2, NEW p, NEW a, Ending(c, c2, p, a), NEW f, NEW dl, NEW co,
           NEW B, Exact(Books(f, c, dl, co), B), NEW B2, B2 = B \ {a}
    PROVE  /\ Exact(Books(f, c2, dl, co), B2)
           /\ a \in B
<1>0. Indexed(c) /\ p \in Ptr /\ c[p] # None /\ a = c[p].mem /\ c2 = Updated(c, p, None)
  BY DEF Ending
<1>1. c2[p] = None /\ \A q \in Ptr \ {p} : c[q] = c2[q]
  BY <1>0, UpdatedAt
<1>2. /\ Books(f, c, dl, co) = Books(f, c2, dl, co) \cup {Hold("call", p, a)}
      /\ Hold("call", p, a) \notin Books(f, c2, dl, co)
  BY <1>0, <1>1, CallGained
<1>3. Hold("call", p, a)[3] = a
  BY HoldParts
<1>4. Books(f, c2, dl, co) = Books(f, c, dl, co) \ {Hold("call", p, a)} /\ Hold("call", p, a) \in Books(f, c, dl, co)
  BY <1>2
<1> QED BY <1>3, <1>4, ExactRemove DEF Exact

\* Address a has been appended.
Queued(dl2, dl, a) ==
    /\ dl2 \in Seq(Nat) /\ ToSet(dl2) = ToSet(dl) \cup {a}
    /\ a \notin ToSet(dl) => IsInjective(dl2)

LEMMA DelayedGain ==
    ASSUME NEW dl, NEW dl2, NEW a, Queued(dl2, dl, a), NEW f, NEW c, NEW co,
           NEW B, Exact(Books(f, c, dl, co), B), a \notin B, NEW B2, B2 = B \cup {a}
    PROVE  Exact(Books(f, c, dl2, co), B2) /\ a \notin ToSet(dl)
<1>0. a \notin ToSet(dl)
  <2> SUFFICES ASSUME a \in ToSet(dl) PROVE FALSE
    OBVIOUS
  <2>1. Hold("delayed", a, a) \in Books(f, c, dl, co)
    BY BooksEntries
  <2> QED BY <2>1, HoldParts DEF Exact
<1>1. Books(f, c, dl2, co) = Books(f, c, dl, co) \cup {Hold("delayed", a, a)}
  BY <1>0, DelayedGained DEF Queued
<1>2. Hold("delayed", a, a)[3] = a
  BY HoldParts
<1> QED BY <1>0, <1>1, <1>2, ExactAdd

LEMMA DelayedLose ==
    ASSUME NEW dl, NEW dl2, NEW a, ToSet(dl) = ToSet(dl2) \cup {a}, a \notin ToSet(dl2), NEW f, NEW c, NEW co,
           NEW B, Exact(Books(f, c, dl, co), B), NEW B2, B2 = B \ {a}
    PROVE  Exact(Books(f, c, dl2, co), B2) /\ a \in B
<1>1. /\ Books(f, c, dl, co) = Books(f, c, dl2, co) \cup {Hold("delayed", a, a)}
      /\ Hold("delayed", a, a) \notin Books(f, c, dl2, co)
  BY DelayedGained
<1>2. Hold("delayed", a, a)[3] = a
  BY HoldParts
<1>3. Books(f, c, dl2, co) = Books(f, c, dl, co) \ {Hold("delayed", a, a)} /\ Hold("delayed", a, a) \in Books(f, c, dl, co)
  BY <1>1
<1> QED BY <1>2, <1>3, ExactRemove DEF Exact

LEMMA CollectGain ==
    ASSUME NEW a, a # Null, NEW f, NEW c, NEW dl,
           NEW B, Exact(Books(f, c, dl, Null), B), a \notin B, NEW B2, B2 = B \cup {a}
    PROVE  Exact(Books(f, c, dl, a), B2)
<1>1. Books(f, c, dl, a) = Books(f, c, dl, Null) \cup {Hold("collecting", a, a)}
  BY CollectGained
<1>2. Hold("collecting", a, a)[3] = a
  BY HoldParts
<1> QED BY <1>1, <1>2, ExactAdd

LEMMA CollectLose ==
    ASSUME NEW a, a # Null, NEW f, NEW c, NEW dl,
           NEW B, Exact(Books(f, c, dl, a), B), NEW B2, B2 = B \ {a}
    PROVE  Exact(Books(f, c, dl, Null), B2) /\ a \in B
<1>1. /\ Books(f, c, dl, a) = Books(f, c, dl, Null) \cup {Hold("collecting", a, a)}
      /\ Hold("collecting", a, a) \notin Books(f, c, dl, Null)
  BY CollectGained
<1>2. Hold("collecting", a, a)[3] = a
  BY HoldParts
<1>3. Books(f, c, dl, Null) = Books(f, c, dl, a) \ {Hold("collecting", a, a)} /\ Hold("collecting", a, a) \in Books(f, c, dl, a)
  BY <1>1
<1> QED BY <1>2, <1>3, ExactRemove DEF Exact

-----------------------------------------------------------------------------
(***************************************************************************)
(* What a call does to the blocks.                                         *)
(***************************************************************************)
\* Block a is new.
Gained(h2, h, a) ==
    /\ HeapOk(h2) /\ Calm(h2, h) /\ a \in Blocks(h2.node) /\ a \notin Blocks(h.node)
    /\ Blocks(h2.node) = Blocks(h.node) \cup {a}
    /\ \A x \in Blocks(h.node) : h2.node[x].size = h.node[x].size
    /\ Total(h2.node) = Total(h.node) + h2.node[a].size
    /\ h2.node[a].size \in Nat

\* Block a is free.
Lost(h2, h, a) ==
    /\ HeapOk(h2) /\ Calm(h2, h)
    /\ Blocks(h2.node) = Blocks(h.node) \ {a}
    /\ \A x \in Blocks(h.node) \ {a} : h2.node[x].size = h.node[x].size
    /\ Total(h2.node) = Total(h.node) - h.node[a].size

\* Block a begins at b now.
Moved(h2, h, a, b) ==
    /\ HeapOk(h2)
    /\ b \in Blocks(h2.node) /\ b \notin Blocks(h.node) \ {a}
    /\ Blocks(h2.node) = (Blocks(h.node) \ {a}) \cup {b}
    /\ \A x \in Blocks(h.node) \ {a} : h2.node[x].size = h.node[x].size
    /\ Total(h2.node) = (Total(h.node) - h.node[a].size) + h2.node[b].size
    /\ h.node[a].size \in Nat /\ h2.node[b].size \in Nat /\ Total(h.node) \in Nat

LEMMA MallocGains ==
    ASSUME NEW h, HeapOk(h), NEW s, s \in Nat, s > 0, Fitting(h, s) # {}, NEW a, a = Found(h, s),
           NEW h2, h2 = mm_malloc(h, s)
    PROVE  Gained(h2, h, a) /\ h2.node[a].size >= s
<1>1. FindsBest(h, s)
  BY FoundBest
<1>2. a \in Large(h.node, s)
  BY <1>1 DEF FindsBest
<1>3. 0 < s
  OBVIOUS
<1>4. Gives(h2, h, a, s)
  BY <1>2, <1>3, MallocEffect
<1>5. Outcome(h2, h, {}, {a}) /\ Calm(h2, h) /\ h2.node[a].size \in Nat /\ h2.node[a].size >= s
  BY <1>4 DEF Gives
<1>6. a \in FreeOf(h.node)
  BY <1>2 DEF Large
<1>7. Total(h2.node) = Total(h.node) + h2.node[a].size
  BY <1>5, <1>6, TotalGained
<1>8. a # heapbase /\ a # heapend /\ a \notin Blocks(h.node)
  BY <1>6, HeapOkParts, EndsAllocated DEF FreeOf, Blocks, Alloc
<1>9. /\ Blocks(h2.node) = Blocks(h.node) \cup {a}
      /\ \A x \in Blocks(h.node) : h2.node[x].size = h.node[x].size
  BY <1>5, <1>8, BlocksMove
<1>10. HeapOk(h2)
  BY <1>5 DEF Outcome
<1> QED BY <1>5, <1>7, <1>8, <1>9, <1>10 DEF Gained

LEMMA FreeLoses ==
    ASSUME NEW h, HeapOk(h), NEW a, a \in Blocks(h.node), NEW h2, h2 = mm_free(h, a)
    PROVE  Lost(h2, h, a)
<1>1. a \in Alloc(h.node) /\ a # heapbase /\ a # heapend
  BY DEF Blocks
<1>2. Frees(h2, h, a)
  BY <1>1, FreeEffect
<1>3. Outcome(h2, h, {a}, {}) /\ Calm(h2, h)
  BY <1>2 DEF Frees
<1>4. Total(h2.node) = Total(h.node) - h.node[a].size
  BY <1>3, TotalLost
<1>5. /\ Blocks(h2.node) = Blocks(h.node) \ {a}
      /\ \A x \in Blocks(h.node) \ {a} : h2.node[x].size = h.node[x].size
  BY <1>1, <1>3, BlocksMove
<1>6. HeapOk(h2)
  BY <1>3 DEF Outcome
<1> QED BY <1>3, <1>4, <1>5, <1>6 DEF Lost

LEMMA OutcomeMoves ==
    ASSUME NEW h, HeapOk(h), NEW a, a \in Blocks(h.node), NEW b, b # heapbase, b # heapend,
           b \notin Blocks(h.node) \ {a}, NEW h2, Outcome(h2, h, {a}, {b})
    PROVE  Moved(h2, h, a, b)
<1>1. a # heapbase /\ a # heapend
  BY DEF Blocks
<1>2. Total(h2.node) = (Total(h.node) - h.node[a].size) + h2.node[b].size
  BY TotalMoved
<1>3. /\ Blocks(h2.node) = (Blocks(h.node) \ {a}) \cup {b}
      /\ \A x \in Blocks(h.node) \ {a} : h2.node[x].size = h.node[x].size
      /\ Tiled(h2.node) /\ Tiled(h.node)
  BY <1>1, BlocksMove
<1>4. h.node[a].size \in Nat /\ h2.node[b].size \in Nat /\ Total(h.node) \in Nat
  BY <1>3, BlocksOf
<1>5. HeapOk(h2)
  BY DEF Outcome
<1> QED BY <1>2, <1>3, <1>4, <1>5 DEF Moved

LEMMA MovedNowhere ==
    ASSUME NEW h, HeapOk(h), NEW a, a \in Blocks(h.node)
    PROVE  Moved(h, h, a, a)
<1>1. Tiled(h.node)
  BY HeapOkParts
<1>2. h.node[a].size \in Nat /\ Total(h.node) \in Nat
  BY <1>1, BlocksOf
<1>3. Total(h.node) = (Total(h.node) - h.node[a].size) + h.node[a].size
  BY <1>2
<1> QED BY <1>2, <1>3 DEF Moved

LEMMA MovedTwice ==
    ASSUME NEW h, NEW h1, NEW h2, NEW a, NEW b, Moved(h1, h, a, b), Moved(h2, h1, b, b)
    PROVE  Moved(h2, h, a, b)
<1>1. PICK B : B = Blocks(h.node)
  OBVIOUS
<1>2. PICK B1 : B1 = Blocks(h1.node)
  OBVIOUS
<1>3. PICK B2 : B2 = Blocks(h2.node)
  OBVIOUS
<1>4. /\ B1 = (B \ {a}) \cup {b} /\ b \notin B \ {a} /\ B2 = (B1 \ {b}) \cup {b}
      /\ \A x \in B \ {a} : h1.node[x].size = h.node[x].size
      /\ \A x \in B1 \ {b} : h2.node[x].size = h1.node[x].size
  BY <1>1, <1>2, <1>3 DEF Moved
<1>5. B2 = (B \ {a}) \cup {b} /\ \A x \in B \ {a} : h2.node[x].size = h.node[x].size
  BY <1>4
<1>6. /\ Total(h1.node) = (Total(h.node) - h.node[a].size) + h1.node[b].size
      /\ Total(h2.node) = (Total(h1.node) - h1.node[b].size) + h2.node[b].size
      /\ h.node[a].size \in Nat /\ h2.node[b].size \in Nat /\ Total(h.node) \in Nat
      /\ h1.node[b].size \in Nat /\ Total(h1.node) \in Nat
  BY DEF Moved
<1>7. Total(h2.node) = (Total(h.node) - h.node[a].size) + h2.node[b].size
  BY <1>6
<1>8. HeapOk(h2) /\ b \in B2
  BY <1>3 DEF Moved
<1> QED BY <1>1, <1>3, <1>4, <1>5, <1>6, <1>7, <1>8 DEF Moved

LEMMA ResizedMoves ==
    ASSUME NEW h, HeapOk(h), NEW a, a \in Blocks(h.node), NEW r, NEW h2, Resized(h2, h, a, r)
    PROVE  Moved(h2, h, a, a) /\ Calm(h2, h) /\ h2.node[a].size = r
<1>1. Outcome(h2, h, {a}, {a}) /\ Calm(h2, h) /\ h2.node[a].size = r
  BY DEF Resized
<1>2. a # heapbase /\ a # heapend /\ a \notin Blocks(h.node) \ {a}
  BY DEF Blocks
<1> QED BY <1>1, <1>2, OutcomeMoves

-----------------------------------------------------------------------------
(***************************************************************************)
(* Calls on their way.                                                     *)
(***************************************************************************)
\* The call k of a pointer to b has the raw chunk that it needs.
CallOk(n, b, k) ==
    /\ k.want \in Nat
    /\ \/ /\ k.kind = "realloc" /\ b # Null
          /\ k.oldsize = n[b.mem].size /\ k.oldsize <= k.want
          /\ n[k.mem].size >= k.want + 2
       \/ /\ k.kind = "memalign" /\ b = Null
          /\ k.al \in Alignment
          /\ n[k.mem].size >= k.want + 2 * k.al + 1

CallsOk(S, n, f, c) == \A q \in S : c[q] # None => CallOk(n, f[q], c[q])

\* The pointers of S and their calls have what they need, and none has block a.
Rest(S, n, f, c, d, a) ==
    /\ Intact(S, n, f, d) /\ Away(S, n, f, a) /\ CallsOk(S, n, f, c)
    /\ \A q \in S : c[q] # None => c[q].mem \in Blocks(n) /\ c[q].mem # a

LEMMA RestKept ==
    ASSUME NEW S, NEW n, NEW n2, NEW f, NEW c, NEW d, NEW a, NEW b, Rest(S, n, f, c, d, a),
           \A x \in Blocks(n) \ {a} : x \in Blocks(n2) /\ x # b /\ n2[x].size = n[x].size
    PROVE  Rest(S, n2, f, c, d, b)
<1>1. ASSUME NEW q \in S, f[q] # Null
      PROVE  f[q].mem \in Blocks(n2) /\ f[q].mem # b /\ n2[f[q].mem].size = n[f[q].mem].size
  BY <1>1 DEF Rest, Away
<1>2. ASSUME NEW q \in S, c[q] # None
      PROVE  c[q].mem \in Blocks(n2) /\ c[q].mem # b /\ n2[c[q].mem].size = n[c[q].mem].size
  BY <1>2 DEF Rest
<1>3. Intact(S, n2, f, d) /\ Away(S, n2, f, b)
  BY <1>1 DEF Rest, Intact, Away, Mine
<1>4. CallsOk(S, n2, f, c)
  <2> SUFFICES ASSUME NEW q \in S, c[q] # None PROVE CallOk(n2, f[q], c[q])
    BY DEF CallsOk
  <2>1. CallOk(n, f[q], c[q])
    BY DEF Rest, CallsOk
  <2> QED BY <1>1, <1>2, <2>1 DEF CallOk
<1> QED BY <1>2, <1>3, <1>4 DEF Rest

LEMMA RestOther ==
    ASSUME NEW S, NEW n, NEW f, NEW c, NEW d, NEW a, Rest(S, n, f, c, d, a), NEW d2, Intact(S, n, f, d2)
    PROVE  Rest(S, n, f, c, d2, a)
BY DEF Rest

LEMMA RestUnder ==
    ASSUME NEW S, S \subseteq Ptr, NEW h, Tiled(h.node), NEW f, Pointers(f), NEW c, NEW d, NEW a,
           Rest(S, h.node, f, c, d, a), NEW d2, d2 = Under(h, d)
    PROVE  Rest(S, h.node, f, c, d2, a)
<1>1. Intact(S, h.node, f, d) /\ Away(S, h.node, f, a)
  BY DEF Rest
<1>2. Intact(S, h.node, f, d2)
  BY <1>1, UnderIntact
<1> QED BY <1>2, RestOther

LEMMA RestWithin ==
    ASSUME NEW S, S \subseteq Ptr, NEW n, Tiled(n), NEW f, Pointers(f), NEW c, NEW d, NEW a,
           a \in Blocks(n), Rest(S, n, f, c, d, a), NEW d2, Within(d2, d, n, a)
    PROVE  Rest(S, n, f, c, d2, a)
<1>1. Intact(S, n, f, d) /\ Away(S, n, f, a)
  BY DEF Rest
<1>2. Intact(S, n, f, d2)
  BY <1>1, WithinIntact
<1> QED BY <1>2, RestOther

LEMMA RestGained ==
    ASSUME NEW S, NEW h, NEW h2, NEW f, NEW c, NEW d, NEW z, NEW a, Rest(S, h.node, f, c, d, z), z \notin Blocks(h.node),
           Gained(h2, h, a)
    PROVE  Rest(S, h2.node, f, c, d, a)
<1>1. \A x \in Blocks(h.node) \ {z} : x \in Blocks(h2.node) /\ x # a /\ h2.node[x].size = h.node[x].size
  BY DEF Gained
<1> QED BY <1>1, RestKept

LEMMA RestLost ==
    ASSUME NEW S, NEW h, NEW h2, NEW f, NEW c, NEW d, NEW a, Rest(S, h.node, f, c, d, a), Lost(h2, h, a)
    PROVE  Rest(S, h2.node, f, c, d, a)
<1>1. \A x \in Blocks(h.node) \ {a} : x \in Blocks(h2.node) /\ x # a /\ h2.node[x].size = h.node[x].size
  BY DEF Lost
<1> QED BY <1>1, RestKept

LEMMA RestMoved ==
    ASSUME NEW S, NEW h, NEW h2, NEW f, NEW c, NEW d, NEW a, NEW b, Rest(S, h.node, f, c, d, a), Moved(h2, h, a, b)
    PROVE  Rest(S, h2.node, f, c, d, b)
<1>1. \A x \in Blocks(h.node) \ {a} : x \in Blocks(h2.node) /\ x # b /\ h2.node[x].size = h.node[x].size
  BY DEF Moved
<1> QED BY <1>1, RestKept

-----------------------------------------------------------------------------
(***************************************************************************)
(* The inductive invariant.                                                *)
(***************************************************************************)
\* The headers and lists are in order, free chunks are joined, the total is right.
Sound(h, tot, ra) == HeapOk(h) /\ (~ra => NoPairs(h.node)) /\ tot = Total(h.node)

Typed(f, c, dl) ==
    /\ Pointers(f) /\ Indexed(f)
    /\ Indexed(c)
    /\ dl \in Seq(Nat) /\ IsInjective(dl)

HeapInv(h, tot, f, c, dl, co, d, ra) ==
    /\ Sound(h, tot, ra) /\ Typed(f, c, dl)
    /\ Exact(Books(f, c, dl, co), Blocks(h.node))
    /\ Intact(Ptr, h.node, f, d) /\ CallsOk(Ptr, h.node, f, c)

LEMMA InvParts ==
    ASSUME NEW h, NEW tot, NEW f, NEW c, NEW dl, NEW co, NEW d, NEW ra, HeapInv(h, tot, f, c, dl, co, d, ra)
    PROVE  /\ HeapOk(h) /\ Tiled(h.node) /\ Sound(h, tot, ra) /\ Typed(f, c, dl)
           /\ Pointers(f)
           /\ Exact(Books(f, c, dl, co), Blocks(h.node))
           /\ Intact(Ptr, h.node, f, d) /\ CallsOk(Ptr, h.node, f, c)
BY HeapOkParts DEF HeapInv, Sound, Typed

\* The others, when the block is that of an entry of the books.
LEMMA RestOfEntry ==
    ASSUME NEW h, NEW tot, NEW f, NEW c, NEW dl, NEW co, NEW d, NEW ra, HeapInv(h, tot, f, c, dl, co, d, ra),
           NEW S, S \subseteq Ptr, NEW k, NEW o, NEW a, Hold(k, o, a) \in Books(f, c, dl, co),
           k \in {"ptr", "call"} => o \notin S
    PROVE  Rest(S, h.node, f, c, d, a) /\ a \in Blocks(h.node)
<1>1. PICK B : B = Blocks(h.node)
  OBVIOUS
<1>2. Exact(Books(f, c, dl, co), B)
  BY <1>1, InvParts
<1>3. ASSUME NEW q \in S
      PROVE  /\ f[q] # Null => f[q].mem \in B /\ f[q].mem # a
             /\ c[q] # None => c[q].mem \in B /\ c[q].mem # a
  <2>1. /\ f[q] # Null => f[q].mem \in B /\ (f[q].mem = a => k = "ptr" /\ o = q)
        /\ c[q] # None => c[q].mem \in B /\ (c[q].mem = a => k = "call" /\ o = q)
    BY <1>2, Apart
  <2> QED BY <2>1
<1>4. Intact(S, h.node, f, d) /\ CallsOk(S, h.node, f, c)
  BY InvParts DEF Intact, CallsOk
<1>5. a \in B
  <2>1. Hold(k, o, a)[3] = a
    BY HoldParts
  <2> QED BY <1>2, <2>1 DEF Exact
<1>6. Away(S, h.node, f, a) /\ \A q \in S : c[q] # None => c[q].mem \in Blocks(h.node) /\ c[q].mem # a
  BY <1>1, <1>3 DEF Away
<1> QED BY <1>1, <1>4, <1>5, <1>6 DEF Rest

LEMMA RestOfPtr ==
    ASSUME NEW h, NEW tot, NEW f, NEW c, NEW dl, NEW co, NEW d, NEW ra, HeapInv(h, tot, f, c, dl, co, d, ra),
           NEW p, p \in Ptr, NEW S, S = Ptr \ {p}, f[p] # Null, NEW a, a = f[p].mem
    PROVE  /\ Rest(S, h.node, f, c, d, a) /\ a \in Blocks(h.node)
           /\ Mine(h.node, f[p], d, p) /\ f[p].want \in Nat
<1>1. PICK H : H = Books(f, c, dl, co)
  OBVIOUS
<1>2. Hold("ptr", p, a) \in H
  BY <1>1, BooksEntries
<1>3. Mine(h.node, f[p], d, p) /\ f[p].want \in Nat
  BY InvParts, PtrTypes DEF Intact
<1>4. S \subseteq Ptr /\ p \notin S
  OBVIOUS
<1>5. Rest(S, h.node, f, c, d, a) /\ a \in Blocks(h.node)
  BY <1>1, <1>2, <1>4, RestOfEntry
<1> QED BY <1>3, <1>5

LEMMA RestOfCall ==
    ASSUME NEW h, NEW tot, NEW f, NEW c, NEW dl, NEW co, NEW d, NEW ra, HeapInv(h, tot, f, c, dl, co, d, ra),
           NEW p, p \in Ptr, NEW S, S = Ptr \ {p}, c[p] # None, NEW a, a = c[p].mem
    PROVE  /\ Rest(S, h.node, f, c, d, a) /\ a \in Blocks(h.node)
           /\ CallOk(h.node, f[p], c[p])
           /\ f[p] # Null => f[p].mem # a
<1>1. PICK H : H = Books(f, c, dl, co)
  OBVIOUS
<1>2. Hold("call", p, a) \in H
  BY <1>1, BooksEntries
<1>3. CallOk(h.node, f[p], c[p])
  BY InvParts DEF CallsOk
<1>4. S \subseteq Ptr /\ p \notin S
  OBVIOUS
<1>5. Rest(S, h.node, f, c, d, a) /\ a \in Blocks(h.node)
  BY <1>1, <1>2, <1>4, RestOfEntry
<1>6. f[p] # Null => f[p].mem # a
  BY <1>1, <1>2, InvParts, Apart, KindsDiffer
<1> QED BY <1>3, <1>5, <1>6

LEMMA RestOfCollect ==
    ASSUME NEW h, NEW tot, NEW f, NEW c, NEW dl, NEW co, NEW d, NEW ra, HeapInv(h, tot, f, c, dl, co, d, ra),
           co # Null
    PROVE  Rest(Ptr, h.node, f, c, d, co) /\ co \in Blocks(h.node)
<1>1. PICK H : H = Books(f, c, dl, co)
  OBVIOUS
<1>2. Hold("collecting", co, co) \in H
  BY <1>1, BooksEntries
<1> QED BY <1>1, <1>2, RestOfEntry

LEMMA RestOfNone ==
    ASSUME NEW h, NEW tot, NEW f, NEW c, NEW dl, NEW co, NEW d, NEW ra, HeapInv(h, tot, f, c, dl, co, d, ra),
           NEW S, S \subseteq Ptr, NEW a, a \notin Blocks(h.node)
    PROVE  Rest(S, h.node, f, c, d, a)
<1>1. PICK B : B = Blocks(h.node)
  OBVIOUS
<1>2. PICK H : H = Books(f, c, dl, co)
  OBVIOUS
<1>3. Exact(H, B)
  BY <1>1, <1>2, InvParts
<1>4. ASSUME NEW q \in S, f[q] # Null PROVE f[q].mem \in B /\ f[q].mem # a
  <2>1. Hold("ptr", q, f[q].mem) \in H
    BY <1>2, <1>4, BooksEntries
  <2> QED BY <1>1, <1>3, <2>1, HoldParts DEF Exact
<1>5. ASSUME NEW q \in S, c[q] # None PROVE c[q].mem \in B /\ c[q].mem # a
  <2>1. Hold("call", q, c[q].mem) \in H
    BY <1>2, <1>5, BooksEntries
  <2> QED BY <1>1, <1>3, <2>1, HoldParts DEF Exact
<1>6. Intact(S, h.node, f, d) /\ CallsOk(S, h.node, f, c)
  BY InvParts DEF Intact, CallsOk
<1>7. Away(S, h.node, f, a) /\ \A q \in S : c[q] # None => c[q].mem \in Blocks(h.node) /\ c[q].mem # a
  BY <1>1, <1>4, <1>5 DEF Away
<1> QED BY <1>6, <1>7 DEF Rest

LEMMA BlockParts ==
    ASSUME NEW a, a \in Nat, NEW w, w \in Nat
    PROVE  Block(a, w).mem = a /\ Block(a, w).want = w /\ Block(a, w) # Null /\ Block(a, w) \in Blk
<1>1. Block(a, w) \in Blk /\ Block(a, w).mem = a /\ Block(a, w).want = w
  BY DEF Block, Blk
<1>2. Null \notin Blk
  BY HeapConstants DEF Blk
<1> QED BY <1>1, <1>2

\* A pointer may get block b.
GotFits(h, tot, ra, f, c, dl, co, p, S, b, w, f2, d1, had) ==
    /\ Sound(h, tot, ra) /\ Typed(f, c, dl) /\ p \in Ptr /\ S = Ptr \ {p} /\ c[p] = None /\ b \in Blocks(h.node)
    /\ w \in Nat /\ h.node[b].size >= w + 1 /\ f2 = Updated(f, p, Block(b, w))
    /\ Exact(Books(f2, c, dl, co), Blocks(h.node)) /\ Rest(S, h.node, f, c, d1, b)
    /\ \A g \in Payload(b, w) : g \in Payload(b, had) => d1[g] = p

\* The invariant, when a pointer has got its block.
LEMMA GotKeeps ==
    ASSUME NEW h, NEW tot, NEW ra, NEW f, NEW c, NEW dl, NEW co, NEW p, NEW S, NEW b, NEW w, NEW f2, NEW d1, NEW had,
           GotFits(h, tot, ra, f, c, dl, co, p, S, b, w, f2, d1, had),
           NEW d2, d2 = Under(h, d1), NEW d3, d3 = GotTo(d2, b, h.node[b].size, had, w, p)
    PROVE  HeapInv(h, tot, f2, c, dl, co, d3, ra)
<1>0. /\ Sound(h, tot, ra) /\ Typed(f, c, dl) /\ p \in Ptr /\ S = Ptr \ {p} /\ c[p] = None /\ b \in Blocks(h.node)
      /\ w \in Nat /\ h.node[b].size >= w + 1 /\ f2 = Updated(f, p, Block(b, w))
      /\ Exact(Books(f2, c, dl, co), Blocks(h.node)) /\ Rest(S, h.node, f, c, d1, b)
      /\ \A g \in Payload(b, w) : g \in Payload(b, had) => d1[g] = p
  BY DEF GotFits
<1>1. PICK n : n = h.node
  OBVIOUS
<1>2. HeapOk(h) /\ Tiled(n) /\ b \in Nat /\ S \subseteq Ptr
  BY <1>0, <1>1, HeapOkParts, BlocksOf DEF Sound
<1>3. Pointers(f) /\ Indexed(f)
  BY <1>0 DEF Typed
<1>4. Rest(S, n, f, c, d2, b)
  BY <1>0, <1>1, <1>2, <1>3, RestUnder
<1>5. Intact(S, n, f, d2) /\ Away(S, n, f, b)
  BY <1>0, <1>4 DEF Rest
<1>6. \A g \in Payload(b, w) : g \in Payload(b, had) => d2[g] = p
  <2> SUFFICES ASSUME NEW g \in Payload(b, w), g \in Payload(b, had) PROVE d2[g] = p
    OBVIOUS
  <2>1. g \in Addr /\ g \notin DOMAIN n
    BY <1>0, <1>1, <1>2, PayloadIn
  <2> QED BY <1>0, <1>1, <2>1 DEF Under
<1>7. Intact(Ptr, n, f2, d3)
  BY <1>0, <1>1, <1>2, <1>3, <1>5, <1>6, GotIntact
<1>8. Pointers(f2) /\ Indexed(f2) /\ \A q \in S : f2[q] = f[q]
  <2>1. PICK k : k = Block(b, w)
    OBVIOUS
  <2>2. k \in Blk \cup {Null}
    BY <1>0, <1>2, <2>1, BlockParts
  <2>3. f2 = Updated(f, p, k) /\ p \in Ptr
    BY <1>0, <2>1
  <2>4. Pointers(f2)
    BY <1>3, <2>2, <2>3, UpdatedPointer
  <2>5. Indexed(f2) /\ \A q \in Ptr \ {p} : f2[q] = f[q]
    BY <1>3, <2>3, UpdatedAt
  <2> QED BY <1>0, <2>4, <2>5
<1>9. Typed(f2, c, dl)
  BY <1>0, <1>8 DEF Typed
<1>10. CallsOk(Ptr, n, f2, c)
  BY <1>0, <1>4, <1>8 DEF Rest, CallsOk
<1> QED BY <1>0, <1>1, <1>7, <1>9, <1>10 DEF HeapInv

-----------------------------------------------------------------------------
(***************************************************************************)
(* The steps.                                                              *)
(***************************************************************************)
LEMMA SoundGained ==
    ASSUME NEW h, NEW tot, NEW ra, Sound(h, tot, ra), NEW h2, NEW a, Gained(h2, h, a),
           NEW tot2, tot2 = tot + h2.node[a].size
    PROVE  Sound(h2, tot2, ra)
BY DEF Sound, Gained, Calm

LEMMA SoundLost ==
    ASSUME NEW h, NEW tot, NEW ra, Sound(h, tot, ra), NEW h2, NEW a, Lost(h2, h, a),
           NEW tot2, tot2 = tot - h.node[a].size
    PROVE  Sound(h2, tot2, ra)
BY DEF Sound, Lost, Calm

LEMMA SoundResized ==
    ASSUME NEW h, NEW tot, NEW ra, Sound(h, tot, ra), NEW h2, NEW a, NEW b, Moved(h2, h, a, b), Calm(h2, h),
           NEW tot2, tot2 = (tot - h.node[a].size) + h2.node[b].size
    PROVE  Sound(h2, tot2, ra)
BY DEF Sound, Moved, Calm

LEMMA MallocStep ==
    ASSUME NEW h, NEW tot, NEW f, NEW c, NEW dl, NEW co, NEW d, NEW ra, HeapInv(h, tot, f, c, dl, co, d, ra),
           NEW p, p \in Ptr, c[p] = None, f[p] = Null, NEW w, w \in Nat,
           NEW h2, NEW a, Gained(h2, h, a), h2.node[a].size >= w + 1,
           NEW tot2, tot2 = tot + h2.node[a].size, NEW f2, f2 = Updated(f, p, Block(a, w)),
           NEW d2, d2 = Under(h2, d), NEW d3, d3 = GotTo(d2, a, h2.node[a].size, 0, w, p)
    PROVE  HeapInv(h2, tot2, f2, c, dl, co, d3, ra)
<1>1. /\ Sound(h, tot, ra) /\ Typed(f, c, dl) /\ Exact(Books(f, c, dl, co), Blocks(h.node))
      /\ Indexed(f)
  BY InvParts DEF Typed
<1>2. Sound(h2, tot2, ra)
  BY <1>1, SoundGained
<1>3. PICK S : S = Ptr \ {p}
  OBVIOUS
<1>4. a \in Blocks(h2.node) /\ a \notin Blocks(h.node) /\ Blocks(h2.node) = Blocks(h.node) \cup {a}
  BY DEF Gained
<1>5. S \subseteq Ptr
  BY <1>3
<1>6. Rest(S, h.node, f, c, d, a)
  BY <1>4, <1>5, RestOfNone
<1>7. Rest(S, h2.node, f, c, d, a)
  BY <1>4, <1>6, RestGained
<1>8. a \in Nat
  BY <1>2, <1>4, HeapOkParts, BlocksOf DEF Sound
<1>9. PICK b : b = Block(a, w)
  OBVIOUS
<1>10. b.mem = a /\ b # Null /\ f2 = Updated(f, p, b)
  BY <1>8, <1>9, BlockParts
<1>11. PICK B : B = Blocks(h.node)
  OBVIOUS
<1>12. PICK B2 : B2 = B \cup {b.mem}
  OBVIOUS
<1>13. Exact(Books(f, c, dl, co), B) /\ b.mem \notin B
  BY <1>1, <1>4, <1>10, <1>11
<1>14. Exact(Books(f2, c, dl, co), B2)
  BY <1>1, <1>10, <1>12, <1>13, PtrGain
<1>15. Exact(Books(f2, c, dl, co), Blocks(h2.node))
  BY <1>4, <1>10, <1>11, <1>12, <1>14
<1>16. \A g \in Payload(a, w) : g \in Payload(a, 0) => d[g] = p
  BY <1>8, NoPayload
<1>17. GotFits(h2, tot2, ra, f, c, dl, co, p, S, a, w, f2, d, 0)
  BY <1>1, <1>2, <1>3, <1>4, <1>7, <1>15, <1>16 DEF GotFits
<1> QED BY <1>17, GotKeeps, Zenon

\* mm_malloc for a call that is not finished yet.
LEMMA CallStep ==
    ASSUME NEW h, NEW tot, NEW f, NEW c, NEW dl, NEW co, NEW d, NEW ra, HeapInv(h, tot, f, c, dl, co, d, ra),
           NEW p, p \in Ptr, c[p] = None, NEW h2, NEW a, Gained(h2, h, a),
           NEW k, k # None, k.mem = a, CallOk(h2.node, f[p], k), NEW c2, c2 = Updated(c, p, k),
           NEW tot2, tot2 = tot + h2.node[a].size, NEW d2, d2 = Under(h2, d)
    PROVE  HeapInv(h2, tot2, f, c2, dl, co, d2, ra)
<1>1. /\ Sound(h, tot, ra) /\ Typed(f, c, dl) /\ Exact(Books(f, c, dl, co), Blocks(h.node))
      /\ Pointers(f) /\ Indexed(c)
  BY InvParts DEF Typed
<1>2. Sound(h2, tot2, ra)
  BY <1>1, SoundGained
<1>3. a \in Blocks(h2.node) /\ a \notin Blocks(h.node) /\ Blocks(h2.node) = Blocks(h.node) \cup {a}
  BY DEF Gained
<1>4. Rest(Ptr, h.node, f, c, d, a)
  BY <1>3, RestOfNone
<1>5. Rest(Ptr, h2.node, f, c, d, a)
  BY <1>3, <1>4, RestGained
<1>6. Tiled(h2.node)
  BY <1>2, HeapOkParts DEF Sound
<1>7. Rest(Ptr, h2.node, f, c, d2, a)
  BY <1>1, <1>5, <1>6, RestUnder
<1>8. PICK B : B = Blocks(h.node)
  OBVIOUS
<1>9. PICK B2 : B2 = B \cup {k.mem}
  OBVIOUS
<1>10. Exact(Books(f, c, dl, co), B) /\ k.mem \notin B
  BY <1>1, <1>3, <1>8
<1>11. Exact(Books(f, c2, dl, co), B2)
  BY <1>1, <1>9, <1>10, CallGain
<1>12. Exact(Books(f, c2, dl, co), Blocks(h2.node))
  BY <1>3, <1>8, <1>9, <1>11
<1>13. Indexed(c2) /\ c2[p] = k /\ \A q \in Ptr \ {p} : c2[q] = c[q]
  BY <1>1, UpdatedAt
<1>14. Typed(f, c2, dl)
  BY <1>1, <1>13 DEF Typed
<1>15. Intact(Ptr, h2.node, f, d2) /\ CallsOk(Ptr, h2.node, f, c2)
  BY <1>7, <1>13 DEF Rest, CallsOk
<1> QED BY <1>2, <1>12, <1>14, <1>15 DEF HeapInv

\* mm_free of a block that nobody holds any more.
LEMMA FreeKeeps ==
    ASSUME NEW h, NEW tot, NEW ra, Sound(h, tot, ra), NEW f, NEW c, NEW dl, NEW co, Typed(f, c, dl),
           NEW a, a \in Blocks(h.node), Exact(Books(f, c, dl, co), Blocks(h.node) \ {a}),
           NEW d, Rest(Ptr, h.node, f, c, d, a), NEW h2, h2 = mm_free(h, a), NEW tot2, tot2 = tot - h.node[a].size,
           NEW d2, d2 = Filled(d, Payload(a, h.node[a].size - SIZEOF_MM_ALLOCNODE), Junk), NEW d3, d3 = Under(h2, d2)
    PROVE  HeapInv(h2, tot2, f, c, dl, co, d3, ra)
<1>1. HeapOk(h) /\ Tiled(h.node) /\ Pointers(f)
  BY HeapOkParts DEF Sound, Typed
<1>2. Lost(h2, h, a)
  BY <1>1, FreeLoses
<1>3. Sound(h2, tot2, ra)
  BY <1>2, SoundLost
<1>4. Within(d2, d, h.node, a)
  BY <1>1, FilledWithin
<1>5. Rest(Ptr, h.node, f, c, d2, a)
  BY <1>1, <1>4, RestWithin
<1>6. Rest(Ptr, h2.node, f, c, d2, a)
  BY <1>2, <1>5, RestLost
<1>7. Tiled(h2.node) /\ Blocks(h2.node) = Blocks(h.node) \ {a}
  BY <1>2, HeapOkParts DEF Lost
<1>8. Rest(Ptr, h2.node, f, c, d3, a)
  BY <1>1, <1>6, <1>7, RestUnder
<1> QED BY <1>3, <1>7, <1>8 DEF HeapInv, Rest

\* A pointer that is set to Null has nothing to care for.
LEMMA RestNull ==
    ASSUME NEW p, p \in Ptr, NEW S, S = Ptr \ {p}, NEW f, Pointers(f), NEW f2, f2 = Updated(f, p, Null),
           NEW c, c[p] = None, NEW n, NEW d, NEW a, Rest(S, n, f, c, d, a)
    PROVE  Rest(Ptr, n, f2, c, d, a)
<1>1. f2[p] = Null /\ \A q \in S : f2[q] = f[q]
  BY PointersIndexed, UpdatedAt
<1>2. Intact(Ptr, n, f2, d) /\ Away(Ptr, n, f2, a)
  BY <1>1 DEF Rest, Intact, Away
<1>3. CallsOk(Ptr, n, f2, c)
  BY <1>1 DEF Rest, CallsOk
<1> QED BY <1>2, <1>3 DEF Rest

LEMMA NullTyped ==
    ASSUME NEW f, NEW c, NEW dl, Typed(f, c, dl), NEW p, NEW f2, f2 = Updated(f, p, Null)
    PROVE  Typed(f2, c, dl)
<1>1. Pointers(f)
  BY DEF Typed
<1>2. Pointers(f2)
  BY <1>1 DEF Pointers, Updated
<1> QED BY <1>2, PointersIndexed DEF Typed

LEMMA FreeStep ==
    ASSUME NEW h, NEW tot, NEW f, NEW c, NEW dl, NEW co, NEW d, NEW ra, HeapInv(h, tot, f, c, dl, co, d, ra),
           NEW p, p \in Ptr, c[p] = None, f[p] # Null, NEW a, a = f[p].mem,
           NEW h2, h2 = mm_free(h, a), NEW tot2, tot2 = tot - h.node[a].size, NEW f2, f2 = Updated(f, p, Null),
           NEW d2, d2 = Filled(d, Payload(a, h.node[a].size - SIZEOF_MM_ALLOCNODE), Junk), NEW d3, d3 = Under(h2, d2)
    PROVE  HeapInv(h2, tot2, f2, c, dl, co, d3, ra)
<1>1. /\ Sound(h, tot, ra) /\ Typed(f, c, dl) /\ Exact(Books(f, c, dl, co), Blocks(h.node))
      /\ Pointers(f) /\ Indexed(f)
  BY InvParts DEF Typed
<1>2. PICK S : S = Ptr \ {p}
  OBVIOUS
<1>3. Rest(S, h.node, f, c, d, a) /\ a \in Blocks(h.node)
  BY <1>2, RestOfPtr
<1>4. Rest(Ptr, h.node, f2, c, d, a)
  BY <1>1, <1>2, <1>3, RestNull
<1>5. Typed(f2, c, dl)
  BY <1>1, NullTyped
<1>6. PICK B : B = Blocks(h.node)
  OBVIOUS
<1>7. PICK B2 : B2 = B \ {a}
  OBVIOUS
<1>8. Exact(Books(f2, c, dl, co), B2)
  BY <1>1, <1>6, <1>7, PtrLose
<1>9. Exact(Books(f2, c, dl, co), Blocks(h.node) \ {a})
  BY <1>6, <1>7, <1>8
<1> QED BY <1>1, <1>3, <1>4, <1>5, <1>9, FreeKeeps

LEMMA CollectFreeStep ==
    ASSUME NEW h, NEW tot, NEW f, NEW c, NEW dl, NEW a, NEW d, NEW ra, HeapInv(h, tot, f, c, dl, a, d, ra), a # Null,
           NEW h2, h2 = mm_free(h, a), NEW tot2, tot2 = tot - h.node[a].size,
           NEW d2, d2 = Filled(d, Payload(a, h.node[a].size - SIZEOF_MM_ALLOCNODE), Junk), NEW d3, d3 = Under(h2, d2)
    PROVE  HeapInv(h2, tot2, f, c, dl, Null, d3, ra)
<1>1. /\ Sound(h, tot, ra) /\ Typed(f, c, dl) /\ Exact(Books(f, c, dl, a), Blocks(h.node))
  BY InvParts
<1>2. Rest(Ptr, h.node, f, c, d, a) /\ a \in Blocks(h.node)
  BY RestOfCollect
<1>3. PICK B : B = Blocks(h.node)
  OBVIOUS
<1>4. PICK B2 : B2 = B \ {a}
  OBVIOUS
<1>5. Exact(Books(f, c, dl, Null), B2)
  BY <1>1, <1>3, <1>4, CollectLose
<1>6. PICK co : co = Null
  OBVIOUS
<1>7. Exact(Books(f, c, dl, co), Blocks(h.node) \ {a})
  BY <1>3, <1>4, <1>5, <1>6
<1>8. HeapInv(h2, tot2, f, c, dl, co, d3, ra)
  BY <1>1, <1>2, <1>7, FreeKeeps
<1> QED BY <1>6, <1>8

\* The list of delayed frees.
LEMMA AppendDelayed ==
    ASSUME NEW dl, dl \in Seq(Nat), IsInjective(dl), NEW a, a \in Nat, a \notin ToSet(dl), NEW dl2, dl2 = Append(dl, a)
    PROVE  dl2 \in Seq(Nat) /\ IsInjective(dl2)
<1>1. PICK i : i = Len(dl) + 1
  OBVIOUS
<1>2. i \in 1 .. Len(dl) + 1
  BY <1>1
<1>3. dl2 = InsertAt(dl, i, a)
  BY <1>1, AppendIsInsert
<1>4. IsInjective(dl2)
  BY <1>2, <1>3, InsertAtElements
<1> QED BY <1>4

LEMMA AppendElements ==
    ASSUME NEW dl, dl \in Seq(Nat), NEW a, a \in Nat, NEW dl2, dl2 = Append(dl, a)
    PROVE  ToSet(dl2) = ToSet(dl) \cup {a}
<1>1. PICK i : i = Len(dl) + 1
  OBVIOUS
<1>2. i \in 1 .. Len(dl) + 1
  BY <1>1
<1>3. dl2 = InsertAt(dl, i, a)
  BY <1>1, AppendIsInsert
<1> QED BY <1>2, <1>3, InsertAtElements

LEMMA AppendQueues ==
    ASSUME NEW dl, dl \in Seq(Nat), IsInjective(dl), NEW a, a \in Nat, NEW dl2, dl2 = Append(dl, a)
    PROVE  Queued(dl2, dl, a)
<1>1. ToSet(dl2) = ToSet(dl) \cup {a}
  BY AppendElements
<1>2. a \notin ToSet(dl) => IsInjective(dl2)
  BY AppendDelayed
<1>3. dl2 \in Seq(Nat)
  OBVIOUS
<1> QED BY <1>1, <1>2, <1>3 DEF Queued

LEMMA TailDelayed ==
    ASSUME NEW dl, dl \in Seq(Nat), IsInjective(dl), dl # <<>>, NEW a, a = Head(dl), NEW dl2, dl2 = Tail(dl)
    PROVE  /\ dl2 \in Seq(Nat) /\ IsInjective(dl2) /\ a \in Nat
           /\ ToSet(dl) = ToSet(dl2) \cup {a} /\ a \notin ToSet(dl2)
<1>1. 1 \in 1 .. Len(dl) /\ a = dl[1] /\ a \in Nat /\ dl2 \in Seq(Nat)
  OBVIOUS
<1>2. a \in ToSet(dl) /\ dl2 = RemoveAt(dl, 1)
  BY TailElements
<1>3. ToSet(dl2) = ToSet(dl) \ {dl[1]} /\ IsInjective(dl2)
  BY <1>1, <1>2, RemoveAtElements
<1> QED BY <1>1, <1>2, <1>3

\* The block at a passes from pointer p to the delayed list.
Delaying(f, f2, p, dl, dl2, a) ==
    /\ Indexed(f) /\ p \in Ptr /\ f[p] # Null /\ a = f[p].mem
    /\ f2 = Updated(f, p, Null) /\ Queued(dl2, dl, a)

LEMMA PtrToDelayed ==
    ASSUME NEW f, NEW f2, NEW p, NEW dl, NEW dl2, NEW a, Delaying(f, f2, p, dl, dl2, a),
           NEW c, NEW co, NEW B, Exact(Books(f, c, dl, co), B)
    PROVE  Exact(Books(f2, c, dl2, co), B) /\ a \notin ToSet(dl)
<1>0. /\ Indexed(f) /\ p \in Ptr /\ f[p] # Null /\ a = f[p].mem
      /\ f2 = Updated(f, p, Null) /\ Queued(dl2, dl, a)
  BY DEF Delaying
<1>1. PICK B2 : B2 = B \ {a}
  OBVIOUS
<1>2. Exact(Books(f2, c, dl, co), B2) /\ a \in B
  BY <1>0, <1>1, PtrLose
<1>3. a \notin B2 /\ B = B2 \cup {a}
  BY <1>1, <1>2
<1>4. Exact(Books(f2, c, dl2, co), B)
  BY <1>0, <1>2, <1>3, DelayedGain
<1>5. a \notin ToSet(dl)
  BY <1>0, <1>2, <1>3, DelayedGain
<1> QED BY <1>4, <1>5

LEMMA PtrMoves ==
    ASSUME NEW f, Indexed(f), NEW p, p \in Ptr, f[p] # Null, NEW a, a = f[p].mem,
           NEW k, k # Null, NEW f2, f2 = Updated(f, p, k), NEW c, NEW dl, NEW co, NEW B, Exact(Books(f, c, dl, co), B),
           k.mem \notin B \ {a}, NEW B2, B2 = (B \ {a}) \cup {k.mem}
    PROVE  Exact(Books(f2, c, dl, co), B2)
<1>1. PICK B1 : B1 = B \ {a}
  OBVIOUS
<1>2. PICK f1 : f1 = Updated(f, p, Null)
  OBVIOUS
<1>3. Exact(Books(f1, c, dl, co), B1)
  BY <1>1, <1>2, PtrLose
<1>4. Indexed(f1) /\ f1[p] = Null /\ f2 = Updated(f1, p, k)
  BY <1>2, UpdatedAt, UpdatedTwice
<1> QED BY <1>1, <1>3, <1>4, PtrGain

LEMMA UfreeStep ==
    ASSUME NEW h, NEW tot, NEW f, NEW c, NEW dl, NEW co, NEW d, NEW ra, HeapInv(h, tot, f, c, dl, co, d, ra),
           NEW p, p \in Ptr, c[p] = None, f[p] # Null, NEW a, a = f[p].mem,
           NEW f2, f2 = Updated(f, p, Null), NEW dl2, dl2 = Append(dl, a),
           NEW d2, d2 = Filled(d, Payload(a, h.node[a].size - SIZEOF_MM_ALLOCNODE), Junk)
    PROVE  HeapInv(h, tot, f2, c, dl2, co, d2, ra)
<1>1. /\ Sound(h, tot, ra) /\ Typed(f, c, dl) /\ Exact(Books(f, c, dl, co), Blocks(h.node))
      /\ Pointers(f) /\ Indexed(f) /\ Tiled(h.node)
      /\ dl \in Seq(Nat) /\ IsInjective(dl)
  BY InvParts DEF Typed
<1>2. PICK S : S = Ptr \ {p}
  OBVIOUS
<1>3. Rest(S, h.node, f, c, d, a) /\ a \in Blocks(h.node)
  BY <1>2, RestOfPtr
<1>4. Rest(Ptr, h.node, f2, c, d, a)
  BY <1>1, <1>2, <1>3, RestNull
<1>5. Typed(f2, c, dl)
  BY <1>1, NullTyped
<1>6. Pointers(f2)
  BY <1>5 DEF Typed
<1>7. Within(d2, d, h.node, a)
  BY <1>1, <1>3, FilledWithin
<1>8. Rest(Ptr, h.node, f2, c, d2, a)
  BY <1>1, <1>3, <1>4, <1>6, <1>7, RestWithin
<1>9. PICK B : B = Blocks(h.node)
  OBVIOUS
<1>12. a \in Nat
  BY <1>1, <1>3, BlocksOf
<1>13. Queued(dl2, dl, a)
  BY <1>1, <1>12, AppendQueues
<1>14. Indexed(f) /\ Exact(Books(f, c, dl, co), B)
  BY <1>1, <1>9
<1>15. Exact(Books(f2, c, dl2, co), B) /\ a \notin ToSet(dl)
  <2>1. Delaying(f, f2, p, dl, dl2, a)
    BY <1>13, <1>14 DEF Delaying
  <2>2. Exact(Books(f, c, dl, co), B)
    BY <1>14
  <2> QED BY <2>1, <2>2, PtrToDelayed
<1>16. dl2 \in Seq(Nat) /\ IsInjective(dl2)
  BY <1>13, <1>15 DEF Queued
<1>17. Typed(f2, c, dl2)
  BY <1>5, <1>16 DEF Typed
<1> QED BY <1>1, <1>8, <1>9, <1>15, <1>17 DEF HeapInv, Rest

LEMMA CollectNextStep ==
    ASSUME NEW h, NEW tot, NEW f, NEW c, NEW dl, NEW d, NEW ra, HeapInv(h, tot, f, c, dl, Null, d, ra), dl # <<>>,
           NEW a, a = Head(dl), NEW dl2, dl2 = Tail(dl)
    PROVE  HeapInv(h, tot, f, c, dl2, a, d, ra)
<1>1. PICK co : co = Null
  OBVIOUS
<1>2. HeapInv(h, tot, f, c, dl, co, d, ra)
  BY <1>1
<1>3. /\ Sound(h, tot, ra) /\ Typed(f, c, dl) /\ Exact(Books(f, c, dl, co), Blocks(h.node))
      /\ Intact(Ptr, h.node, f, d) /\ CallsOk(Ptr, h.node, f, c)
      /\ dl \in Seq(Nat) /\ IsInjective(dl)
  BY <1>2, InvParts DEF Typed
<1>4. /\ dl2 \in Seq(Nat) /\ IsInjective(dl2) /\ a \in Nat
      /\ ToSet(dl) = ToSet(dl2) \cup {a} /\ a \notin ToSet(dl2)
  BY <1>3, TailDelayed
<1>5. PICK B : B = Blocks(h.node)
  OBVIOUS
<1>6. PICK B2 : B2 = B \ {a}
  OBVIOUS
<1>7. Exact(Books(f, c, dl2, co), B2) /\ a \in B
  <2>1. Exact(Books(f, c, dl, co), B) /\ ToSet(dl) = ToSet(dl2) \cup {a} /\ a \notin ToSet(dl2)
    BY <1>3, <1>4, <1>5
  <2> QED BY <1>6, <2>1, DelayedLose, ZenonT(30)
<1>8. Exact(Books(f, c, dl2, Null), B2) /\ a \notin B2 /\ B = B2 \cup {a}
  BY <1>1, <1>6, <1>7
<1>9. a # Null
  BY <1>4, HeapConstants
<1>10. Exact(Books(f, c, dl2, a), B)
  BY <1>8, <1>9, CollectGain
<1>11. Typed(f, c, dl2)
  BY <1>3, <1>4 DEF Typed
<1> QED BY <1>3, <1>5, <1>10, <1>11 DEF HeapInv

\* A block may move or change its size, for a pointer that has it.
ResizeFits(h, tot, f, c, dl, co, d, ra, p, S, a, h2, b, w, d1, had) ==
    /\ HeapInv(h, tot, f, c, dl, co, d, ra)
    /\ p \in Ptr /\ S = Ptr \ {p} /\ c[p] = None /\ f[p] # Null /\ a = f[p].mem
    /\ Moved(h2, h, a, b) /\ Calm(h2, h) /\ w \in Nat /\ h2.node[b].size >= w + 1
    /\ Rest(S, h2.node, f, c, d1, b)
    /\ \A g \in Payload(b, w) : g \in Payload(b, had) => d1[g] = p

LEMMA ResizeStep ==
    ASSUME NEW h, NEW tot, NEW f, NEW c, NEW dl, NEW co, NEW d, NEW ra, NEW p, NEW S, NEW a, NEW h2, NEW b, NEW w,
           NEW d1, NEW had, ResizeFits(h, tot, f, c, dl, co, d, ra, p, S, a, h2, b, w, d1, had),
           NEW tot2, tot2 = (tot - h.node[a].size) + h2.node[b].size, NEW f2, f2 = Updated(f, p, Block(b, w)),
           NEW d2, d2 = Under(h2, d1), NEW d3, d3 = GotTo(d2, b, h2.node[b].size, had, w, p)
    PROVE  HeapInv(h2, tot2, f2, c, dl, co, d3, ra)
<1>0. /\ HeapInv(h, tot, f, c, dl, co, d, ra)
      /\ p \in Ptr /\ S = Ptr \ {p} /\ c[p] = None /\ f[p] # Null /\ a = f[p].mem
      /\ Moved(h2, h, a, b) /\ Calm(h2, h) /\ w \in Nat /\ h2.node[b].size >= w + 1
      /\ Rest(S, h2.node, f, c, d1, b)
      /\ \A g \in Payload(b, w) : g \in Payload(b, had) => d1[g] = p
  BY DEF ResizeFits
<1>1. /\ Sound(h, tot, ra) /\ Typed(f, c, dl) /\ Exact(Books(f, c, dl, co), Blocks(h.node))
      /\ Indexed(f)
  BY <1>0, InvParts DEF Typed
<1>2. Sound(h2, tot2, ra)
  BY <1>0, <1>1, SoundResized, Zenon
<1>3. b \in Blocks(h2.node) /\ Blocks(h2.node) = (Blocks(h.node) \ {a}) \cup {b} /\ b \notin Blocks(h.node) \ {a}
  BY <1>0 DEF Moved
<1>4. b \in Nat
  BY <1>0, <1>2, <1>3, HeapOkParts, BlocksOf DEF Sound
<1>5. PICK B : B = Blocks(h.node)
  OBVIOUS
<1>6. PICK k : k = Block(b, w)
  OBVIOUS
<1>7. k.mem = b /\ k # Null /\ f2 = Updated(f, p, k)
  BY <1>0, <1>4, <1>6, BlockParts
<1>8. PICK B2 : B2 = (B \ {a}) \cup {k.mem}
  OBVIOUS
<1>9. k.mem \notin B \ {a}
  BY <1>0, <1>3, <1>5, <1>7
<1>10. Exact(Books(f2, c, dl, co), B2)
  BY <1>0, <1>1, <1>5, <1>7, <1>8, <1>9, PtrMoves
<1>11. Exact(Books(f2, c, dl, co), Blocks(h2.node))
  BY <1>0, <1>3, <1>5, <1>7, <1>8, <1>10
<1>12. GotFits(h2, tot2, ra, f, c, dl, co, p, S, b, w, f2, d1, had)
  BY <1>0, <1>1, <1>2, <1>3, <1>11 DEF GotFits
<1> QED BY <1>12, GotKeeps, Zenon

\* The calls that a pointer has on its way do not matter to the others.
LEMMA RestCalls ==
    ASSUME NEW S, NEW n, NEW f, NEW c, NEW c2, \A q \in S : c2[q] = c[q], NEW d, NEW a, Rest(S, n, f, c, d, a)
    PROVE  Rest(S, n, f, c2, d, a)
BY DEF Rest, CallsOk

LEMMA RestSwap ==
    ASSUME NEW S, NEW n, NEW n2, NEW f, NEW c, NEW d, NEW d2, NEW a, NEW b,
           Rest(S, n2, f, c, d2, a), Rest(S, n, f, c, d, b)
    PROVE  Rest(S, n2, f, c, d2, b)
BY DEF Rest, Away

LEMMA DoneTyped ==
    ASSUME NEW f, NEW c, NEW dl, Typed(f, c, dl), NEW p, NEW c2, c2 = Updated(c, p, None)
    PROVE  Typed(f, c2, dl)
<1>1. Indexed(c)
  BY DEF Typed
<1>2. Indexed(c2)
  BY <1>1 DEF Indexed, Updated
<1> QED BY <1>2 DEF Typed

\* The chunk of a call becomes the block of the pointer.
LEMMA CallToPtr ==
    ASSUME NEW f, Indexed(f), NEW c, Indexed(c), NEW p, p \in Ptr, f[p] = Null,
           c[p] # None, NEW a, a = c[p].mem, NEW k, k # Null, NEW f2, f2 = Updated(f, p, k),
           NEW c2, c2 = Updated(c, p, None), NEW dl, NEW co, NEW B, Exact(Books(f, c, dl, co), B),
           k.mem \notin B \ {a}, NEW B2, B2 = (B \ {a}) \cup {k.mem}
    PROVE  Exact(Books(f2, c2, dl, co), B2)
<1>1. PICK B1 : B1 = B \ {a}
  OBVIOUS
<1>0. Ending(c, c2, p, a)
  BY DEF Ending
<1>2. Exact(Books(f, c2, dl, co), B1)
  BY <1>0, <1>1, CallLose
<1>3. k.mem \notin B1 /\ B2 = B1 \cup {k.mem}
  BY <1>1
<1> QED BY <1>2, <1>3, PtrGain

\* The chunk of mm_realloc becomes the block, the old block is gone.
LEMMA CallReplacesPtr ==
    ASSUME NEW f, Indexed(f), NEW c, Indexed(c), NEW p, p \in Ptr, f[p] # Null,
           NEW o, o = f[p].mem, c[p] # None, NEW a, a = c[p].mem, a # o, NEW k, k # Null, k.mem = a,
           NEW f2, f2 = Updated(f, p, k),
           NEW c2, c2 = Updated(c, p, None), NEW dl, NEW co, NEW B, Exact(Books(f, c, dl, co), B),
           NEW B2, B2 = B \ {o}
    PROVE  Exact(Books(f2, c2, dl, co), B2)
<1>1. PICK f1 : f1 = Updated(f, p, Null)
  OBVIOUS
<1>2. Exact(Books(f1, c, dl, co), B2)
  BY <1>1, PtrLose
<1>3. Indexed(f1) /\ f1[p] = Null /\ f2 = Updated(f1, p, k)
  BY <1>1, UpdatedAt, UpdatedTwice
<1>4. a \in B
  <2>1. PICK B3 : B3 = B \ {a}
    OBVIOUS
  <2>2. Ending(c, c2, p, a)
    BY DEF Ending
  <2>3. Exact(Books(f, c2, dl, co), B3) /\ a \in B
    BY <2>1, <2>2, CallLose
  <2> QED BY <2>3
<1>5. k.mem \notin B2 \ {a} /\ B2 = (B2 \ {a}) \cup {k.mem}
  BY <1>4
<1> QED BY <1>2, <1>3, <1>5, CallToPtr

\* What is copied is what was written.
\* The first had granules of a block at o are p's, and z are copied to b.
Copying(n, o, b, d, p, had, z) ==
    /\ Tiled(n) /\ o \in Blocks(n) /\ b \in Nat /\ had \in Nat /\ n[o].size >= had + 1
    /\ \A g \in Payload(o, had) : d[g] = p
    /\ z \in Nat /\ had <= z

LEMMA CopiedOwn ==
    ASSUME NEW n, NEW o, NEW b, NEW d, NEW p, NEW had, NEW z, Copying(n, o, b, d, p, had, z),
           NEW d2, d2 = Copied(d, b, o, z), NEW g, g \in Payload(b, had), g \in Addr
    PROVE  d2[g] = p
<1>0. /\ Tiled(n) /\ o \in Blocks(n) /\ b \in Nat /\ had \in Nat /\ n[o].size >= had + 1 /\ z \in Nat /\ had <= z
      /\ \A y \in Payload(o, had) : d[y] = p
  BY DEF Copying
<1>1. PICK x : x = o + (g - b)
  OBVIOUS
<1>2. o \in Nat /\ g \in Nat
  BY <1>0, BlocksOf, Limits
<1>3. g \in Payload(b, z) /\ x \in Payload(o, had)
  BY <1>0, <1>1, <1>2 DEF Payload, SIZEOF_MM_ALLOCNODE
<1>4. x \in Addr
  BY <1>0, <1>3, PayloadIn
<1>5. d2[g] = d[x]
  BY <1>1, <1>3, <1>4 DEF Copied
<1> QED BY <1>0, <1>3, <1>5

\* The pointer's block o is replaced by block a.
Replacing(h, f, c, d, p, S, o, a, z, had, w) ==
    /\ HeapOk(h) /\ Tiled(h.node) /\ Pointers(f) /\ S \subseteq Ptr
    /\ Rest(S, h.node, f, c, d, a) /\ Rest(S, h.node, f, c, d, o)
    /\ a \in Blocks(h.node) /\ o \in Blocks(h.node) /\ o # a
    /\ a \in Nat /\ o \in Nat /\ h.node[a].size \in Nat /\ z \in Nat /\ w \in Nat /\ had \in Nat
    /\ z = h.node[o].size /\ z <= w /\ h.node[a].size >= w + 2 /\ z >= had + 1
    /\ \A g \in Payload(o, had) : d[g] = p

LEMMA ReplacingNow ==
    ASSUME NEW h, NEW tot, NEW f, NEW c, NEW dl, NEW co, NEW d, NEW ra, HeapInv(h, tot, f, c, dl, co, d, ra),
           NEW p, p \in Ptr, NEW S, S = Ptr \ {p}, c[p] # None, c[p].kind = "realloc", NEW o, o = f[p].mem, NEW a, a = c[p].mem,
           NEW z, z = c[p].oldsize, NEW had, had = f[p].want, NEW w, w = c[p].want
    PROVE  Replacing(h, f, c, d, p, S, o, a, z, had, w) /\ f[p] # Null
<1>1. HeapOk(h) /\ Tiled(h.node) /\ Pointers(f) /\ S \subseteq Ptr
  BY InvParts
<1>2. Rest(S, h.node, f, c, d, a) /\ a \in Blocks(h.node) /\ CallOk(h.node, f[p], c[p]) /\ (f[p] # Null => f[p].mem # a)
  BY RestOfCall
<1>3. f[p] # Null /\ z = h.node[o].size /\ z <= w /\ w \in Nat /\ h.node[a].size >= w + 2
  BY <1>2 DEF CallOk
<1>4. Rest(S, h.node, f, c, d, o) /\ o \in Blocks(h.node) /\ Mine(h.node, f[p], d, p) /\ had \in Nat
  BY <1>3, RestOfPtr
<1>5. o # a /\ a \in Nat /\ o \in Nat /\ h.node[a].size \in Nat /\ z \in Nat
  BY <1>1, <1>2, <1>3, <1>4, BlocksOf
<1>6. z >= had + 1 /\ \A g \in Payload(o, had) : d[g] = p
  BY <1>3, <1>4 DEF Mine
<1> QED BY <1>1, <1>2, <1>3, <1>4, <1>5, <1>6 DEF Replacing

LEMMA ReplacingCopies ==
    ASSUME NEW h, NEW f, NEW c, NEW d, NEW p, NEW S, NEW o, NEW a, NEW z, NEW had, NEW w,
           Replacing(h, f, c, d, p, S, o, a, z, had, w), NEW d1, d1 = Copied(d, a, o, z),
           NEW d2, d2 = Filled(d1, Payload(o, h.node[o].size - SIZEOF_MM_ALLOCNODE), Junk)
    PROVE  /\ Rest(S, h.node, f, c, d2, o)
           /\ \A g \in Payload(a, w) : g \in Payload(a, had) => d2[g] = p
<1>1. /\ HeapOk(h) /\ Tiled(h.node) /\ Pointers(f) /\ S \subseteq Ptr
      /\ Rest(S, h.node, f, c, d, a) /\ Rest(S, h.node, f, c, d, o)
      /\ a \in Blocks(h.node) /\ o \in Blocks(h.node) /\ o # a
  BY DEF Replacing
<1>2. /\ a \in Nat /\ o \in Nat /\ h.node[a].size \in Nat /\ z \in Nat /\ w \in Nat /\ had \in Nat
      /\ z = h.node[o].size /\ z <= w /\ h.node[a].size >= w + 2 /\ z >= had + 1
  BY DEF Replacing
<1>3. \A g \in Payload(o, had) : d[g] = p
  BY DEF Replacing
<1>4. z + 1 <= h.node[a].size /\ h.node[a].size >= w + 1 /\ h.node[o].size >= had + 1 /\ had <= z
  BY <1>2
<1>5. Rest(S, h.node, f, c, d1, o)
  <2>1. Within(d1, d, h.node, a)
    BY <1>1, <1>2, <1>4, CopiedWithin
  <2>2. Rest(S, h.node, f, c, d1, a)
    BY <1>1, <2>1, RestWithin
  <2> QED BY <1>1, <2>2, RestSwap
<1>6. Rest(S, h.node, f, c, d2, o)
  <2>1. Within(d2, d1, h.node, o)
    BY <1>1, FilledWithin
  <2> QED BY <1>1, <1>5, <2>1, RestWithin
<1>7. ASSUME NEW g \in Payload(a, w), g \in Payload(a, had) PROVE d2[g] = p
  <2>1. g \in Addr /\ g \in Nat /\ a < g /\ g < Nx(h.node, a)
    BY <1>1, <1>2, <1>4, PayloadIn
  <2>2. d1[g] = p
    <3>1. PICK n : n = h.node
      OBVIOUS
    <3>2. Tiled(n)
      BY <1>1, <3>1
    <3>3. o \in Blocks(n)
      BY <1>1, <3>1
    <3>4. n[o].size >= had + 1
      BY <1>4, <3>1
    <3>5. a \in Nat /\ had \in Nat /\ z \in Nat /\ had <= z
      BY <1>2, <1>4
    <3>6. g \in Addr
      BY <2>1
    <3>7. Copying(n, o, a, d, p, had, z)
      BY <1>3, <3>2, <3>3, <3>4, <3>5 DEF Copying
    <3> QED BY <1>7, <3>6, <3>7, CopiedOwn
  <2>3. PICK y : y = h.node[o].size - SIZEOF_MM_ALLOCNODE
    OBVIOUS
  <2>4. y \in Nat /\ y + 1 <= h.node[o].size
    BY <1>2, <2>3 DEF SIZEOF_MM_ALLOCNODE
  <2>5. g \notin Payload(o, y)
    BY <1>1, <2>1, <2>4, PayloadApart
  <2> QED BY <2>1, <2>2, <2>3, <2>5 DEF Filled
<1> QED BY <1>6, <1>7

LEMMA ReplacingFrees ==
    ASSUME NEW h, NEW f, NEW c, NEW d, NEW p, NEW S, NEW o, NEW a, NEW z, NEW had, NEW w,
           Replacing(h, f, c, d, p, S, o, a, z, had, w), NEW d2, Rest(S, h.node, f, c, d2, o),
           NEW h2, h2 = mm_free(h, o)
    PROVE  /\ Lost(h2, h, o) /\ Rest(S, h2.node, f, c, d2, a)
           /\ a \in Blocks(h2.node) /\ h2.node[a].size >= w + 1 /\ Blocks(h2.node) = Blocks(h.node) \ {o}
<1>1. /\ HeapOk(h) /\ Rest(S, h.node, f, c, d, a)
      /\ a \in Blocks(h.node) /\ o \in Blocks(h.node) /\ o # a
  BY DEF Replacing
<1>2. h.node[a].size \in Nat /\ w \in Nat /\ h.node[a].size >= w + 2
  BY DEF Replacing
<1>3. Lost(h2, h, o)
  BY <1>1, FreeLoses
<1>4. Blocks(h2.node) = Blocks(h.node) \ {o} /\ \A x \in Blocks(h.node) \ {o} : h2.node[x].size = h.node[x].size
  BY <1>3 DEF Lost
<1>5. a \in Blocks(h2.node) /\ h2.node[a].size = h.node[a].size
  BY <1>1, <1>4
<1>6. h2.node[a].size >= w + 1
  BY <1>2, <1>5
<1>7. Rest(S, h2.node, f, c, d2, o)
  BY <1>3, RestLost
<1>8. Rest(S, h2.node, f, c, d2, a)
  BY <1>1, <1>7, RestSwap
<1> QED BY <1>3, <1>4, <1>5, <1>6, <1>8

\* The second half of mm_realloc for pointer p: its block o is to become block a.
Moving(h, tot, f, c, dl, co, d, ra, p, o, a, z, had, w) ==
    /\ HeapInv(h, tot, f, c, dl, co, d, ra) /\ p \in Ptr /\ c[p].kind = "realloc"
    /\ o = f[p].mem /\ a = c[p].mem /\ z = c[p].oldsize /\ had = f[p].want /\ w = c[p].want

\* What it makes of the heap, the books and the contents.
Refreed(h, tot, f, c, d, p, o, a, z, had, w, h2, tot2, f2, c2, d1, d2, d3, d4) ==
    /\ h2 = mm_free(h, o) /\ tot2 = tot - h.node[o].size
    /\ f2 = Updated(f, p, Block(a, w)) /\ c2 = Updated(c, p, None)
    /\ d1 = Copied(d, a, o, z) /\ d2 = Filled(d1, Payload(o, h.node[o].size - SIZEOF_MM_ALLOCNODE), Junk)
    /\ d3 = Under(h2, d2) /\ d4 = GotTo(d3, a, h2.node[a].size, had, w, p)

LEMMA MovingReplaces ==
    ASSUME NEW h, NEW tot, NEW f, NEW c, NEW dl, NEW co, NEW d, NEW ra, NEW p, NEW o, NEW a, NEW z, NEW had, NEW w,
           Moving(h, tot, f, c, dl, co, d, ra, p, o, a, z, had, w), NEW S, S = Ptr \ {p}
    PROVE  Replacing(h, f, c, d, p, S, o, a, z, had, w) /\ f[p] # Null /\ c[p] # None
<1>1. /\ HeapInv(h, tot, f, c, dl, co, d, ra) /\ p \in Ptr /\ c[p].kind = "realloc"
      /\ o = f[p].mem /\ a = c[p].mem /\ z = c[p].oldsize /\ had = f[p].want /\ w = c[p].want
  BY DEF Moving
<1>2. c[p] # None
  BY <1>1 DEF None
<1> QED BY <1>1, <1>2, ReplacingNow

LEMMA MovingTypes ==
    ASSUME NEW h, NEW tot, NEW f, NEW c, NEW dl, NEW co, NEW d, NEW ra, NEW p, NEW o, NEW a, NEW z, NEW had, NEW w,
           Moving(h, tot, f, c, dl, co, d, ra, p, o, a, z, had, w)
    PROVE  /\ Sound(h, tot, ra) /\ Typed(f, c, dl) /\ Exact(Books(f, c, dl, co), Blocks(h.node))
           /\ Indexed(f) /\ Indexed(c) /\ p \in Ptr /\ o = f[p].mem /\ a = c[p].mem
<1>1. HeapInv(h, tot, f, c, dl, co, d, ra) /\ p \in Ptr /\ o = f[p].mem /\ a = c[p].mem
  BY DEF Moving
<1>2. Sound(h, tot, ra) /\ Typed(f, c, dl) /\ Exact(Books(f, c, dl, co), Blocks(h.node))
  BY <1>1, InvParts
<1>3. Indexed(f) /\ Indexed(c)
  BY <1>2 DEF Typed
<1> QED BY <1>1, <1>2, <1>3

LEMMA ReplacingNumbers ==
    ASSUME NEW h, NEW f, NEW c, NEW d, NEW p, NEW S, NEW o, NEW a, NEW z, NEW had, NEW w,
           Replacing(h, f, c, d, p, S, o, a, z, had, w)
    PROVE  a \in Nat /\ w \in Nat /\ a # o
BY DEF Replacing

\* The contents of the new block, and the others, when the old one is freed.
LEMMA RefreedRest ==
    ASSUME NEW h, NEW tot, NEW f, NEW c, NEW d, NEW p, NEW o, NEW a, NEW z, NEW had, NEW w,
           NEW h2, NEW tot2, NEW f2, NEW c2, NEW d1, NEW d2, NEW d3, NEW d4,
           Refreed(h, tot, f, c, d, p, o, a, z, had, w, h2, tot2, f2, c2, d1, d2, d3, d4),
           NEW S, Replacing(h, f, c, d, p, S, o, a, z, had, w)
    PROVE  /\ Lost(h2, h, o) /\ Rest(S, h2.node, f, c, d2, a)
           /\ a \in Blocks(h2.node) /\ h2.node[a].size >= w + 1 /\ Blocks(h2.node) = Blocks(h.node) \ {o}
           /\ \A g \in Payload(a, w) : g \in Payload(a, had) => d2[g] = p
<1>1. d1 = Copied(d, a, o, z) /\ d2 = Filled(d1, Payload(o, h.node[o].size - SIZEOF_MM_ALLOCNODE), Junk)
  BY DEF Refreed
<1>2. h2 = mm_free(h, o)
  BY DEF Refreed
<1>3. /\ Rest(S, h.node, f, c, d2, o)
      /\ \A g \in Payload(a, w) : g \in Payload(a, had) => d2[g] = p
  BY <1>1, ReplacingCopies
<1>4. /\ Lost(h2, h, o) /\ Rest(S, h2.node, f, c, d2, a)
      /\ a \in Blocks(h2.node) /\ h2.node[a].size >= w + 1 /\ Blocks(h2.node) = Blocks(h.node) \ {o}
  BY <1>2, <1>3, ReplacingFrees
<1> QED BY <1>3, <1>4

\* The books: the pointer's block is the one of the call, and the call is over.
Handing(f, c, p, o, a, w, f2, c2) ==
    /\ Indexed(f) /\ Indexed(c) /\ p \in Ptr /\ f[p] # Null /\ c[p] # None
    /\ o = f[p].mem /\ a = c[p].mem /\ a # o /\ a \in Nat /\ w \in Nat
    /\ f2 = Updated(f, p, Block(a, w)) /\ c2 = Updated(c, p, None)

LEMMA RefreedBooks ==
    ASSUME NEW f, NEW c, NEW p, NEW o, NEW a, NEW w, NEW f2, NEW c2, Handing(f, c, p, o, a, w, f2, c2),
           NEW dl, NEW co, NEW B, Exact(Books(f, c, dl, co), B), NEW B2, B2 = B \ {o}
    PROVE  Exact(Books(f2, c2, dl, co), B2)
<1>0. /\ Indexed(f) /\ Indexed(c) /\ p \in Ptr /\ f[p] # Null /\ c[p] # None
      /\ o = f[p].mem /\ a = c[p].mem /\ a # o /\ a \in Nat /\ w \in Nat
      /\ f2 = Updated(f, p, Block(a, w)) /\ c2 = Updated(c, p, None)
  BY DEF Handing
<1>1. PICK k : k = Block(a, w)
  OBVIOUS
<1>2. k.mem = a /\ k # Null /\ f2 = Updated(f, p, k)
  BY <1>0, <1>1, BlockParts
<1> QED BY <1>0, <1>2, CallReplacesPtr

LEMMA ReallocFreeStep ==
    ASSUME NEW h, NEW tot, NEW f, NEW c, NEW dl, NEW co, NEW d, NEW ra, NEW p, NEW o, NEW a, NEW z, NEW had, NEW w,
           Moving(h, tot, f, c, dl, co, d, ra, p, o, a, z, had, w),
           NEW h2, NEW tot2, NEW f2, NEW c2, NEW d1, NEW d2, NEW d3, NEW d4,
           Refreed(h, tot, f, c, d, p, o, a, z, had, w, h2, tot2, f2, c2, d1, d2, d3, d4)
    PROVE  HeapInv(h2, tot2, f2, c2, dl, co, d4, ra)
<1>1. /\ Sound(h, tot, ra) /\ Typed(f, c, dl) /\ Exact(Books(f, c, dl, co), Blocks(h.node))
      /\ Indexed(f) /\ Indexed(c) /\ p \in Ptr /\ o = f[p].mem /\ a = c[p].mem
  BY MovingTypes
<1>2. PICK S : S = Ptr \ {p}
  OBVIOUS
<1>3. Replacing(h, f, c, d, p, S, o, a, z, had, w) /\ f[p] # Null /\ c[p] # None
  BY <1>2, MovingReplaces
<1>4. a \in Nat /\ w \in Nat /\ a # o
  BY <1>3, ReplacingNumbers
<1>5. /\ Lost(h2, h, o) /\ Rest(S, h2.node, f, c, d2, a)
      /\ a \in Blocks(h2.node) /\ h2.node[a].size >= w + 1 /\ Blocks(h2.node) = Blocks(h.node) \ {o}
      /\ \A g \in Payload(a, w) : g \in Payload(a, had) => d2[g] = p
  BY <1>3, RefreedRest
<1>6. f2 = Updated(f, p, Block(a, w)) /\ c2 = Updated(c, p, None) /\ tot2 = tot - h.node[o].size
  BY DEF Refreed
<1>7. Rest(S, h2.node, f, c2, d2, a) /\ c2[p] = None
  <2>1. c2[p] = None /\ \A q \in S : c2[q] = c[q]
    BY <1>1, <1>2, <1>6, UpdatedAt
  <2> QED BY <1>5, <2>1, RestCalls
<1>8. Sound(h2, tot2, ra)
  BY <1>1, <1>5, <1>6, SoundLost
<1>9. Typed(f, c2, dl)
  BY <1>1, <1>6, DoneTyped
<1>10. Exact(Books(f2, c2, dl, co), Blocks(h2.node))
  <2>1. PICK B : B = Blocks(h.node)
    OBVIOUS
  <2>2. PICK B2 : B2 = B \ {o}
    OBVIOUS
  <2>3. Exact(Books(f, c, dl, co), B)
    BY <1>1, <2>1
  <2>4. Handing(f, c, p, o, a, w, f2, c2)
    BY <1>1, <1>3, <1>4, <1>6 DEF Handing
  <2>5. Exact(Books(f2, c2, dl, co), B2)
    BY <2>2, <2>3, <2>4, RefreedBooks
  <2> QED BY <1>5, <2>1, <2>2, <2>5
<1>11. GotFits(h2, tot2, ra, f, c2, dl, co, p, S, a, w, f2, d2, had)
  BY <1>1, <1>2, <1>4, <1>5, <1>6, <1>7, <1>8, <1>9, <1>10 DEF GotFits
<1>12. d3 = Under(h2, d2) /\ d4 = GotTo(d3, a, h2.node[a].size, had, w, p)
  BY DEF Refreed
<1> QED BY <1>11, <1>12, GotKeeps

\* A block that keeps s granules.
LEMMA Shrunk ==
    ASSUME NEW h, HeapOk(h), NEW a, a \in Blocks(h.node), NEW s, s \in Nat, 0 < s, s <= h.node[a].size,
           NEW h2, h2 = IF s < h.node[a].size THEN mm_shrinkchunk(h, a, s) ELSE h
    PROVE  Moved(h2, h, a, a) /\ Calm(h2, h) /\ h2.node[a].size >= s
<1>1. a \in Alloc(h.node) /\ a # heapbase /\ a # heapend
  BY DEF Blocks
<1>2. h.node[a].size \in Nat
  BY HeapOkParts, BlocksOf
<1>3. CASE s < h.node[a].size
  <2>1. h2 = mm_shrinkchunk(h, a, s)
    BY <1>3
  <2>2. Resized(h2, h, a, s)
    BY <1>1, <1>3, <2>1, ShrinkEffect
  <2>3. Moved(h2, h, a, a) /\ Calm(h2, h) /\ h2.node[a].size = s
    BY <2>2, ResizedMoves
  <2> QED BY <2>3
<1>4. CASE ~(s < h.node[a].size)
  <2>1. h2 = h
    BY <1>4
  <2>2. Moved(h, h, a, a)
    BY MovedNowhere
  <2>3. Calm(h, h)
    BY DEF Calm
  <2>4. h2.node[a].size >= s
    BY <1>2, <2>1
  <2> QED BY <2>1, <2>2, <2>3, <2>4
<1> QED BY <1>3, <1>4

LEMMA ShrinkStep ==
    ASSUME NEW h, NEW tot, NEW f, NEW c, NEW dl, NEW co, NEW d, NEW ra, HeapInv(h, tot, f, c, dl, co, d, ra),
           NEW p, p \in Ptr, c[p] = None, f[p] # Null, NEW a, a = f[p].mem, NEW had, had = f[p].want,
           NEW h2, Moved(h2, h, a, a), Calm(h2, h), NEW w, w \in Nat, h2.node[a].size >= w + 1,
           NEW tot2, tot2 = (tot - h.node[a].size) + h2.node[a].size, NEW f2, f2 = Updated(f, p, Block(a, w)),
           NEW d2, d2 = Under(h2, d), NEW d3, d3 = GotTo(d2, a, h2.node[a].size, had, w, p)
    PROVE  HeapInv(h2, tot2, f2, c, dl, co, d3, ra)
<1>1. PICK S : S = Ptr \ {p}
  OBVIOUS
<1>2. Rest(S, h.node, f, c, d, a) /\ Mine(h.node, f[p], d, p)
  BY <1>1, RestOfPtr
<1>3. Rest(S, h2.node, f, c, d, a)
  BY <1>2, RestMoved
<1>4. \A g \in Payload(a, w) : g \in Payload(a, had) => d[g] = p
  BY <1>2 DEF Mine
<1>5. ResizeFits(h, tot, f, c, dl, co, d, ra, p, S, a, h2, a, w, d, had)
  BY <1>1, <1>3, <1>4 DEF ResizeFits
<1> QED BY <1>5, ResizeStep, ZenonT(30)

-----------------------------------------------------------------------------
(***************************************************************************)
(* mm_realloc that takes memory from the free neighbours.                  *)
(***************************************************************************)
LEMMA TakesEnough ==
    ASSUME NEW x, x \in Nat, NEW y, y \in Nat, NEW m, m \in Nat, 0 < m, m <= x + y, NEW t, t = Takes(x, y, m)
    PROVE  /\ t.prev \in Nat /\ t.next \in Nat /\ t.prev <= x /\ t.next <= y
           /\ t.prev + t.next = m
<1>1. CASE x > 0 /\ (y >= x \/ y < 1)
  <2>1. CASE m > x
    <3>1. t = [prev |-> x, next |-> m - x]
      BY <1>1, <2>1 DEF Takes
    <3>2. t.prev = x /\ t.next = m - x
      BY <3>1
    <3> QED BY <2>1, <3>2
  <2>2. CASE ~(m > x)
    <3>1. t = [prev |-> m, next |-> 0]
      BY <1>1, <2>2 DEF Takes
    <3>2. t.prev = m /\ t.next = 0
      BY <3>1
    <3> QED BY <2>2, <3>2
  <2> QED BY <2>1, <2>2
<1>2. CASE ~(x > 0 /\ (y >= x \/ y < 1))
  <2>1. CASE m > y
    <3>1. t = [prev |-> m - y, next |-> y]
      BY <1>2, <2>1 DEF Takes
    <3>2. t.prev = m - y /\ t.next = y
      BY <3>1
    <3> QED BY <2>1, <3>2
  <2>2. CASE ~(m > y)
    <3>1. t = [prev |-> 0, next |-> m]
      BY <1>2, <2>2 DEF Takes
    <3>2. t.prev = 0 /\ t.next = m
      BY <3>1
    <3> QED BY <2>2, <3>2
  <2> QED BY <2>1, <2>2
<1> QED BY <1>1, <1>2

\* The block begins t granules earlier and ends where it did.
Down(hd, h, a, b, t) ==
    /\ Moved(hd, h, a, b) /\ Calm(hd, h) /\ b = a - t
    /\ hd.node[b].size = h.node[a].size + t
    /\ FreeSize(hd, Nx(h.node, a)) = FreeSize(h, Nx(h.node, a))
    /\ t = 0 => hd = h

LEMMA GrowDown ==
    ASSUME NEW h, HeapOk(h), NEW a, a \in Blocks(h.node), NEW t, t \in Nat, t <= FreeSize(h, Prev_(h, a)),
           NEW r, r = TakePrev(h, a, t)
    PROVE  Down(r.heap, h, a, r.at, t)
<1>1. PICK n : n = h.node
  OBVIOUS
<1>2. Tiled(n) /\ a \in Alloc(n) /\ a \in DOMAIN n /\ a # heapbase /\ a # heapend /\ a \in Nat /\ n[a].size \in Nat
  BY <1>1, HeapOkParts, BlocksOf
<1>3. CASE t = 0
  <2>1. r = [heap |-> h, at |-> a]
    BY <1>3 DEF TakePrev
  <2>2. r.heap = h /\ r.at = a
    BY <2>1
  <2>3. Moved(h, h, a, a) /\ Calm(h, h)
    BY MovedNowhere DEF Calm
  <2>4. a = a - t /\ h.node[a].size = h.node[a].size + t
    BY <1>1, <1>2, <1>3
  <2>5. Down(h, h, a, a, t)
    BY <2>3, <2>4 DEF Down
  <2> QED BY <2>2, <2>5
<1>4. CASE t # 0
  <2>1. PICK p \in DOMAIN n : p < a /\ p # heapend /\ Nx(n, p) = a /\ a - n[a].preceding = p
    BY <1>2, PrevChunk
  <2>2. Prev_(h, a) = p
    BY <1>1, <2>1 DEF Prev_
  <2>3. p \in Nat /\ n[p].size \in Nat /\ heapbase <= p
    BY <1>2, <2>1, TiledTypes
  <2>4. ~n[p].allocated /\ t <= n[p].size
    BY <1>1, <1>4, <2>2, <2>3 DEF FreeSize, IsFree
  <2>5. p \in FreeOf(n) /\ FreeBefore(h, p, a)
    BY <1>1, <2>1, <2>2, <2>4 DEF FreeOf, FreeBefore
  <2>6. 0 < t
    BY <1>4
  <2>7. PICK hd : hd = r.heap
    OBVIOUS
  <2>8. PICK b : b = r.at
    OBVIOUS
  <2>9. Lowered(hd, h, a, b, t)
    BY <1>1, <1>2, <2>4, <2>5, <2>6, <2>7, <2>8, TakePrevEffect
  <2>10. /\ Outcome(hd, h, {a}, {b}) /\ Calm(hd, h) /\ b = a - t
         /\ hd.node[b].size = n[a].size + t
    BY <1>1, <2>9 DEF Lowered
  <2>11. n[heapbase].allocated /\ a = p + n[p].size
    BY <1>2, <2>1 DEF Tiled, Nx
  <2>12. p # heapbase
    BY <2>4, <2>11
  <2>13. b \in Nat /\ p <= b /\ b < a /\ b # heapbase /\ b # heapend
    <3>1. heapbase \in Nat /\ heapend \in Nat /\ a <= heapend
      BY <1>2, TiledTypes, Limits
    <3>2. p <= b /\ b < a /\ b \in Nat
      BY <1>2, <2>3, <2>4, <2>6, <2>10, <2>11
    <3> QED BY <1>2, <2>3, <2>12, <3>1, <3>2
  <2>14. b \notin Blocks(n)
    <3> SUFFICES ASSUME b \in Blocks(n) PROVE FALSE
      OBVIOUS
    <3>1. b \in DOMAIN n /\ n[b].allocated
      BY <1>2 DEF Blocks, Alloc
    <3>2. b # p
      BY <2>4, <3>1
    <3>3. p < b
      BY <2>3, <2>13, <3>2
    <3>4. a <= b
      BY <1>2, <2>1, <3>1, <3>3 DEF Tiled
    <3> QED BY <1>2, <2>13, <3>4
  <2>15. Moved(hd, h, a, b)
    BY <1>1, <2>10, <2>13, <2>14, OutcomeMoves
  <2>16. Nx(n, a) \in DOMAIN n /\ Nx(n, a) \in Nat
    BY <1>2, TiledTypes DEF Tiled
  <2>17. hd.node[Nx(n, a)].size = n[Nx(n, a)].size /\ hd.node[Nx(n, a)].allocated = n[Nx(n, a)].allocated
    <3>1. Nx(n, a) <= Nx(n, a)
      BY <2>16
    <3> QED BY <1>1, <2>9, <2>16, <3>1 DEF Lowered
  <2>18. FreeSize(hd, Nx(n, a)) = FreeSize(h, Nx(n, a))
    BY <1>1, <2>17 DEF FreeSize, IsFree
  <2>19. Down(hd, h, a, b, t)
    BY <1>1, <1>4, <2>10, <2>15, <2>18 DEF Down
  <2> QED BY <2>7, <2>8, <2>19
<1> QED BY <1>3, <1>4

\* The block ends t granules later.
Up(h2, h, a, t) == Moved(h2, h, a, a) /\ Calm(h2, h) /\ h2.node[a].size = h.node[a].size + t

LEMMA GrowUp ==
    ASSUME NEW h, HeapOk(h), NEW a, a \in Blocks(h.node), NEW t, t \in Nat, t <= FreeSize(h, Nx(h.node, a)),
           NEW h2, h2 = TakeNext(h, a, t)
    PROVE  Up(h2, h, a, t)
<1>1. PICK n : n = h.node
  OBVIOUS
<1>2. Tiled(n) /\ a \in Alloc(n) /\ a \in DOMAIN n /\ a # heapbase /\ a # heapend /\ a \in Nat /\ n[a].size \in Nat
  BY <1>1, HeapOkParts, BlocksOf
<1>3. CASE t = 0
  <2>1. h2 = h
    BY <1>3 DEF TakeNext
  <2>2. Moved(h, h, a, a) /\ Calm(h, h)
    BY MovedNowhere DEF Calm
  <2>3. h.node[a].size = h.node[a].size + t
    BY <1>1, <1>2, <1>3
  <2> QED BY <2>1, <2>2, <2>3 DEF Up
<1>4. CASE t # 0
  <2>1. PICK b : b = Nx(n, a)
    OBVIOUS
  <2>2. b \in DOMAIN n /\ n[b].size \in Nat
    BY <1>2, <2>1, TiledTypes DEF Tiled
  <2>3. ~n[b].allocated /\ t <= n[b].size /\ 0 < t
    BY <1>1, <1>4, <2>1, <2>2 DEF FreeSize, IsFree
  <2>4. Resized(h2, h, a, h.node[a].size + t)
    BY <1>1, <1>2, <2>1, <2>3, TakeNextEffect
  <2>5. PICK r : r = h.node[a].size + t
    OBVIOUS
  <2>6. Resized(h2, h, a, r)
    BY <2>4, <2>5
  <2>7. Moved(h2, h, a, a) /\ Calm(h2, h) /\ h2.node[a].size = r
    BY <2>6, ResizedMoves
  <2> QED BY <2>5, <2>7 DEF Up
<1> QED BY <1>3, <1>4

\* The block of another size, wherever it begins.
Grown(h2, hd, h, a, b, t, w) ==
    /\ Down(hd, h, a, b, t) /\ Moved(h2, hd, b, b) /\ Moved(h2, h, a, b) /\ Calm(h2, h)
    /\ h2.node[b].size >= w + 1

LEMMA GrowBoth ==
    ASSUME NEW h, HeapOk(h), NEW a, a \in Blocks(h.node), NEW u, u \in Nat, u <= FreeSize(h, Prev_(h, a)),
           NEW v, v \in Nat, v <= FreeSize(h, Nx(h.node, a)), NEW w, w \in Nat, (h.node[a].size + u) + v = w + 1,
           NEW r, r = TakePrev(h, a, u), NEW hd, hd = r.heap, NEW b, b = r.at, NEW h2, h2 = TakeNext(hd, b, v)
    PROVE  Grown(h2, hd, h, a, b, u, w)
<1>1. PICK n : n = h.node
  OBVIOUS
<1>2. a \in Nat /\ n[a].size \in Nat
  BY <1>1, HeapOkParts, BlocksOf
<1>3. Down(hd, h, a, b, u)
  BY GrowDown
<1>4. /\ Moved(hd, h, a, b) /\ Calm(hd, h) /\ b = a - u /\ hd.node[b].size = n[a].size + u
      /\ FreeSize(hd, Nx(n, a)) = FreeSize(h, Nx(n, a))
  BY <1>1, <1>3 DEF Down
<1>5. Nx(hd.node, b) = Nx(n, a)
  <2>1. Nx(hd.node, b) = b + hd.node[b].size /\ Nx(n, a) = a + n[a].size
    BY DEF Nx
  <2> QED BY <1>2, <1>4, <2>1
<1>6. HeapOk(hd) /\ b \in Blocks(hd.node)
  BY <1>4 DEF Moved
<1>7. v <= FreeSize(hd, Nx(hd.node, b))
  BY <1>1, <1>4, <1>5
<1>8. Moved(h2, hd, b, b) /\ Calm(h2, hd) /\ h2.node[b].size = hd.node[b].size + v
  <2>1. HeapOk(hd)
    BY <1>6
  <2>2. b \in Blocks(hd.node)
    BY <1>6
  <2>3. Up(h2, hd, b, v)
    BY <1>7, <2>1, <2>2, GrowUp, Zenon
  <2> QED BY <2>3 DEF Up
<1>9. Moved(h2, h, a, b)
  BY <1>4, <1>8, MovedTwice
<1>10. Calm(h2, h)
  BY <1>4, <1>8 DEF Calm
<1>11. h2.node[b].size = w + 1
  BY <1>1, <1>4, <1>8
<1>12. h2.node[b].size >= w + 1
  BY <1>11
<1> QED BY <1>3, <1>8, <1>9, <1>10, <1>12 DEF Grown

LEMMA FreeSizes ==
    ASSUME NEW h, HeapOk(h), NEW a, a \in Blocks(h.node),
           NEW x, x = FreeSize(h, Prev_(h, a)), NEW y, y = FreeSize(h, Nx(h.node, a))
    PROVE  h.node[a].size \in Nat /\ x \in Nat /\ y \in Nat
<1>1. PICK n : n = h.node
  OBVIOUS
<1>2. Tiled(n) /\ a \in DOMAIN n /\ a # heapbase /\ a # heapend /\ a \in Nat /\ n[a].size \in Nat
  BY <1>1, HeapOkParts, BlocksOf
<1>3. Nx(n, a) \in DOMAIN n
  BY <1>2 DEF Tiled
<1>4. PICK p \in DOMAIN n : a - n[a].preceding = p
  BY <1>2, PrevChunk
<1>5. n[p].size \in Nat /\ n[Nx(n, a)].size \in Nat
  BY <1>2, <1>3, <1>4, TiledTypes
<1>6. Prev_(h, a) = p
  BY <1>1, <1>4 DEF Prev_
<1>7. x = FreeSize(h, p) /\ y = FreeSize(h, Nx(n, a))
  BY <1>1, <1>6
<1>8. x \in Nat /\ y \in Nat
  BY <1>1, <1>5, <1>7 DEF FreeSize
<1> QED BY <1>1, <1>2, <1>8

Enough(t, x, y, k, w) ==
    /\ t.prev \in Nat /\ t.next \in Nat /\ t.prev <= x /\ t.next <= y
    /\ (k + t.prev) + t.next = w + 1

LEMMA GrowTakes ==
    ASSUME NEW h, HeapOk(h), NEW a, a \in Blocks(h.node), NEW w, w \in Nat, h.node[a].size < w + 1,
           NEW x, x = FreeSize(h, Prev_(h, a)), NEW y, y = FreeSize(h, Nx(h.node, a)),
           w + 1 <= (y + x) + h.node[a].size, NEW k, k = (w + 1) - h.node[a].size, NEW t, t = Takes(x, y, k)
    PROVE  Enough(t, x, y, h.node[a].size, w)
<1>1. PICK n : n = h.node
  OBVIOUS
<1>2. Tiled(n) /\ a \in DOMAIN n /\ a # heapbase /\ a # heapend /\ a \in Nat /\ n[a].size \in Nat
  BY <1>1, HeapOkParts, BlocksOf
<1>3. x \in Nat /\ y \in Nat
  BY FreeSizes
<1>4. k \in Nat /\ 0 < k /\ k <= x + y /\ n[a].size + k = w + 1
  BY <1>1, <1>2, <1>3
<1>5. t.prev \in Nat /\ t.next \in Nat /\ t.prev <= x /\ t.next <= y /\ t.prev + t.next = k
  BY <1>3, <1>4, TakesEnough
<1>6. (n[a].size + t.prev) + t.next = w + 1
  BY <1>2, <1>4, <1>5
<1> QED BY <1>1, <1>5, <1>6 DEF Enough

\* What the block held has moved down with it.
Brought(d, hd, b, a, t) ==
    IF t = 0 THEN d ELSE Copied(Under(hd, d), b, a, hd.node[b].size - SIZEOF_MM_ALLOCNODE)

\* A pointer has block a, with what its program wrote.
Owns(h, f, S, c, d, a, p, had) ==
    /\ HeapOk(h) /\ Pointers(f) /\ S \subseteq Ptr /\ a \in Blocks(h.node)
    /\ Rest(S, h.node, f, c, d, a) /\ had \in Nat /\ h.node[a].size >= had + 1
    /\ \A g \in Payload(a, had) : d[g] = p

LEMMA GrowContents ==
    ASSUME NEW h, NEW f, NEW S, NEW c, NEW d, NEW a, NEW p, NEW had, Owns(h, f, S, c, d, a, p, had),
           NEW hd, NEW b, NEW t, t \in Nat, Down(hd, h, a, b, t), NEW d2, d2 = Brought(d, hd, b, a, t)
    PROVE  Rest(S, hd.node, f, c, d2, b) /\ \A g \in Payload(b, had) : d2[g] = p
<1>0. /\ HeapOk(h) /\ Pointers(f) /\ S \subseteq Ptr /\ a \in Blocks(h.node)
      /\ Rest(S, h.node, f, c, d, a) /\ had \in Nat /\ h.node[a].size >= had + 1
      /\ \A g \in Payload(a, had) : d[g] = p
  BY DEF Owns
<1>1. a \in Nat /\ h.node[a].size \in Nat
  BY <1>0, HeapOkParts, BlocksOf
<1>2. CASE t = 0
  <2>1. hd = h /\ b = a /\ d2 = d
    BY <1>1, <1>2 DEF Down, Brought
  <2> QED BY <1>0, <2>1
<1>3. CASE t # 0
  <2>1. /\ Moved(hd, h, a, b) /\ b = a - t /\ hd.node[b].size = h.node[a].size + t
    BY DEF Down
  <2>2. HeapOk(hd) /\ b \in Blocks(hd.node)
    BY <2>1 DEF Moved
  <2>3. PICK m : m = hd.node
    OBVIOUS
  <2>4. Tiled(m) /\ b \in Blocks(m) /\ b \in Nat /\ m[b].size \in Nat
    BY <2>2, <2>3, HeapOkParts, BlocksOf
  <2>5. PICK z : z = m[b].size - SIZEOF_MM_ALLOCNODE
    OBVIOUS
  <2>6. z \in Nat /\ z + 1 <= m[b].size /\ m[b].size >= z + 1 /\ had + t <= z
    <3>1. m[b].size = h.node[a].size + t
      BY <2>1, <2>3
    <3>2. z = m[b].size - 1
      BY <2>5 DEF SIZEOF_MM_ALLOCNODE
    <3> QED BY <1>0, <1>1, <2>4, <3>1, <3>2
  <2>7. PICK du : du = Under(hd, d)
    OBVIOUS
  <2>8. d2 = Copied(du, b, a, z)
    BY <1>3, <2>3, <2>5, <2>7 DEF Brought
  <2>9. Rest(S, m, f, c, du, b)
    <3>1. Rest(S, hd.node, f, c, d, b)
      BY <1>0, <2>1, RestMoved
    <3>2. Tiled(hd.node)
      BY <2>3, <2>4
    <3>3. Rest(S, hd.node, f, c, du, b)
      BY <1>0, <2>7, <3>1, <3>2, RestUnder
    <3> QED BY <2>3, <3>3
  <2>10. Within(d2, du, m, b)
    BY <2>4, <2>6, <2>8, CopiedWithin
  <2>11. Rest(S, m, f, c, d2, b)
    BY <1>0, <2>4, <2>9, <2>10, RestWithin
  <2>12. ASSUME NEW g \in Payload(b, had) PROVE d2[g] = p
    <3>1. PICK x : x = a + (g - b)
      OBVIOUS
    <3>2. g \in Payload(b, z) /\ x \in Payload(a, had) /\ x \in Payload(b, z)
      BY <1>0, <1>1, <2>1, <2>4, <2>6, <2>12, <3>1 DEF Payload, SIZEOF_MM_ALLOCNODE
    <3>3. x \in Addr /\ x \notin DOMAIN m
      BY <2>4, <2>6, <3>2, PayloadIn
    <3>4. g \in Addr
      BY <2>4, <2>6, <3>2, PayloadIn
    <3>5. d2[g] = du[x]
      BY <2>8, <3>1, <3>2, <3>3, <3>4 DEF Copied
    <3>6. du[x] = d[x]
      BY <2>3, <2>7, <3>3 DEF Under
    <3> QED BY <1>0, <3>2, <3>5, <3>6
  <2> QED BY <2>3, <2>11, <2>12
<1> QED BY <1>2, <1>3

LEMMA GrowStep ==
    ASSUME NEW h, NEW tot, NEW f, NEW c, NEW dl, NEW co, NEW d, NEW ra, HeapInv(h, tot, f, c, dl, co, d, ra),
           NEW p, p \in Ptr, c[p] = None, f[p] # Null, NEW a, a = f[p].mem, NEW had, had = f[p].want,
           NEW h2, NEW hd, NEW b, NEW t, t \in Nat, NEW w, w \in Nat, Grown(h2, hd, h, a, b, t, w),
           NEW d1, d1 = Brought(d, hd, b, a, t),
           NEW tot2, tot2 = (tot - h.node[a].size) + h2.node[b].size, NEW f2, f2 = Updated(f, p, Block(b, w)),
           NEW d2, d2 = Under(h2, d1), NEW d3, d3 = GotTo(d2, b, h2.node[b].size, had, w, p)
    PROVE  HeapInv(h2, tot2, f2, c, dl, co, d3, ra)
<1>1. PICK S : S = Ptr \ {p}
  OBVIOUS
<1>2. HeapOk(h) /\ Pointers(f) /\ S \subseteq Ptr
  BY <1>1, InvParts
<1>3. Rest(S, h.node, f, c, d, a) /\ a \in Blocks(h.node) /\ Mine(h.node, f[p], d, p) /\ had \in Nat
  BY <1>1, RestOfPtr
<1>4. h.node[a].size >= had + 1 /\ \A g \in Payload(a, had) : d[g] = p
  BY <1>3 DEF Mine
<1>5. /\ Down(hd, h, a, b, t) /\ Moved(h2, hd, b, b) /\ Moved(h2, h, a, b) /\ Calm(h2, h)
      /\ h2.node[b].size >= w + 1
  BY DEF Grown
<1>6. Rest(S, hd.node, f, c, d1, b) /\ \A g \in Payload(b, had) : d1[g] = p
  <2>1. Owns(h, f, S, c, d, a, p, had)
    BY <1>2, <1>3, <1>4 DEF Owns
  <2>2. Down(hd, h, a, b, t)
    BY <1>5
  <2> QED BY <2>1, <2>2, GrowContents
<1>7. Rest(S, h2.node, f, c, d1, b)
  BY <1>5, <1>6, RestMoved
<1>8. ResizeFits(h, tot, f, c, dl, co, d, ra, p, S, a, h2, b, w, d1, had)
  BY <1>1, <1>5, <1>6, <1>7 DEF ResizeFits
<1> QED BY <1>8, ResizeStep, ZenonT(30)

-----------------------------------------------------------------------------
(***************************************************************************)
(* mm_memalign.                                                            *)
(***************************************************************************)
LEMMA Quotient ==
    ASSUME NEW x, x \in Nat, NEW m, m \in Nat, m > 0
    PROVE  (x \div m) \in Nat /\ (x \div m) * m <= x /\ x < (x \div m) * m + m
OBVIOUS

LEMMA AlignedNear ==
    ASSUME NEW a, a \in Nat, NEW al, al \in Alignment, NEW at, at = AlignedChunk(a, al) - SIZEOF_MM_ALLOCNODE
    PROVE  al \in Nat /\ al > 1 /\ at \in Nat /\ a <= at /\ at <= (a + al) - 1
<1>1. al \in Nat /\ al > 1
  BY HeapConstants
<1>2. PICK x : x = (a + 1) + (al - 1)
  OBVIOUS
<1>3. x \in Nat /\ x = a + al
  BY <1>1, <1>2
<1>4. PICK y : y = (x \div al) * al
  OBVIOUS
<1>5. y \in Nat /\ y <= x /\ x < y + al
  <2>1. (x \div al) \in Nat /\ (x \div al) * al <= x /\ x < (x \div al) * al + al
    BY <1>1, <1>3, Quotient
  <2> QED BY <1>1, <1>4, <2>1
<1>6. AlignedUp(a + 1, al) = y
  <2>1. PICK m : m = a + 1
    OBVIOUS
  <2>2. m + (al - 1) = x
    BY <1>2, <2>1
  <2>3. AlignedUp(m, al) = ((m + (al - 1)) \div al) * al
    BY DEF AlignedUp
  <2> QED BY <1>4, <2>1, <2>2, <2>3
<1>7. AlignedChunk(a, al) = IF y # a + 1 /\ y - (a + 1) < 1 THEN y + al ELSE y
  BY <1>6 DEF AlignedChunk, SIZEOF_MM_ALLOCNODE, SIZEOF_MM_FREENODE
<1>8. y >= a + 1
  BY <1>1, <1>3, <1>5
<1>9. AlignedChunk(a, al) = y
  BY <1>5, <1>7, <1>8
<1>10. at = y - 1
  BY <1>9 DEF SIZEOF_MM_ALLOCNODE
<1> QED BY <1>1, <1>3, <1>5, <1>8, <1>10

\* The raw chunk is cut at the aligned address and behind the request.
Trimmed(h2, h, a, at, w) ==
    /\ Moved(h2, h, a, at) /\ h2.node[at].size >= w + 1
    /\ at = a \/ h.node[Prev_(h, a)].allocated => Calm(h2, h)

LEMMA CarveMoves ==
    ASSUME NEW h, HeapOk(h), NEW a, a \in Blocks(h.node), NEW at, at \in Nat, a < at, at < Nx(h.node, a),
           NEW g, g = at + 1, NEW h2, h2 = Carve(h, a, g)
    PROVE  /\ Moved(h2, h, a, at) /\ h2.node[at].size = Nx(h.node, a) - at
           /\ h.node[Prev_(h, a)].allocated => Calm(h2, h)
<1>1. PICK n : n = h.node
  OBVIOUS
<1>2. Tiled(n) /\ a \in Alloc(n) /\ a \in DOMAIN n /\ a # heapbase /\ a # heapend /\ a \in Nat
  BY <1>1, HeapOkParts, BlocksOf
<1>3. Carved(h2, h, a, at)
  BY <1>1, <1>2, CarveEffect
<1>4. /\ Outcome(h2, h, {a}, {at}) /\ h2.node[at].size = Nx(h.node, a) - at
      /\ h.node[Prev_(h, a)].allocated => Calm(h2, h)
  BY <1>3 DEF Carved
<1>5. at \notin DOMAIN n
  <2> SUFFICES ASSUME at \in DOMAIN n PROVE FALSE
    OBVIOUS
  <2>1. Nx(n, a) <= at /\ Nx(n, a) \in Nat
    BY <1>2, TiledTypes DEF Tiled
  <2> QED BY <1>1, <2>1
<1>6. at # heapbase /\ at # heapend /\ at \notin Blocks(n)
  BY <1>2, <1>5 DEF Tiled, Blocks, Alloc
<1>7. Moved(h2, h, a, at)
  BY <1>1, <1>4, <1>6, OutcomeMoves
<1> QED BY <1>4, <1>7

LEMMA TrimMoves ==
    ASSUME NEW h, HeapOk(h), NEW a, a \in Blocks(h.node), NEW at, at \in Nat, a <= at, NEW w, w \in Nat,
           at + (w + 1) <= Nx(h.node, a),
           NEW hc, hc = IF at = a THEN h ELSE Carve(h, a, at + SIZEOF_MM_ALLOCNODE),
           NEW h2, h2 = IF hc.node[at].size - SIZEOF_MM_ALLOCNODE > w
                          THEN mm_shrinkchunk(hc, at, w + SIZEOF_MM_ALLOCNODE) ELSE hc
    PROVE  Trimmed(h2, h, a, at, w)
<1>1. a \in Nat /\ h.node[a].size \in Nat /\ Nx(h.node, a) = a + h.node[a].size
  BY HeapOkParts, BlocksOf DEF Nx
<1>2. /\ Moved(hc, h, a, at) /\ hc.node[at].size = Nx(h.node, a) - at
      /\ at = a \/ h.node[Prev_(h, a)].allocated => Calm(hc, h)
  <2>1. CASE at = a
    <3>1. hc = h
      BY <2>1
    <3>2. Moved(h, h, a, a) /\ Calm(h, h)
      BY MovedNowhere DEF Calm
    <3>3. h.node[a].size = Nx(h.node, a) - a
      BY <1>1
    <3> QED BY <2>1, <3>1, <3>2, <3>3
  <2>2. CASE at # a
    <3>1. PICK g : g = at + 1
      OBVIOUS
    <3>2. hc = Carve(h, a, g)
      BY <2>2, <3>1 DEF SIZEOF_MM_ALLOCNODE
    <3>3. a < at /\ at < Nx(h.node, a)
      BY <1>1, <2>2
    <3>4. /\ Moved(hc, h, a, at) /\ hc.node[at].size = Nx(h.node, a) - at
          /\ h.node[Prev_(h, a)].allocated => Calm(hc, h)
      BY <3>1, <3>2, <3>3, CarveMoves
    <3> QED BY <2>2, <3>4
  <2> QED BY <2>1, <2>2
<1>3. HeapOk(hc) /\ at \in Blocks(hc.node)
  BY <1>2 DEF Moved
<1>4. PICK k : k = hc.node[at].size
  OBVIOUS
<1>5. PICK s : s = w + 1
  OBVIOUS
<1>6. k \in Nat /\ s \in Nat /\ 0 < s /\ s <= k
  BY <1>1, <1>2, <1>4, <1>5
<1>7. h2 = IF s < k THEN mm_shrinkchunk(hc, at, s) ELSE hc
  <2>1. h2 = IF k - 1 > w THEN mm_shrinkchunk(hc, at, s) ELSE hc
    BY <1>4, <1>5 DEF SIZEOF_MM_ALLOCNODE
  <2>2. k - 1 > w <=> s < k
    BY <1>5, <1>6
  <2> QED BY <2>1, <2>2
<1>8. Moved(h2, hc, at, at) /\ Calm(h2, hc) /\ h2.node[at].size >= s
  BY <1>3, <1>4, <1>6, <1>7, Shrunk
<1>9. Moved(h2, h, a, at)
  BY <1>2, <1>8, MovedTwice
<1>10. at = a \/ h.node[Prev_(h, a)].allocated => Calm(h2, h)
  BY <1>2, <1>8 DEF Calm
<1> QED BY <1>5, <1>8, <1>9, <1>10 DEF Trimmed

\* Neighbours may both be free only once mm_memalign has lost the race.
RacedSince(ra2, ra, h, a, at) ==
    /\ ra => ra2
    /\ ~ra2 => at = a \/ h.node[Prev_(h, a)].allocated

LEMMA TrimStep ==
    ASSUME NEW h, NEW tot, NEW f, NEW c, NEW dl, NEW co, NEW d, NEW ra, HeapInv(h, tot, f, c, dl, co, d, ra),
           NEW p, p \in Ptr, c[p] # None, f[p] = Null, NEW a, a = c[p].mem, NEW w, w \in Nat, NEW h2, NEW at,
           Trimmed(h2, h, a, at, w), NEW ra2, RacedSince(ra2, ra, h, a, at),
           NEW tot2, tot2 = (tot - h.node[a].size) + h2.node[at].size,
           NEW f2, f2 = Updated(f, p, Block(at, w)), NEW c2, c2 = Updated(c, p, None),
           NEW d2, d2 = Under(h2, d), NEW d3, d3 = GotTo(d2, at, h2.node[at].size, 0, w, p)
    PROVE  HeapInv(h2, tot2, f2, c2, dl, co, d3, ra2)
<1>1. /\ Sound(h, tot, ra) /\ Typed(f, c, dl) /\ Exact(Books(f, c, dl, co), Blocks(h.node))
      /\ Indexed(f) /\ Indexed(c)
  BY InvParts DEF Typed
<1>2. PICK S : S = Ptr \ {p}
  OBVIOUS
<1>3. Moved(h2, h, a, at) /\ h2.node[at].size >= w + 1 /\ (~ra2 => Calm(h2, h)) /\ (ra => ra2)
  BY DEF Trimmed, RacedSince
<1>4. Sound(h2, tot2, ra2)
  <2>1. HeapOk(h2) /\ tot2 = Total(h2.node)
    BY <1>1, <1>3 DEF Sound, Moved
  <2>2. ~ra2 => NoPairs(h2.node)
    BY <1>1, <1>3 DEF Sound, Calm
  <2> QED BY <2>1, <2>2 DEF Sound
<1>5. Rest(S, h2.node, f, c, d, at)
  <2>1. Rest(S, h.node, f, c, d, a)
    BY <1>2, RestOfCall
  <2> QED BY <1>3, <2>1, RestMoved
<1>6. Rest(S, h2.node, f, c2, d, at) /\ c2[p] = None
  <2>1. c2[p] = None /\ \A q \in S : c2[q] = c[q]
    BY <1>1, <1>2, UpdatedAt
  <2> QED BY <1>5, <2>1, RestCalls
<1>7. Typed(f, c2, dl)
  BY <1>1, DoneTyped
<1>8. /\ at \in Blocks(h2.node) /\ Blocks(h2.node) = (Blocks(h.node) \ {a}) \cup {at} /\ at \notin Blocks(h.node) \ {a}
  BY <1>3 DEF Moved
<1>9. at \in Nat
  BY <1>4, <1>8, HeapOkParts, BlocksOf DEF Sound
<1>10. Exact(Books(f2, c2, dl, co), Blocks(h2.node))
  <2>1. PICK k : k = Block(at, w)
    OBVIOUS
  <2>2. k.mem = at /\ k # Null /\ f2 = Updated(f, p, k)
    BY <1>9, <2>1, BlockParts
  <2>3. PICK B : B = Blocks(h.node)
    OBVIOUS
  <2>4. PICK B2 : B2 = (B \ {a}) \cup {k.mem}
    OBVIOUS
  <2>5. Exact(Books(f, c, dl, co), B) /\ k.mem \notin B \ {a}
    BY <1>1, <1>8, <2>2, <2>3
  <2>6. Exact(Books(f2, c2, dl, co), B2)
    BY <1>1, <2>2, <2>4, <2>5, CallToPtr
  <2> QED BY <1>8, <2>2, <2>3, <2>4, <2>6
<1>11. \A g \in Payload(at, w) : g \in Payload(at, 0) => d[g] = p
  BY <1>9, NoPayload
<1>12. GotFits(h2, tot2, ra2, f, c2, dl, co, p, S, at, w, f2, d, 0)
  BY <1>2, <1>3, <1>4, <1>6, <1>7, <1>8, <1>10, <1>11 DEF GotFits
<1> QED BY <1>12, GotKeeps, Zenon

-----------------------------------------------------------------------------
(***************************************************************************)
(* The heap of mm_initialize.                                              *)
(***************************************************************************)
FirstHeader(a, first, n) ==
    CASE a = heapbase -> Header(SIZEOF_MM_ALLOCNODE, 0, TRUE)
      [] a = first -> Header(n, SIZEOF_MM_ALLOCNODE, FALSE)
      [] a = heapend -> Header(SIZEOF_MM_ALLOCNODE, n, TRUE)

FirstNodes(first, n) == [a \in {heapbase, first, heapend} |-> FirstHeader(a, first, n)]

NoLists == [i \in Index |-> <<>>]

LEMMA FirstTiled ==
    ASSUME NEW first, first = heapbase + 1, NEW k, k = heapend - first, NEW n, n = FirstNodes(first, k)
    PROVE  /\ Tiled(n) /\ FreeOf(n) = {first} /\ Alloc(n) = {heapbase, heapend} /\ NoPairs(n)
           /\ first \in DOMAIN n
<1>1. /\ heapbase \in Nat /\ heapend \in Nat /\ first \in Nat /\ k \in Nat /\ k > 0 /\ first + k = heapend
      /\ heapbase < first /\ first < heapend /\ heapbase # first /\ first # heapend /\ heapbase # heapend
  BY Limits
<1>2. DOMAIN n = {heapbase, first, heapend} /\ n = [x \in DOMAIN n |-> n[x]]
  BY DEF FirstNodes
<1>3. /\ n[heapbase] = Header(1, 0, TRUE) /\ n[first] = Header(k, 1, FALSE) /\ n[heapend] = Header(1, k, TRUE)
  <2>1. /\ n[heapbase] = FirstHeader(heapbase, first, k) /\ n[first] = FirstHeader(first, first, k)
        /\ n[heapend] = FirstHeader(heapend, first, k)
    BY DEF FirstNodes
  <2>2. FirstHeader(heapbase, first, k) = Header(1, 0, TRUE)
    BY <1>1 DEF FirstHeader, SIZEOF_MM_ALLOCNODE
  <2>3. FirstHeader(first, first, k) = Header(k, 1, FALSE)
    BY <1>1 DEF FirstHeader, SIZEOF_MM_ALLOCNODE
  <2>4. FirstHeader(heapend, first, k) = Header(1, k, TRUE)
    BY <1>1 DEF FirstHeader, SIZEOF_MM_ALLOCNODE
  <2> QED BY <2>1, <2>2, <2>3, <2>4
<1>4. IsHeader(n[heapbase], 1, 0, TRUE) /\ IsHeader(n[first], k, 1, FALSE) /\ IsHeader(n[heapend], 1, k, TRUE)
  <2>1. ASSUME NEW s \in Nat, NEW p \in Nat, NEW b \in BOOLEAN, NEW x, x = Header(s, p, b)
        PROVE  IsHeader(x, s, p, b)
    BY <2>1, HeaderFacts
  <2>2. 0 \in Nat /\ 1 \in Nat
    OBVIOUS
  <2>3. PICK yes \in BOOLEAN : yes = TRUE
    OBVIOUS
  <2>4. PICK no \in BOOLEAN : no = FALSE
    OBVIOUS
  <2>5. IsHeader(n[heapbase], 1, 0, yes)
    BY <1>3, <2>1, <2>2, <2>3
  <2>6. IsHeader(n[first], k, 1, no)
    BY <1>1, <1>3, <2>1, <2>2, <2>4
  <2>7. IsHeader(n[heapend], 1, k, yes)
    BY <1>1, <1>3, <2>1, <2>2, <2>3
  <2> QED BY <2>3, <2>4, <2>5, <2>6, <2>7
<1>5. /\ n[heapbase] \in Headers /\ n[first] \in Headers /\ n[heapend] \in Headers
      /\ n[heapbase].size = 1 /\ n[first].size = k /\ n[heapend].size = 1
      /\ n[first].preceding = 1 /\ n[heapend].preceding = k
      /\ n[heapbase].allocated /\ ~n[first].allocated /\ n[heapend].allocated
  BY <1>4 DEF IsHeader
<1>6. Nx(n, heapbase) = first /\ Nx(n, first) = heapend
  BY <1>1, <1>5 DEF Nx
<1>7. IsNodes(n)
  <2>1. DOMAIN n \subseteq Addr
    BY <1>1, <1>2, Limits
  <2>2. \A x \in DOMAIN n : n[x] \in Headers /\ n[x].size > 0
    BY <1>1, <1>2, <1>5
  <2> QED BY <1>2, <2>1, <2>2 DEF IsNodes
<1>8. \A a \in DOMAIN n \ {heapend} : Nx(n, a) \in DOMAIN n /\ n[Nx(n, a)].preceding = n[a].size
  BY <1>2, <1>5, <1>6
<1>9. \A a, b \in DOMAIN n : a # heapend /\ a < b => Nx(n, a) <= b
  BY <1>1, <1>2, <1>6
<1>10. Tiled(n)
  BY <1>2, <1>5, <1>7, <1>8, <1>9 DEF Tiled
<1>11. FreeOf(n) = {first} /\ Alloc(n) = {heapbase, heapend}
  BY <1>1, <1>2, <1>5 DEF FreeOf, Alloc
<1>12. NoPairs(n)
  BY <1>1, <1>2, <1>5, <1>6 DEF NoPairs, Pair
<1> QED BY <1>2, <1>10, <1>11, <1>12

LEMMA NoneLinked == ASSUME NEW n, NEW l, l = NoLists PROVE Linked(l, {}, n)
<1>1. l = [i \in Index |-> l[i]] /\ \A i \in Index : l[i] = <<>>
  BY DEF NoLists
<1>2. ASSUME NEW i \in Index PROVE InList(<<>>, {}, n, i)
  <2>1. <<>> \in Seq(Addr) /\ Len(<<>>) = 0 /\ DOMAIN <<>> = {}
    OBVIOUS
  <2>2. IsInjective(<<>>)
    BY <2>1 DEF IsInjective
  <2>3. Sorted(<<>>, n)
    BY <2>1 DEF Sorted
  <2>4. ToSet(<<>>) = {}
    BY <2>1 DEF ToSet
  <2> QED BY <2>1, <2>2, <2>3, <2>4 DEF InList
<1> QED BY <1>1, <1>2 DEF Linked

LEMMA FirstHeap ==
    ASSUME NEW h, h = InitialHeap
    PROVE  HeapOk(h) /\ NoPairs(h.node) /\ Blocks(h.node) = {} /\ Total(h.node) = 0
<1>1. PICK first : first = heapbase + 1
  OBVIOUS
<1>2. PICK k : k = heapend - first
  OBVIOUS
<1>3. PICK n : n = FirstNodes(first, k)
  OBVIOUS
<1>4. PICK l : l = NoLists
  OBVIOUS
<1>5. PICK h0 : h0 = Val(n, l)
  OBVIOUS
<1>6. heapsize - 2 * SIZEOF_MM_ALLOCNODE = k
  BY <1>1, <1>2, HeapConstants DEF heapend, SIZEOF_MM_ALLOCNODE
<1>7. heapbase + SIZEOF_MM_ALLOCNODE = first
  BY <1>1 DEF SIZEOF_MM_ALLOCNODE
<1>8. h = mm_addfreechunk(h0, first)
  <2>1. h = mm_addfreechunk(Val(FirstNodes(heapbase + SIZEOF_MM_ALLOCNODE, heapsize - 2 * SIZEOF_MM_ALLOCNODE), NoLists),
                            heapbase + SIZEOF_MM_ALLOCNODE)
    BY DEF InitialHeap, FirstNodes, FirstHeader, NoLists, Val
  <2> QED BY <1>3, <1>4, <1>5, <1>6, <1>7, <2>1
<1>9. /\ Tiled(n) /\ FreeOf(n) = {first} /\ Alloc(n) = {heapbase, heapend} /\ NoPairs(n)
      /\ first \in DOMAIN n
  BY <1>1, <1>2, <1>3, FirstTiled
<1>10. PICK F : F = {}
  OBVIOUS
<1>11. Linked(l, F, n) /\ F \subseteq DOMAIN n /\ first \notin F
  BY <1>4, <1>10, NoneLinked
<1>12. Half(h0, F) /\ h0.node = n
  BY <1>5, <1>9, <1>11, MakeHalf
<1>13. Added(h, h0, F, first)
  BY <1>8, <1>9, <1>11, <1>12, AddStep
<1>14. Half(h, F \cup {first}) /\ h.node = n
  BY <1>12, <1>13 DEF Added
<1>15. HeapOk(h)
  <2>1. F \cup {first} = FreeOf(n)
    BY <1>9, <1>10
  <2> QED BY <1>14, <2>1 DEF HeapOk
<1>16. Blocks(n) = {}
  BY <1>9 DEF Blocks
<1>17. Total(n) = 0
  <2>1. Cover(n, {}) = {}
    BY DEF Cover
  <2> QED BY <1>16, <2>1, FS_EmptySet DEF Total
<1> QED BY <1>9, <1>14, <1>15, <1>16, <1>17

LEMMA FirstInv ==
    ASSUME NEW h, h = InitialHeap, NEW f, f = [p \in Ptr |-> Null], NEW c, c = [p \in Ptr |-> None],
           NEW dl, dl = <<>>, NEW co, co = Null, NEW d, NEW ra, ra = FALSE, NEW tot, tot = 0
    PROVE  HeapInv(h, tot, f, c, dl, co, d, ra)
<1>1. HeapOk(h) /\ NoPairs(h.node) /\ Blocks(h.node) = {} /\ Total(h.node) = 0
  BY FirstHeap
<1>2. Sound(h, tot, ra)
  BY <1>1 DEF Sound
<1>3. Pointers(f) /\ Indexed(f) /\ Indexed(c) /\ (\A p \in Ptr : f[p] = Null) /\ (\A p \in Ptr : c[p] = None)
  BY DEF Pointers, Indexed
<1>4. dl \in Seq(Nat) /\ IsInjective(dl) /\ ToSet(dl) = {}
  <2>1. dl \in Seq(Nat) /\ DOMAIN dl = {}
    OBVIOUS
  <2> QED BY <2>1 DEF IsInjective, ToSet
<1>5. Typed(f, c, dl)
  BY <1>3, <1>4 DEF Typed
<1>6. PICK H : H = Books(f, c, dl, co)
  OBVIOUS
<1>7. \A x : x \notin H
  BY <1>3, <1>4, <1>6, BooksEntries
<1>8. Exact(H, Blocks(h.node))
  BY <1>1, <1>7 DEF Exact
<1>9. Intact(Ptr, h.node, f, d) /\ CallsOk(Ptr, h.node, f, c)
  BY <1>3 DEF Intact, CallsOk
<1> QED BY <1>2, <1>5, <1>6, <1>8, <1>9 DEF HeapInv

(***************************************************************************)
(* The inductive invariant, and the actions one by one.                    *)
(***************************************************************************)
HInv == HeapInv(heap, total, ptr, call, delayed, collecting, data, raced)

LEMMA Requests == \A n \in Request : n \in Nat /\ n > 0
  BY HeapConstants DEF Request

LEMMA GotValues ==
    ASSUME NEW p, NEW a, NEW had, NEW n, NEW h, NEW d, Got(p, a, had, n, h, d)
    PROVE  ptr' = Updated(ptr, p, Block(a, n)) /\ data' = GotTo(d, a, h.node[a].size, had, n, p)
  BY DEF Got, Updated, GotTo

LEMMA InitHInv == Init => HInv
<1> SUFFICES ASSUME Init PROVE HInv
  OBVIOUS
<1>1. /\ heap = InitialHeap /\ total = 0 /\ ptr = [p \in Ptr |-> Null] /\ call = [p \in Ptr |-> None]
      /\ delayed = <<>> /\ collecting = Null /\ raced = FALSE
  BY DEF Init
<1>2. HeapInv(heap, total, ptr, call, delayed, collecting, data, raced)
  BY <1>1, FirstInv
<1> QED BY <1>2 DEF HInv

LEMMA MallocHInv ==
    ASSUME HInv, NEW p \in Ptr, NEW n \in Request, Malloc(p, n)
    PROVE  HInv'
<1>1. n \in Nat /\ n > 0
  BY Requests
<1>2. PICK s : s = n + SIZEOF_MM_ALLOCNODE
  OBVIOUS
<1>3. PICK a : a = Found(heap, s)
  OBVIOUS
<1>4. PICK h : h = mm_malloc(heap, s)
  OBVIOUS
<1>5. /\ call[p] = None /\ ptr[p] = Null /\ Fitting(heap, s) # {} /\ heap' = h /\ total' = total + h.node[a].size
      /\ Got(p, a, 0, n, h, Under(h, data))
      /\ call' = call /\ delayed' = delayed /\ collecting' = collecting /\ raced' = raced
  BY <1>2, <1>3, <1>4 DEF Malloc, Ready
<1>6. PICK d : d = Under(h, data)
  OBVIOUS
<1>7. ptr' = Updated(ptr, p, Block(a, n)) /\ data' = GotTo(d, a, h.node[a].size, 0, n, p)
  BY <1>5, <1>6, GotValues
<1>8. HeapInv(heap, total, ptr, call, delayed, collecting, data, raced)
  BY DEF HInv
<1>9. HeapOk(heap)
  BY <1>8, InvParts
<1>10. s \in Nat /\ s > 0 /\ s = n + 1
  BY <1>1, <1>2 DEF SIZEOF_MM_ALLOCNODE
<1>11. Gained(h, heap, a) /\ h.node[a].size >= s
  BY <1>3, <1>4, <1>5, <1>9, <1>10, MallocGains
<1>12. h.node[a].size >= n + 1
  BY <1>10, <1>11
<1>13. PICK f2 : f2 = Updated(ptr, p, Block(a, n))
  OBVIOUS
<1>14. PICK t2 : t2 = total + h.node[a].size
  OBVIOUS
<1>15. PICK d3 : d3 = GotTo(d, a, h.node[a].size, 0, n, p)
  OBVIOUS
<1>16. call[p] = None
  BY <1>5
<1>17. ptr[p] = Null
  BY <1>5
<1>18. Gained(h, heap, a)
  BY <1>11
<1>19. HeapInv(h, t2, f2, call, delayed, collecting, d3, raced)
  BY <1>1, <1>6, <1>8, <1>12, <1>13, <1>14, <1>15, <1>16, <1>17, <1>18, MallocStep
<1>20. heap' = h /\ total' = t2 /\ ptr' = f2 /\ data' = d3
  BY <1>5, <1>7, <1>13, <1>14, <1>15
<1> QED BY <1>5, <1>19, <1>20 DEF HInv

LEMMA FreeHInv ==
    ASSUME HInv, NEW p \in Ptr, Free(p)
    PROVE  HInv'
<1>1. PICK a : a = Chunk(p)
  OBVIOUS
<1>2. PICK d : d = Filled(data, Payload(a, heap.node[a].size - SIZEOF_MM_ALLOCNODE), Junk)
  OBVIOUS
<1>3. PICK h : h = mm_free(heap, a)
  OBVIOUS
<1>4. PICK d3 : d3 = Under(h, d)
  OBVIOUS
<1>5. PICK t2 : t2 = total - heap.node[a].size
  OBVIOUS
<1>6. PICK f2 : f2 = Updated(ptr, p, Null)
  OBVIOUS
<1>7. /\ call[p] = None /\ ptr[p] # Null /\ heap' = h /\ total' = t2 /\ data' = d3 /\ ptr' = f2
      /\ call' = call /\ delayed' = delayed /\ collecting' = collecting /\ raced' = raced
  BY <1>1, <1>2, <1>3, <1>4, <1>5, <1>6 DEF Free, FreeChunk, Ready, Updated
<1>8. HeapInv(heap, total, ptr, call, delayed, collecting, data, raced)
  BY DEF HInv
<1>9. a = ptr[p].mem
  BY <1>1 DEF Chunk
<1>10. HeapInv(h, t2, f2, call, delayed, collecting, d3, raced)
  BY <1>2, <1>3, <1>4, <1>5, <1>6, <1>7, <1>8, <1>9, FreeStep
<1> QED BY <1>7, <1>10 DEF HInv

LEMMA UfreeHInv ==
    ASSUME HInv, NEW p \in Ptr, UfreeDelayed(p)
    PROVE  HInv'
<1>1. PICK a : a = Chunk(p)
  OBVIOUS
<1>2. PICK d : d = Filled(data, Payload(a, heap.node[a].size - SIZEOF_MM_ALLOCNODE), Junk)
  OBVIOUS
<1>3. PICK q : q = Append(delayed, a)
  OBVIOUS
<1>4. PICK f2 : f2 = Updated(ptr, p, Null)
  OBVIOUS
<1>5. /\ call[p] = None /\ ptr[p] # Null /\ delayed' = q /\ data' = d /\ ptr' = f2
      /\ heap' = heap /\ total' = total /\ call' = call /\ collecting' = collecting /\ raced' = raced
  BY <1>1, <1>2, <1>3, <1>4 DEF UfreeDelayed, Ready, Updated, ChunkSize
<1>6. HeapInv(heap, total, ptr, call, delayed, collecting, data, raced)
  BY DEF HInv
<1>7. a = ptr[p].mem
  BY <1>1 DEF Chunk
<1>8. HeapInv(heap, total, f2, call, q, collecting, d, raced)
  BY <1>2, <1>3, <1>4, <1>5, <1>6, <1>7, UfreeStep
<1> QED BY <1>5, <1>8 DEF HInv

LEMMA CollectNextHInv == ASSUME HInv, CollectNext PROVE HInv'
<1>1. PICK a : a = Head(delayed)
  OBVIOUS
<1>2. PICK q : q = Tail(delayed)
  OBVIOUS
<1>3. /\ collecting = Null /\ delayed # <<>> /\ collecting' = a /\ delayed' = q
      /\ heap' = heap /\ total' = total /\ ptr' = ptr /\ data' = data /\ call' = call /\ raced' = raced
  BY <1>1, <1>2 DEF CollectNext
<1>4. HeapInv(heap, total, ptr, call, delayed, Null, data, raced)
  BY <1>3 DEF HInv
<1>5. HeapInv(heap, total, ptr, call, q, a, data, raced)
  BY <1>1, <1>2, <1>3, <1>4, CollectNextStep
<1> QED BY <1>3, <1>5 DEF HInv

LEMMA CollectFreeHInv == ASSUME HInv, CollectFree PROVE HInv'
<1>1. PICK a : a = collecting
  OBVIOUS
<1>2. PICK d : d = Filled(data, Payload(a, heap.node[a].size - SIZEOF_MM_ALLOCNODE), Junk)
  OBVIOUS
<1>3. PICK h : h = mm_free(heap, a)
  OBVIOUS
<1>4. PICK d3 : d3 = Under(h, d)
  OBVIOUS
<1>5. PICK t2 : t2 = total - heap.node[a].size
  OBVIOUS
<1>6. /\ a # Null /\ heap' = h /\ total' = t2 /\ data' = d3 /\ collecting' = Null
      /\ ptr' = ptr /\ call' = call /\ delayed' = delayed /\ raced' = raced
  BY <1>1, <1>2, <1>3, <1>4, <1>5 DEF CollectFree, FreeChunk
<1>7. HeapInv(heap, total, ptr, call, delayed, a, data, raced)
  BY <1>1 DEF HInv
<1>8. HeapInv(h, t2, ptr, call, delayed, Null, d3, raced)
  BY <1>2, <1>3, <1>4, <1>5, <1>6, <1>7, CollectFreeStep
<1> QED BY <1>6, <1>8 DEF HInv

LEMMA ShrinkHInv ==
    ASSUME HInv, NEW p \in Ptr, NEW n \in Request, ReallocShrink(p, n)
    PROVE  HInv'
<1>1. n \in Nat /\ n > 0
  BY Requests
<1>2. PICK a : a = Chunk(p)
  OBVIOUS
<1>3. PICK s : s = n + SIZEOF_MM_ALLOCNODE
  OBVIOUS
<1>4. PICK h : h = IF s < heap.node[a].size THEN mm_shrinkchunk(heap, a, s) ELSE heap
  OBVIOUS
<1>5. PICK had : had = ptr[p].want
  OBVIOUS
<1>6. PICK d : d = Under(h, data)
  OBVIOUS
<1>7. PICK t2 : t2 = (total - heap.node[a].size) + h.node[a].size
  OBVIOUS
<1>8. /\ call[p] = None /\ ptr[p] # Null /\ s <= heap.node[a].size /\ heap' = h /\ total' = t2
      /\ Got(p, a, had, n, h, d)
      /\ call' = call /\ delayed' = delayed /\ collecting' = collecting /\ raced' = raced
  BY <1>2, <1>3, <1>4, <1>5, <1>6, <1>7 DEF ReallocShrink, Ready, ChunkSize
<1>9. PICK f2 : f2 = Updated(ptr, p, Block(a, n))
  OBVIOUS
<1>10. PICK d3 : d3 = GotTo(d, a, h.node[a].size, had, n, p)
  OBVIOUS
<1>11. ptr' = f2 /\ data' = d3
  BY <1>8, <1>9, <1>10, GotValues
<1>12. HeapInv(heap, total, ptr, call, delayed, collecting, data, raced)
  BY DEF HInv
<1>13. a = ptr[p].mem
  BY <1>2 DEF Chunk
<1>14. HeapOk(heap)
  BY <1>12, InvParts
<1>15. a \in Blocks(heap.node)
  <2>1. PICK S : S = Ptr \ {p}
    OBVIOUS
  <2> QED BY <1>8, <1>12, <1>13, <2>1, RestOfPtr
<1>16. s \in Nat /\ 0 < s /\ s = n + 1
  BY <1>1, <1>3 DEF SIZEOF_MM_ALLOCNODE
<1>17. Moved(h, heap, a, a) /\ Calm(h, heap) /\ h.node[a].size >= s
  BY <1>4, <1>8, <1>14, <1>15, <1>16, Shrunk
<1>18. h.node[a].size >= n + 1
  BY <1>16, <1>17, Zenon
<1>19. HeapInv(h, t2, f2, call, delayed, collecting, d3, raced)
  BY <1>1, <1>5, <1>6, <1>7, <1>8, <1>9, <1>10, <1>12, <1>13, <1>17, <1>18, ShrinkStep
<1> QED BY <1>8, <1>11, <1>19 DEF HInv

LEMMA GrowHInv ==
    ASSUME HInv, NEW p \in Ptr, NEW n \in Request, ReallocGrow(p, n)
    PROVE  HInv'
<1>1. n \in Nat /\ n > 0
  BY Requests
<1>2. PICK a : a = Chunk(p)
  OBVIOUS
<1>3. PICK x : x = FreeSize(heap, Prev_(heap, a))
  OBVIOUS
<1>4. PICK y : y = FreeSize(heap, Nx(heap.node, a))
  OBVIOUS
<1>4a. PICK k : k = (n + 1) - heap.node[a].size
  OBVIOUS
<1>5. PICK t : t = Takes(x, y, k)
  OBVIOUS
<1>6. PICK u : u = t.prev
  OBVIOUS
<1>7. PICK v : v = t.next
  OBVIOUS
<1>8. PICK r : r = TakePrev(heap, a, u)
  OBVIOUS
<1>9. PICK hd : hd = r.heap
  OBVIOUS
<1>10. PICK b : b = r.at
  OBVIOUS
<1>11. PICK h : h = TakeNext(hd, b, v)
  OBVIOUS
<1>12. PICK had : had = ptr[p].want
  OBVIOUS
<1>13. PICK d1 : d1 = Brought(data, hd, b, a, u)
  OBVIOUS
<1>14. PICK d2 : d2 = Under(h, d1)
  OBVIOUS
<1>15. PICK t2 : t2 = (total - heap.node[a].size) + h.node[b].size
  OBVIOUS
<1>16. Next_(heap, a) = Nx(heap.node, a)
  BY DEF Next_, Nx
<1>17. n + SIZEOF_MM_ALLOCNODE = n + 1
  BY DEF SIZEOF_MM_ALLOCNODE
<1>18. ChunkSize(p) = heap.node[a].size
  BY <1>2 DEF ChunkSize
<1>19. Room(p) = (y + x) + heap.node[a].size
  BY <1>2, <1>3, <1>4, <1>16, <1>18 DEF Room
<1>20. Takes(FreeSize(heap, Prev_(heap, a)), FreeSize(heap, Next_(heap, a)), (n + SIZEOF_MM_ALLOCNODE) - ChunkSize(p)) = t
  <2>1. FreeSize(heap, Next_(heap, a)) = y
    BY <1>4, <1>16, Zenon
  <2>2. (n + SIZEOF_MM_ALLOCNODE) - ChunkSize(p) = k
    BY <1>4a, <1>17, <1>18, Zenon
  <2> QED BY <1>3, <1>5, <2>1, <2>2, Zenon
<1>21. /\ call[p] = None /\ ptr[p] # Null /\ n + 1 > heap.node[a].size /\ (y + x) + heap.node[a].size >= n + 1
       /\ heap' = h /\ total' = t2
       /\ Got(p, b, had, n, h, d2)
       /\ call' = call /\ delayed' = delayed /\ collecting' = collecting /\ raced' = raced
  BY <1>2, <1>6, <1>7, <1>8, <1>9, <1>10, <1>11, <1>12, <1>13, <1>14, <1>15, <1>17, <1>18, <1>19, <1>20, Zenon
  DEF ReallocGrow, Ready, Brought
<1>22. PICK f2 : f2 = Updated(ptr, p, Block(b, n))
  OBVIOUS
<1>23. PICK d3 : d3 = GotTo(d2, b, h.node[b].size, had, n, p)
  OBVIOUS
<1>24. ptr' = f2 /\ data' = d3
  BY <1>21, <1>22, <1>23, GotValues
<1>25. HeapInv(heap, total, ptr, call, delayed, collecting, data, raced)
  BY DEF HInv
<1>26. a = ptr[p].mem
  BY <1>2 DEF Chunk
<1>27. HeapOk(heap) /\ Tiled(heap.node)
  BY <1>25, InvParts
<1>28. a \in Blocks(heap.node)
  <2>1. PICK S : S = Ptr \ {p}
    OBVIOUS
  <2> QED BY <1>21, <1>25, <1>26, <2>1, RestOfPtr
<1>29. heap.node[a].size \in Nat /\ x \in Nat /\ y \in Nat
  BY <1>3, <1>4, <1>27, <1>28, FreeSizes
<1>30. heap.node[a].size < n + 1 /\ n + 1 <= (y + x) + heap.node[a].size
  BY <1>1, <1>21, <1>29
<1>31. /\ u \in Nat /\ v \in Nat /\ u <= x /\ v <= y
       /\ (heap.node[a].size + u) + v = n + 1
  <2>1. heap.node[a].size < n + 1
    BY <1>30
  <2>2. n + 1 <= (y + x) + heap.node[a].size
    BY <1>30
  <2>3. Enough(t, x, y, heap.node[a].size, n)
    BY <1>1, <1>3, <1>4, <1>5, <1>27, <1>28, <1>4a, <2>1, <2>2, GrowTakes
  <2> QED BY <1>6, <1>7, <2>3 DEF Enough
<1>32. u <= FreeSize(heap, Prev_(heap, a)) /\ v <= FreeSize(heap, Nx(heap.node, a))
  BY <1>3, <1>4, <1>31
<1>33. Grown(h, hd, heap, a, b, u, n)
  BY <1>1, <1>8, <1>9, <1>10, <1>11, <1>27, <1>28, <1>31, <1>32, GrowBoth
<1>34. HeapInv(h, t2, f2, call, delayed, collecting, d3, raced)
  BY <1>1, <1>12, <1>13, <1>14, <1>15, <1>21, <1>22, <1>23, <1>25, <1>26, <1>31, <1>33, GrowStep
<1> QED BY <1>21, <1>24, <1>34 DEF HInv

LEMMA MoveHInv ==
    ASSUME HInv, NEW p \in Ptr, NEW n \in Request, ReallocMove(p, n)
    PROVE  HInv'
<1>1. n \in Nat /\ n > 0
  BY Requests
<1>2. PICK s : s = n + 2 * SIZEOF_MM_ALLOCNODE
  OBVIOUS
<1>3. PICK a : a = Found(heap, s)
  OBVIOUS
<1>4. PICK h : h = mm_malloc(heap, s)
  OBVIOUS
<1>5. PICK o : o = ptr[p].mem
  OBVIOUS
<1>6. PICK k : k = [kind |-> "realloc", mem |-> a, want |-> n, oldsize |-> heap.node[o].size]
  OBVIOUS
<1>7. PICK c2 : c2 = Updated(call, p, k)
  OBVIOUS
<1>8. PICK d : d = Under(h, data)
  OBVIOUS
<1>9. PICK t2 : t2 = total + h.node[a].size
  OBVIOUS
<1>10. ChunkSize(p) = heap.node[o].size
  BY <1>5 DEF ChunkSize, Chunk
<1>11. /\ call[p] = None /\ ptr[p] # Null /\ n + 1 > heap.node[o].size /\ Fitting(heap, s) # {}
       /\ heap' = h /\ total' = t2 /\ data' = d /\ call' = c2
       /\ ptr' = ptr /\ delayed' = delayed /\ collecting' = collecting /\ raced' = raced
  BY <1>2, <1>3, <1>4, <1>6, <1>7, <1>8, <1>9, <1>10 DEF ReallocMove, Ready, Updated, SIZEOF_MM_ALLOCNODE
<1>12. HeapInv(heap, total, ptr, call, delayed, collecting, data, raced)
  BY DEF HInv
<1>13. HeapOk(heap)
  BY <1>12, InvParts
<1>14. s \in Nat /\ s > 0 /\ s = n + 2
  BY <1>1, <1>2 DEF SIZEOF_MM_ALLOCNODE
<1>15. Gained(h, heap, a) /\ h.node[a].size >= s
  BY <1>3, <1>4, <1>11, <1>13, <1>14, MallocGains
<1>16. o \in Blocks(heap.node)
  <2>1. PICK S : S = Ptr \ {p}
    OBVIOUS
  <2> QED BY <1>5, <1>11, <1>12, <2>1, RestOfPtr
<1>17. h.node[o].size = heap.node[o].size /\ heap.node[o].size \in Nat
  <2>1. h.node[o].size = heap.node[o].size
    BY <1>15, <1>16 DEF Gained
  <2>2. heap.node[o].size \in Nat
    BY <1>13, <1>16, HeapOkParts, BlocksOf
  <2> QED BY <2>1, <2>2
<1>18. k.kind = "realloc" /\ k.mem = a /\ k.want = n /\ k.oldsize = heap.node[o].size
  BY <1>6
<1>19. k # None
  BY <1>18 DEF None
<1>20. CallOk(h.node, ptr[p], k)
  <2>1. k.oldsize = h.node[ptr[p].mem].size
    BY <1>5, <1>17, <1>18
  <2>2. k.oldsize <= k.want
    BY <1>1, <1>11, <1>17, <1>18
  <2>3. h.node[k.mem].size >= k.want + 2
    BY <1>14, <1>15, <1>18
  <2> QED BY <1>1, <1>11, <1>18, <2>1, <2>2, <2>3 DEF CallOk
<1>21. HeapInv(h, t2, ptr, c2, delayed, collecting, d, raced)
  BY <1>7, <1>8, <1>9, <1>11, <1>12, <1>15, <1>18, <1>19, <1>20, CallStep
<1> QED BY <1>11, <1>21 DEF HInv

LEMMA MemalignHInv ==
    ASSUME HInv, NEW p \in Ptr, NEW n \in Request, NEW al \in Alignment, Memalign(p, al, n)
    PROVE  HInv'
<1>1. n \in Nat /\ n > 0
  BY Requests
<1>2. al \in Nat
  BY HeapConstants
<1>3. PICK s : s = n + 2 * al + SIZEOF_MM_ALLOCNODE
  OBVIOUS
<1>4. PICK a : a = Found(heap, s)
  OBVIOUS
<1>5. PICK h : h = mm_malloc(heap, s)
  OBVIOUS
<1>6. PICK k : k = [kind |-> "memalign", mem |-> a, want |-> n, al |-> al]
  OBVIOUS
<1>7. PICK c2 : c2 = Updated(call, p, k)
  OBVIOUS
<1>8. PICK d : d = Under(h, data)
  OBVIOUS
<1>9. PICK t2 : t2 = total + h.node[a].size
  OBVIOUS
<1>10. /\ call[p] = None /\ ptr[p] = Null /\ Fitting(heap, s) # {}
       /\ heap' = h /\ total' = t2 /\ data' = d /\ call' = c2
       /\ ptr' = ptr /\ delayed' = delayed /\ collecting' = collecting /\ raced' = raced
  BY <1>3, <1>4, <1>5, <1>6, <1>7, <1>8, <1>9 DEF Memalign, Ready, Updated
<1>11. HeapInv(heap, total, ptr, call, delayed, collecting, data, raced)
  BY DEF HInv
<1>12. HeapOk(heap)
  BY <1>11, InvParts
<1>13. s \in Nat /\ s > 0 /\ s = n + 2 * al + 1
  BY <1>1, <1>2, <1>3 DEF SIZEOF_MM_ALLOCNODE
<1>14. Gained(h, heap, a) /\ h.node[a].size >= s
  BY <1>4, <1>5, <1>10, <1>12, <1>13, MallocGains
<1>15. k.kind = "memalign" /\ k.mem = a /\ k.want = n /\ k.al = al
  BY <1>6
<1>16. k # None
  BY <1>15 DEF None
<1>17. CallOk(h.node, ptr[p], k)
  <2>1. h.node[k.mem].size >= k.want + 2 * k.al + 1
    BY <1>13, <1>14, <1>15
  <2> QED BY <1>1, <1>10, <1>15, <2>1 DEF CallOk
<1>18. HeapInv(h, t2, ptr, c2, delayed, collecting, d, raced)
  BY <1>7, <1>8, <1>9, <1>10, <1>11, <1>14, <1>15, <1>16, <1>17, CallStep
<1> QED BY <1>10, <1>18 DEF HInv

LEMMA ReallocFreeHInv ==
    ASSUME HInv, NEW p \in Ptr, ReallocFree(p)
    PROVE  HInv'
<1>1. PICK o : o = ptr[p].mem
  OBVIOUS
<1>2. PICK a : a = call[p].mem
  OBVIOUS
<1>3. PICK z : z = call[p].oldsize
  OBVIOUS
<1>4. PICK had : had = ptr[p].want
  OBVIOUS
<1>5. PICK w : w = call[p].want
  OBVIOUS
<1>6. PICK h : h = mm_free(heap, o)
  OBVIOUS
<1>7. PICK t2 : t2 = total - heap.node[o].size
  OBVIOUS
<1>8. PICK f2 : f2 = Updated(ptr, p, Block(a, w))
  OBVIOUS
<1>9. PICK c2 : c2 = Updated(call, p, None)
  OBVIOUS
<1>10. PICK d1 : d1 = Copied(data, a, o, z)
  OBVIOUS
<1>11. PICK d2 : d2 = Filled(d1, Payload(o, heap.node[o].size - SIZEOF_MM_ALLOCNODE), Junk)
  OBVIOUS
<1>12. PICK d3 : d3 = Under(h, d2)
  OBVIOUS
<1>13. PICK d4 : d4 = GotTo(d3, a, h.node[a].size, had, w, p)
  OBVIOUS
<1>14. ChunkSize(p) = heap.node[o].size /\ Chunk(p) = o
  BY <1>1 DEF ChunkSize, Chunk
<1>15. /\ call[p].kind = "realloc" /\ heap' = h /\ total' = t2 /\ Got(p, a, had, w, h, d3) /\ call' = c2
       /\ delayed' = delayed /\ collecting' = collecting /\ raced' = raced
  <2>1. /\ call[p].kind = "realloc" /\ heap' = h /\ total' = t2 /\ call' = c2
        /\ delayed' = delayed /\ collecting' = collecting /\ raced' = raced
    BY <1>6, <1>7, <1>9, <1>14 DEF ReallocFree, Updated
  <2>2. Got(p, a, had, w, heap',
            Under(heap', Filled(Copied(data, a, o, z), Payload(o, heap.node[o].size - SIZEOF_MM_ALLOCNODE), Junk)))
    BY <1>2, <1>3, <1>4, <1>5, <1>14 DEF ReallocFree
  <2>3. Got(p, a, had, w, heap', d3)
    BY <1>10, <1>11, <1>12, <2>1, <2>2
  <2>4. Got(p, a, had, w, h, d3)
    BY <2>1, <2>3 DEF Got
  <2> QED BY <2>1, <2>4
<1>16. ptr' = f2 /\ data' = d4
  <2>1. ptr' = Updated(ptr, p, Block(a, w)) /\ data' = GotTo(d3, a, h.node[a].size, had, w, p)
    BY <1>15, GotValues
  <2> QED BY <1>8, <1>13, <2>1
<1>17. HeapInv(heap, total, ptr, call, delayed, collecting, data, raced)
  BY DEF HInv
<1>18. HeapInv(h, t2, f2, c2, delayed, collecting, d4, raced)
  <2>1. Moving(heap, total, ptr, call, delayed, collecting, data, raced, p, o, a, z, had, w)
    BY <1>1, <1>2, <1>3, <1>4, <1>5, <1>15, <1>17 DEF Moving
  <2>2. Refreed(heap, total, ptr, call, data, p, o, a, z, had, w, h, t2, f2, c2, d1, d2, d3, d4)
    BY <1>6, <1>7, <1>8, <1>9, <1>10, <1>11, <1>12, <1>13 DEF Refreed
  <2> QED BY <2>1, <2>2, ReallocFreeStep
<1> QED BY <1>15, <1>16, <1>18 DEF HInv

LEMMA TrimHInv ==
    ASSUME HInv, NEW p \in Ptr, MemalignTrim(p)
    PROVE  HInv'
<1>1. PICK a : a = call[p].mem
  OBVIOUS
<1>2. PICK w : w = call[p].want
  OBVIOUS
<1>3. PICK al : al = call[p].al
  OBVIOUS
<1>4. PICK at : at = AlignedChunk(a, al) - SIZEOF_MM_ALLOCNODE
  OBVIOUS
<1>5. PICK hc : hc = IF at = a THEN heap ELSE Carve(heap, a, at + SIZEOF_MM_ALLOCNODE)
  OBVIOUS
<1>6. PICK h : h = IF hc.node[at].size - SIZEOF_MM_ALLOCNODE > w
                     THEN mm_shrinkchunk(hc, at, w + SIZEOF_MM_ALLOCNODE) ELSE hc
  OBVIOUS
<1>7. PICK t2 : t2 = (total - heap.node[a].size) + h.node[at].size
  OBVIOUS
<1>8. PICK f2 : f2 = Updated(ptr, p, Block(at, w))
  OBVIOUS
<1>9. PICK c2 : c2 = Updated(call, p, None)
  OBVIOUS
<1>10. PICK d : d = Under(h, data)
  OBVIOUS
<1>11. PICK d3 : d3 = GotTo(d, at, h.node[at].size, 0, w, p)
  OBVIOUS
<1>12. /\ call[p].kind = "memalign" /\ heap' = h /\ total' = t2 /\ Got(p, at, 0, w, h, d) /\ call' = c2
       /\ delayed' = delayed /\ collecting' = collecting
  <2>1. call[p].kind = "memalign" /\ call' = c2 /\ delayed' = delayed /\ collecting' = collecting
    BY <1>9, Zenon DEF MemalignTrim, Updated
  <2>2. heap' = h
    BY <1>1, <1>2, <1>3, <1>4, <1>5, <1>6, Zenon DEF MemalignTrim
  <2>3. total' = t2
    BY <1>1, <1>2, <1>3, <1>4, <1>5, <1>6, <1>7, ZenonT(30) DEF MemalignTrim
  <2>4. Got(p, at, 0, w, h, d)
    BY <1>1, <1>2, <1>3, <1>4, <1>5, <1>6, <1>10, ZenonT(30) DEF MemalignTrim
  <2> QED BY <2>1, <2>2, <2>3, <2>4, Zenon
<1>13. raced' = (raced \/ (at # a /\ IsFree(heap, Prev_(heap, a))))
  BY <1>1, <1>3, <1>4, Zenon DEF MemalignTrim
<1>14. RacedSince(raced', raced, heap, a, at)
  BY <1>13, Zenon DEF IsFree, RacedSince
<1>15. ptr' = f2 /\ data' = d3
  BY <1>8, <1>11, <1>12, GotValues
<1>16. HeapInv(heap, total, ptr, call, delayed, collecting, data, raced)
  BY DEF HInv
<1>17. HeapOk(heap) /\ CallsOk(Ptr, heap.node, ptr, call)
  BY <1>16, InvParts
<1>18. call[p] # None
  BY <1>12 DEF None
<1>19. CallOk(heap.node, ptr[p], call[p])
  BY <1>17, <1>18 DEF CallsOk
<1>20. ptr[p] = Null /\ w \in Nat /\ al \in Alignment /\ heap.node[a].size >= w + 2 * al + 1
  BY <1>1, <1>2, <1>3, <1>12, <1>19 DEF CallOk
<1>21. a \in Blocks(heap.node)
  <2>1. PICK S : S = Ptr \ {p}
    OBVIOUS
  <2> QED BY <1>1, <1>16, <1>18, <2>1, RestOfCall
<1>22. a \in Nat /\ heap.node[a].size \in Nat
  BY <1>17, <1>21, HeapOkParts, BlocksOf
<1>23. al \in Nat /\ al > 1 /\ at \in Nat /\ a <= at /\ at <= (a + al) - 1
  BY <1>4, <1>20, <1>22, AlignedNear
<1>24. at + (w + 1) <= Nx(heap.node, a)
  BY <1>20, <1>22, <1>23 DEF Nx
<1>25. Trimmed(h, heap, a, at, w)
  BY <1>5, <1>6, <1>17, <1>20, <1>21, <1>23, <1>24, TrimMoves
<1>26. PICK ra2 : ra2 = raced'
  OBVIOUS
<1>27. RacedSince(ra2, raced, heap, a, at)
  BY <1>14, <1>26, Zenon
<1>28. ptr[p] = Null /\ w \in Nat
  BY <1>20
<1>29. HeapInv(h, t2, f2, c2, delayed, collecting, d3, ra2)
  BY <1>1, <1>7, <1>8, <1>9, <1>10, <1>11, <1>16, <1>18, <1>25, <1>27, <1>28, TrimStep
<1> QED BY <1>12, <1>15, <1>26, <1>29 DEF HInv

(***************************************************************************)
(* mm_malloc, mm_free, mm_realloc, mm_memalign, sched_ufree and            *)
(* sched_garbagecollection keep the heap in order, whatever the requests   *)
(* and the interleaving of the calls that let go of the heap semaphore:    *)
(* the conjuncts of HInv hold together after every step.                   *)
(***************************************************************************)
THEOREM HeapInvariant == Spec => []HInv
<1>1. HInv /\ [Next]_vars => HInv'
  <2> SUFFICES ASSUME HInv, [Next]_vars PROVE HInv'
    OBVIOUS
  <2>1. CASE \E p \in Ptr, n \in Request : Malloc(p, n)
    BY <2>1, MallocHInv
  <2>2. CASE \E p \in Ptr, n \in Request : ReallocShrink(p, n)
    BY <2>2, ShrinkHInv
  <2>3. CASE \E p \in Ptr, n \in Request : ReallocGrow(p, n)
    BY <2>3, GrowHInv
  <2>4. CASE \E p \in Ptr, n \in Request : ReallocMove(p, n)
    BY <2>4, MoveHInv
  <2>5. CASE \E p \in Ptr, n \in Request, al \in Alignment : Memalign(p, al, n)
    BY <2>5, MemalignHInv
  <2>6. CASE \E p \in Ptr : ReallocFree(p)
    BY <2>6, ReallocFreeHInv
  <2>7. CASE \E p \in Ptr : MemalignTrim(p)
    BY <2>7, TrimHInv
  <2>8. CASE \E p \in Ptr : Free(p)
    BY <2>8, FreeHInv
  <2>9. CASE \E p \in Ptr : UfreeDelayed(p)
    BY <2>9, UfreeHInv
  <2>10. CASE CollectNext
    BY <2>10, CollectNextHInv
  <2>11. CASE CollectFree
    BY <2>11, CollectFreeHInv
  <2>12. CASE UNCHANGED vars
    BY <2>12 DEF vars, HInv
  <2> QED BY <2>1, <2>2, <2>3, <2>4, <2>5, <2>6, <2>7, <2>8, <2>9, <2>10, <2>11, <2>12 DEF Next
<1> QED BY <1>1, InitHInv, PTL DEF Spec

LEMMA HInvParts ==
    ASSUME HInv
    PROVE  /\ HeapOk(heap) /\ Tiled(heap.node) /\ Sound(heap, total, raced) /\ Typed(ptr, call, delayed)
           /\ Exact(Books(ptr, call, delayed, collecting), Blocks(heap.node))
           /\ Intact(Ptr, heap.node, ptr, data)
<1>1. HeapInv(heap, total, ptr, call, delayed, collecting, data, raced)
  BY DEF HInv
<1> QED BY <1>1, InvParts

\* What the properties call chunks are the nodes of the heap.
LEMMA ChunkNames ==
    /\ Chunks = DOMAIN heap.node /\ FreeChunks = FreeOf(heap.node)
    /\ \A a : Next_(heap, a) = Nx(heap.node, a)
    /\ \A a : IsFree(heap, a) <=> ~heap.node[a].allocated
  BY DEF Chunks, FreeChunks, FreeOf, IsFree, Next_, Nx

(***************************************************************************)
(* The headers tile the heap after any sequence of calls, however large    *)
(* the heap and however its free lists are cut: mm_malloc.c and the other  *)
(* calls leave no gap, no overlap and no stale size of a preceding chunk.  *)
(***************************************************************************)
THEOREM HeapTiled == Spec => []ChunksTile
<1>1. HInv => ChunksTile
  <2> SUFFICES ASSUME HInv PROVE ChunksTile
    OBVIOUS
  <2>1. PICK n : n = heap.node
    OBVIOUS
  <2>2. Tiled(n)
    BY <2>1, HInvParts
  <2>3. Chunks = DOMAIN n /\ (\A a : Next_(heap, a) = Nx(n, a)) /\ (\A a : IsFree(heap, a) <=> ~n[a].allocated)
    BY <2>1, ChunkNames
  <2>4. heapbase \in Chunks /\ heapend \in Chunks /\ Chunks \subseteq Addr
    BY <2>2, <2>3 DEF Tiled, IsNodes
  <2>5. \A a \in Chunks : heap.node[a].size > 0
    BY <2>1, <2>2, <2>3 DEF Tiled, IsNodes
  <2>6. ASSUME NEW a \in Chunks \ {heapend}
        PROVE  /\ Next_(heap, a) \in Chunks
               /\ \A b \in Chunks : ~(a < b /\ b < Next_(heap, a))
               /\ heap.node[Next_(heap, a)].preceding = heap.node[a].size
    <3>1. Nx(n, a) \in DOMAIN n /\ n[Nx(n, a)].preceding = n[a].size
      BY <2>2, <2>3, <2>6 DEF Tiled
    <3>2. Nx(n, a) \in Nat
      BY <2>2, <3>1, TiledTypes
    <3>3. ASSUME NEW b \in Chunks, a < b PROVE ~(b < Nx(n, a))
      <4>1. Nx(n, a) <= b
        BY <2>2, <2>3, <2>6, <3>3 DEF Tiled
      <4>2. b \in Nat
        BY <2>2, <2>3, TiledTypes
      <4> QED BY <3>2, <4>1, <4>2
    <3> QED BY <2>1, <2>3, <3>1, <3>3
  <2>7. ~IsFree(heap, heapbase) /\ ~IsFree(heap, heapend)
    BY <2>2, <2>3 DEF Tiled
  <2> QED BY <2>4, <2>5, <2>6, <2>7 DEF ChunksTile
<1> QED BY <1>1, HeapInvariant, PTL

(***************************************************************************)
(* Every free chunk is on the list of its size, once, and each list is in  *)
(* order: what mm_addfreechunk.c and the unlinking in every call promise   *)
(* to the search of mm_malloc.c.                                           *)
(***************************************************************************)
THEOREM HeapListsExact == Spec => []FreeListsExact
<1>1. HInv => FreeListsExact
  <2> SUFFICES ASSUME HInv, NEW i \in Index, NEW q, q = heap.nodelist[i]
               PROVE  /\ ToSet(q) = {a \in FreeChunks : mm_size2ndx(heap.node[a].size) = i}
                      /\ \A j, k \in DOMAIN q : q[j] = q[k] => j = k
                      /\ \A j, k \in DOMAIN q : j <= k => heap.node[q[j]].size <= heap.node[q[k]].size
    BY DEF FreeListsExact
  <2>1. Linked(heap.nodelist, FreeOf(heap.node), heap.node)
    BY HInvParts, HeapOkParts
  <2>2. InList(q, FreeOf(heap.node), heap.node, i)
    BY <2>1 DEF Linked
  <2>3. q \in Seq(Addr) /\ IsInjective(q) /\ Sorted(q, heap.node)
    BY <2>2 DEF InList
  <2>4. ToSet(q) = {x \in FreeOf(heap.node) : mm_size2ndx(heap.node[x].size) = i}
    BY <2>2 DEF InList
  <2>5. \A j, k \in DOMAIN q : q[j] = q[k] => j = k
    BY <2>3 DEF IsInjective
  <2>6. \A j, k \in DOMAIN q : j <= k => heap.node[q[j]].size <= heap.node[q[k]].size
    BY <2>3 DEF Sorted
  <2> QED BY <2>4, <2>5, <2>6, ChunkNames
<1> QED BY <1>1, HeapInvariant, PTL

(***************************************************************************)
(* mm_malloc.c: for every request, the search finds a chunk when some free *)
(* chunk is large enough, and then the smallest one.                       *)
(***************************************************************************)
THEOREM HeapBestFit == Spec => []BestFit
<1>1. HInv => BestFit
  <2> SUFFICES ASSUME HInv, NEW s \in 2 .. MaxReq + 1, NEW large, large = {a \in FreeChunks : heap.node[a].size >= s}
               PROVE  /\ Fitting(heap, s) = {} <=> large = {}
                      /\ large # {} => /\ Found(heap, s) \in large
                                       /\ \A a \in large : heap.node[Found(heap, s)].size <= heap.node[a].size
    BY DEF BestFit
  <2>1. s \in Nat /\ s > 0
    BY HeapConstants
  <2>2. FindsBest(heap, s)
    BY <2>1, HInvParts, FoundBest
  <2>3. large = Large(heap.node, s)
    BY ChunkNames DEF Large
  <2> QED BY <2>2, <2>3, Zenon DEF FindsBest
<1> QED BY <1>1, HeapInvariant, PTL

(***************************************************************************)
(* mm_free.c and mm_shrinkchunk.c join a free chunk with its free          *)
(* neighbours: two are next to each other only after mm_memalign.c has let *)
(* go of the heap between its parts and the chunk before was freed.        *)
(***************************************************************************)
THEOREM HeapCoalesced == Spec => []Coalesced
<1>1. HInv => Coalesced
  <2> SUFFICES ASSUME HInv, ~raced, NEW a \in FreeChunks PROVE ~IsFree(heap, Next_(heap, a))
    BY DEF Coalesced
  <2>1. NoPairs(heap.node) /\ Tiled(heap.node)
    BY HInvParts DEF Sound
  <2>2. a \in DOMAIN heap.node /\ ~heap.node[a].allocated
    BY ChunkNames DEF FreeOf
  <2>3. a # heapend
    BY <2>1, <2>2 DEF Tiled
  <2>4. heap.node[Nx(heap.node, a)].allocated
    BY <2>1, <2>2, <2>3 DEF NoPairs, Pair
  <2> QED BY <2>4, ChunkNames
<1> QED BY <1>1, HeapInvariant, PTL

(***************************************************************************)
(* Every block has the memory its program asked for and holds what it      *)
(* wrote, also after mm_realloc.c copied it down over itself or into       *)
(* another chunk, with any calls of others in between.                     *)
(***************************************************************************)
THEOREM HeapBlocksIntact == Spec => []BlocksIntact
<1>1. HInv => BlocksIntact
  <2> SUFFICES ASSUME HInv, NEW p \in Ptr, ptr[p] # Null
               PROVE  /\ Chunk(p) \in Chunks
                      /\ ChunkSize(p) >= ptr[p].want + SIZEOF_MM_ALLOCNODE
                      /\ \A g \in Payload(Chunk(p), ptr[p].want) : data[g] = p
    BY DEF BlocksIntact
  <2>1. PICK a : a = ptr[p].mem
    OBVIOUS
  <2>2. HeapInv(heap, total, ptr, call, delayed, collecting, data, raced)
    BY DEF HInv
  <2>3. a \in Blocks(heap.node) /\ Mine(heap.node, ptr[p], data, p)
    <3>1. PICK S : S = Ptr \ {p}
      OBVIOUS
    <3> QED BY <2>1, <2>2, <3>1, RestOfPtr
  <2>4. a \in Chunks
    BY <2>3, HInvParts, BlocksOf, ChunkNames
  <2> QED BY <2>1, <2>3, <2>4 DEF Mine, Chunk, ChunkSize, SIZEOF_MM_ALLOCNODE
<1> QED BY <1>1, HeapInvariant, PTL

(***************************************************************************)
(* No chunk is lost and none has two owners: the allocated chunks are the  *)
(* blocks of programs, of calls on their way, and of the frees that        *)
(* sched_ufree delayed, and total_alloc_size counts them.                  *)
(***************************************************************************)
THEOREM HeapNoLeak == Spec => []NoLeak
<1>1. HInv => NoLeak
  <2> SUFFICES ASSUME HInv PROVE NoLeak
    OBVIOUS
  <2>1. PICK H : H = Holdings
    OBVIOUS
  <2>2. PICK B : B = Blocks(heap.node)
    OBVIOUS
  <2>3. Exact(H, B)
    BY <2>1, <2>2, HInvParts, HoldingsAreBooks
  <2>4. Held = B
    BY <2>1, <2>3 DEF Held, Exact
  <2>5. B = Chunks \ (FreeChunks \cup {heapbase, heapend})
    BY <2>2, ChunkNames DEF Blocks, Alloc, FreeOf
  <2>6. \A x, y \in Holdings : x[3] = y[3] => x = y
    BY <2>1, <2>3 DEF Exact
  <2>7. \A j, k \in DOMAIN delayed : delayed[j] = delayed[k] => j = k
    BY HInvParts DEF Typed, IsInjective
  <2>8. total = Cardinality({g \in Addr : \E a \in Held : a <= g /\ g < Next_(heap, a)})
    <3>1. Cover(heap.node, B) = {g \in Addr : \E a \in Held : a <= g /\ g < Next_(heap, a)}
      BY <2>4, ChunkNames DEF Cover
    <3>2. total = Cardinality(Cover(heap.node, B))
      BY <2>2, HInvParts DEF Sound, Total
    <3> QED BY <3>1, <3>2
  <2> QED BY <2>4, <2>5, <2>6, <2>7, <2>8 DEF NoLeak
<1> QED BY <1>1, HeapInvariant, PTL
=============================================================================
