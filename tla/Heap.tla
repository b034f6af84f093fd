-------------------------------- MODULE Heap --------------------------------
(***************************************************************************)
(* The heap (os/mm/mm_heap): chunks with their size, the size of the chunk *)
(* before and the allocated bit in a header, free chunks on lists by size; *)
(* and the memory that is freed where the heap may not be locked           *)
(* (sched_ufree) and waits for the worker thread.                          *)
(*                                                                         *)
(* Addresses and sizes are in granules of MM_MIN_CHUNK bytes, the unit of  *)
(* every size in the heap.  A header takes SIZEOF_MM_ALLOCNODE or          *)
(* SIZEOF_MM_FREENODE, both one granule in this build.  The heap semaphore *)
(* is held from the first to the last access of a call, so that a call is  *)
(* one step; mm_realloc that moves the block and mm_memalign release it on *)
(* the way and take two, and any other call may come between.              *)
(***************************************************************************)
EXTENDS Naturals, SequencesExt

CONSTANTS
    Ptr,            \* the pointers to memory that programs keep
    Null,
    Junk,           \* contents nobody may rely on
    heapbase,       \* address of the first granule
    heapsize,       \* granules
    MM_NNODES,      \* number of free lists
    MaxReq,         \* largest request
    Alignment       \* alignments asked for, more than a granule

SIZEOF_MM_ALLOCNODE == 1
SIZEOF_MM_FREENODE == 1

\* 1 << k
Pow2[k \in 0 .. MM_NNODES] == IF k = 0 THEN 1 ELSE 2 * Pow2[k - 1]
MM_MAX_CHUNK == Pow2[MM_NNODES - 1]

heapend == heapbase + heapsize - SIZEOF_MM_ALLOCNODE
Addr == heapbase .. heapend
Index == 0 .. MM_NNODES - 1
Request == 1 .. MaxReq

ASSUME HeapConstants ==
    /\ heapbase \in Nat /\ heapsize \in Nat /\ heapsize > 3
    /\ MM_NNODES \in Nat \ {0} /\ MaxReq \in Nat
    /\ Null \notin Nat \cup [mem : Nat, want : Nat]
    /\ Junk \notin Ptr
    /\ \A al \in Alignment : al \in Nat /\ al > 1

VARIABLES
    heap,       \* the headers and the free lists
    total,      \* total_alloc_size
    ptr,        \* the block of a pointer and the granules asked for, or Null
    data,       \* what the granules hold: the pointer whose program wrote them
    call,       \* the call that released the heap semaphore on its way
    delayed,    \* g_delayed_kufree
    collecting, \* what the worker thread took from it
    raced       \* mm_memalign left a free chunk next to one freed meanwhile

vars == <<heap, total, ptr, data, call, delayed, collecting, raced>>

-----------------------------------------------------------------------------
(***************************************************************************)
(* Headers and free lists.                                                 *)
(***************************************************************************)
Header(s, p, a) == [size |-> s, preceding |-> p, allocated |-> a]

\* A header is written at an address, or becomes payload; a field is set.
Write(h, a, header) ==
    [h EXCEPT !.node = [x \in DOMAIN @ \cup {a} |-> IF x = a THEN header ELSE @[x]]]
Drop(h, a) == [h EXCEPT !.node = [x \in DOMAIN @ \ {a} |-> @[x]]]
SetSize(h, a, s) == [h EXCEPT !.node[a].size = s]
SetPreceding(h, a, s) == [h EXCEPT !.node[a].preceding = s]
SetAllocated(h, a, b) == [h EXCEPT !.node[a].allocated = b]

Next_(h, a) == a + h.node[a].size
Prev_(h, a) == a - h.node[a].preceding
IsFree(h, a) == ~h.node[a].allocated

mm_size2ndx(s) ==
    IF s >= MM_MAX_CHUNK
      THEN MM_NNODES - 1
      ELSE CHOOSE k \in Index : Pow2[k] <= s /\ s < Pow2[k + 1]

Unlink(h, a) == [h EXCEPT !.nodelist = [i \in Index |-> RemoveFirst(@[i], a)]]

\* Faulty: the chunk goes to the front of its list, whatever its size.
AddFreeFirst(h, a) ==
    [h EXCEPT !.nodelist[mm_size2ndx(h.node[a].size)] = <<a>> \o @]

\* The chunk goes before the first of its list that is not smaller.
mm_addfreechunk(h, a) ==
    LET i == mm_size2ndx(h.node[a].size)
        k == SelectInSeq(h.nodelist[i], LAMBDA x : h.node[x].size >= h.node[a].size)
    IN  [h EXCEPT !.nodelist[i] = IF k = 0 THEN Append(@, a) ELSE InsertAt(@, k, a)]

\* The lists are chained, and searched from the one of the size on: the first
\* chunk that is large enough is found.
Fits(h, s, i) == {k \in DOMAIN h.nodelist[i] : h.node[h.nodelist[i][k]].size >= s}
Fitting(h, s) == {i \in mm_size2ndx(s) .. MM_NNODES - 1 : Fits(h, s, i) # {}}
Found(h, s) == LET i == Min(Fitting(h, s)) IN h.nodelist[i][Min(Fits(h, s, i))]

Allocated(h, a) == SetAllocated(h, a, TRUE)

\* Faulty: the chunk after the rest still has the size of the whole.
SplitKeepsPreceding(h, a, s, n) ==
    mm_addfreechunk(Write(SetSize(h, a, s), a + s, Header(n - s, s, FALSE)), a + s)

\* The first s granules of a chunk of n stay with it, the rest is a free chunk.
Split(h, a, s, n) ==
    LET rest == a + s
        cut == Write(SetSize(h, a, s), rest, Header(n - s, s, FALSE))
    IN  mm_addfreechunk(SetPreceding(cut, a + n, n - s), rest)

\* A chunk takes all of the free chunk that follows it.
JoinNext(h, a) ==
    LET next == Next_(h, a)
        s == h.node[a].size + h.node[next].size
    IN  SetPreceding(Drop(SetSize(Unlink(h, next), a, s), next), a + s, s)

-----------------------------------------------------------------------------
(***************************************************************************)
(* What the calls do to the heap while they hold the semaphore; s counts   *)
(* the header.                                                             *)
(***************************************************************************)
\* Faulty: a chunk of exactly the size stays on its free list.
MallocKeepsLink(h, s) ==
    LET a == Found(h, s)
        n == h.node[a].size
    IN  Allocated(IF n - s >= SIZEOF_MM_FREENODE THEN Split(Unlink(h, a), a, s, n) ELSE h, a)

mm_malloc(h, s) ==
    LET a == Found(h, s)
        n == h.node[a].size
        taken == Unlink(h, a)
    IN  Allocated(IF n - s >= SIZEOF_MM_FREENODE THEN Split(taken, a, s, n) ELSE taken, a)

Release(h, a) == SetAllocated(h, a, FALSE)

\* Faulty: a freed chunk is not joined with the free chunk before it.
FreeWithoutPrev(h, a) ==
    LET freed == Release(h, a)
        joined == IF IsFree(freed, Next_(freed, a)) THEN JoinNext(freed, a) ELSE freed
    IN  mm_addfreechunk(joined, a)

\* A freed chunk is joined with free neighbours on both sides.
mm_free(h, a) ==
    LET freed == Release(h, a)
        joined == IF IsFree(freed, Next_(freed, a)) THEN JoinNext(freed, a) ELSE freed
        prev == Prev_(joined, a)
    IN  IF IsFree(joined, prev)
          THEN mm_addfreechunk(JoinNext(Unlink(joined, prev), prev), prev)
          ELSE mm_addfreechunk(joined, a)

\* The chunk keeps s granules; the rest is joined with a free chunk after it.
mm_shrinkchunk(h, a, s) ==
    IF IsFree(h, Next_(h, a))
      THEN LET joined == JoinNext(h, a) IN Split(joined, a, s, joined.node[a].size)
      ELSE IF h.node[a].size >= s + SIZEOF_MM_FREENODE
             THEN Split(h, a, s, h.node[a].size)
             ELSE h

FreeSize(h, a) == IF IsFree(h, a) THEN h.node[a].size ELSE 0

\* How much mm_realloc takes from the free chunk before a block and from the
\* one after it, to get needed granules more: the smaller one first.
Takes(prevsize, nextsize, needed) ==
    IF prevsize > 0 /\ (nextsize >= prevsize \/ nextsize < 1)
      THEN IF needed > prevsize
             THEN [prev |-> prevsize, next |-> needed - prevsize]
             ELSE [prev |-> needed, next |-> 0]
      ELSE IF needed > nextsize
             THEN [prev |-> needed - nextsize, next |-> nextsize]
             ELSE [prev |-> 0, next |-> needed]

\* The block begins takeprev granules earlier, or takes the chunk before whole.
TakePrev(h, a, takeprev) ==
    LET prev == Prev_(h, a)
        n == h.node[prev].size
        s == h.node[a].size
        unlinked == Unlink(h, prev)
        new == a - takeprev
    IN  IF takeprev = 0
          THEN [heap |-> h, at |-> a]
          ELSE IF n - takeprev >= SIZEOF_MM_FREENODE
            THEN [heap |-> mm_addfreechunk(
                             SetPreceding(
                               Write(SetSize(Drop(unlinked, a), prev, n - takeprev),
                                     new, Header(s + takeprev, n - takeprev, TRUE)),
                               a + s, s + takeprev),
                             prev),
                  at |-> new]
            ELSE [heap |-> SetPreceding(
                             Write(Drop(unlinked, a), prev, Header(n + s, h.node[prev].preceding, TRUE)),
                             a + s, n + s),
                  at |-> prev]

\* The block takes takenext granules of the free chunk after it, or all.
TakeNext(h, a, takenext) ==
    LET n == h.node[Next_(h, a)].size
        s == h.node[a].size
        joined == JoinNext(h, a)
    IN  IF takenext = 0
          THEN h
          ELSE IF n - takenext >= SIZEOF_MM_FREENODE
            THEN Split(joined, a, s + takenext, s + n)
            ELSE joined

\* The part of a raw chunk before the aligned address becomes a free chunk.
Carve(h, a, aligned) ==
    LET next == Next_(h, a)
        new == aligned - SIZEOF_MM_ALLOCNODE
        front == Write(h, a, Header(new - a, h.node[a].preceding, FALSE))
    IN  mm_addfreechunk(
          SetPreceding(Write(front, new, Header(next - new, new - a, TRUE)), next, next - new),
          a)

AlignedUp(mem, al) == ((mem + al - 1) \div al) * al

\* Where the aligned memory begins: a free chunk must fit before its header.
AlignedChunk(a, al) ==
    LET raw == a + SIZEOF_MM_ALLOCNODE
        aligned == AlignedUp(raw, al)
    IN  IF aligned # raw /\ aligned - raw < SIZEOF_MM_FREENODE THEN aligned + al ELSE aligned

-----------------------------------------------------------------------------
(***************************************************************************)
(* The contents of memory.  The program of a pointer writes every granule  *)
(* it asked for.  A header that is written wipes out what was there.       *)
(***************************************************************************)
Under(h, d) == [g \in Addr |-> IF g \in DOMAIN h.node THEN Junk ELSE d[g]]
Filled(d, gs, x) == [g \in Addr |-> IF g \in gs THEN x ELSE d[g]]
Payload(a, n) == a + SIZEOF_MM_ALLOCNODE .. a + SIZEOF_MM_ALLOCNODE + n - 1

\* Faulty: the copy runs downwards, over what it has still to read.
CopiedDownwards(d, to, from, n) ==
    LET source(i) == IF from > to THEN i + (from - to) * ((n - 1 - i) \div (from - to)) ELSE i
    IN  [g \in Addr |-> LET x == from + source(g - to - 1) + 1
                        IN  IF g \in Payload(to, n) THEN (IF x \in Addr THEN d[x] ELSE Junk) ELSE d[g]]

\* memcpy of n granules between the payloads of two chunks, upwards.
Copied(d, to, from, n) ==
    [g \in Addr |-> IF g \in Payload(to, n)
                      THEN IF from + (g - to) \in Addr THEN d[from + (g - to)] ELSE Junk
                      ELSE d[g]]

Block(a, n) == [mem |-> a, want |-> n]

\* A pointer has got its block, of which the first had granules are kept.
Got(p, a, had, n, h, d) ==
    /\ ptr' = [ptr EXCEPT ![p] = Block(a, n)]
    /\ data' = Filled(Filled(d, Payload(a, h.node[a].size - SIZEOF_MM_ALLOCNODE) \ Payload(a, n), Junk),
                      Payload(a, n) \ Payload(a, had), p)

-----------------------------------------------------------------------------
(***************************************************************************)
(* The calls.                                                              *)
(***************************************************************************)
None == [kind |-> "none"]
Ready(p) == call[p] = None
Chunk(p) == ptr[p].mem
ChunkSize(p) == heap.node[Chunk(p)].size

Malloc(p, n) ==
    LET s == n + SIZEOF_MM_ALLOCNODE
        a == Found(heap, s)
        h == mm_malloc(heap, s)
    IN  /\ Ready(p) /\ ptr[p] = Null
        /\ Fitting(heap, s) # {}
        /\ heap' = h
        /\ total' = total + h.node[a].size
        /\ Got(p, a, 0, n, h, Under(h, data))
        /\ UNCHANGED <<call, delayed, collecting, raced>>

\* mm_free of a chunk, and what is left of its contents.
FreeChunk(a, d) ==
    /\ heap' = mm_free(heap, a)
    /\ total' = total - heap.node[a].size
    /\ data' = Under(heap', Filled(d, Payload(a, heap.node[a].size - SIZEOF_MM_ALLOCNODE), Junk))

Free(p) ==
    /\ Ready(p) /\ ptr[p] # Null
    /\ FreeChunk(Chunk(p), data)
    /\ ptr' = [ptr EXCEPT ![p] = Null]
    /\ UNCHANGED <<call, delayed, collecting, raced>>

\* mm_realloc that fits in the chunk.
ReallocShrink(p, n) ==
    LET s == n + SIZEOF_MM_ALLOCNODE
        h == IF s < ChunkSize(p) THEN mm_shrinkchunk(heap, Chunk(p), s) ELSE heap
    IN  /\ Ready(p) /\ ptr[p] # Null
        /\ s <= ChunkSize(p)
        /\ heap' = h
        /\ total' = total - ChunkSize(p) + h.node[Chunk(p)].size
        /\ Got(p, Chunk(p), ptr[p].want, n, h, Under(h, data))
        /\ UNCHANGED <<call, delayed, collecting, raced>>

Room(p) ==
    FreeSize(heap, Next_(heap, Chunk(p))) + FreeSize(heap, Prev_(heap, Chunk(p))) + ChunkSize(p)

\* mm_realloc that takes memory from the free neighbours.
ReallocGrow(p, n) ==
    LET s == n + SIZEOF_MM_ALLOCNODE
        a == Chunk(p)
        take == Takes(FreeSize(heap, Prev_(heap, a)), FreeSize(heap, Next_(heap, a)), s - ChunkSize(p))
        down == TakePrev(heap, a, take.prev)
        h == TakeNext(down.heap, down.at, take.next)
        moved == IF take.prev = 0
                   THEN data
                   ELSE Copied(Under(down.heap, data), down.at, a,
                               down.heap.node[down.at].size - SIZEOF_MM_ALLOCNODE)
    IN  /\ Ready(p) /\ ptr[p] # Null
        /\ s > ChunkSize(p) /\ Room(p) >= s
        /\ heap' = h
        /\ total' = total - ChunkSize(p) + h.node[down.at].size
        /\ Got(p, down.at, ptr[p].want, n, h, Under(h, moved))
        /\ UNCHANGED <<call, delayed, collecting, raced>>

\* mm_realloc that needs another chunk: mm_malloc adds a header to the size
\* that has one already.
ReallocMove(p, n) ==
    LET s == n + 2 * SIZEOF_MM_ALLOCNODE
        a == Found(heap, s)
        h == mm_malloc(heap, s)
    IN  /\ Ready(p) /\ ptr[p] # Null
        /\ n + SIZEOF_MM_ALLOCNODE > ChunkSize(p) /\ Room(p) < n + SIZEOF_MM_ALLOCNODE
        /\ Fitting(heap, s) # {}
        /\ heap' = h
        /\ total' = total + h.node[a].size
        /\ data' = Under(h, data)
        /\ call' = [call EXCEPT ![p] = [kind |-> "realloc", mem |-> a, want |-> n,
                                        oldsize |-> ChunkSize(p)]]
        /\ UNCHANGED <<ptr, delayed, collecting, raced>>

\* The contents are copied, then the old chunk is freed.
ReallocFree(p) ==
    LET new == call[p].mem
        copied == Copied(data, new, Chunk(p), call[p].oldsize)
    IN  /\ call[p].kind = "realloc"
        /\ heap' = mm_free(heap, Chunk(p))
        /\ total' = total - ChunkSize(p)
        /\ Got(p, new, ptr[p].want, call[p].want, heap',
               Under(heap', Filled(copied, Payload(Chunk(p), ChunkSize(p) - SIZEOF_MM_ALLOCNODE), Junk)))
        /\ call' = [call EXCEPT ![p] = None]
        /\ UNCHANGED <<delayed, collecting, raced>>

\* mm_memalign takes a raw chunk with room for the alignment.
Memalign(p, al, n) ==
    LET s == n + 2 * al + SIZEOF_MM_ALLOCNODE
        a == Found(heap, s)
        h == mm_malloc(heap, s)
    IN  /\ Ready(p) /\ ptr[p] = Null
        /\ Fitting(heap, s) # {}
        /\ heap' = h
        /\ total' = total + h.node[a].size
        /\ data' = Under(h, data)
        /\ call' = [call EXCEPT ![p] = [kind |-> "memalign", mem |-> a, want |-> n, al |-> al]]
        /\ UNCHANGED <<ptr, delayed, collecting, raced>>

\* It gives back what is before the aligned address and behind the request.
MemalignTrim(p) ==
    LET a == call[p].mem
        n == call[p].want
        at == AlignedChunk(a, call[p].al) - SIZEOF_MM_ALLOCNODE
        carved == IF at = a THEN heap ELSE Carve(heap, a, at + SIZEOF_MM_ALLOCNODE)
        h == IF carved.node[at].size - SIZEOF_MM_ALLOCNODE > n
               THEN mm_shrinkchunk(carved, at, n + SIZEOF_MM_ALLOCNODE)
               ELSE carved
    IN  /\ call[p].kind = "memalign"
        /\ heap' = h
        /\ total' = total - heap.node[a].size + h.node[at].size
        /\ Got(p, at, 0, n, h, Under(h, data))
        /\ call' = [call EXCEPT ![p] = None]
        /\ raced' = (raced \/ (at # a /\ IsFree(heap, Prev_(heap, a))))
        /\ UNCHANGED <<delayed, collecting>>

\* sched_ufree in a handler, or while another task has the heap semaphore.
\* With the semaphore it is Free.
UfreeDelayed(p) ==
    /\ Ready(p) /\ ptr[p] # Null
    /\ delayed' = Append(delayed, Chunk(p))
    /\ ptr' = [ptr EXCEPT ![p] = Null]
    /\ data' = Filled(data, Payload(Chunk(p), ChunkSize(p) - SIZEOF_MM_ALLOCNODE), Junk)
    /\ UNCHANGED <<heap, total, call, collecting, raced>>

\* Faulty: the entry is read and left on the list.
CollectNextPeeks ==
    /\ collecting = Null /\ delayed # <<>>
    /\ collecting' = Head(delayed)
    /\ UNCHANGED <<heap, total, ptr, data, call, delayed, raced>>

\* sched_garbagecollection in the worker thread.
CollectNext ==
    /\ collecting = Null /\ delayed # <<>>
    /\ collecting' = Head(delayed)
    /\ delayed' = Tail(delayed)
    /\ UNCHANGED <<heap, total, ptr, data, call, raced>>

CollectFree ==
    /\ collecting # Null
    /\ FreeChunk(collecting, data)
    /\ collecting' = Null
    /\ UNCHANGED <<ptr, call, delayed, raced>>

-----------------------------------------------------------------------------
\* mm_initialize: one free chunk between two headers that are never freed.
InitialHeap ==
    LET first == heapbase + SIZEOF_MM_ALLOCNODE
        n == heapsize - 2 * SIZEOF_MM_ALLOCNODE
        headers == [a \in {heapbase, first, heapend} |->
                      CASE a = heapbase -> Header(SIZEOF_MM_ALLOCNODE, 0, TRUE)
                        [] a = first -> Header(n, SIZEOF_MM_ALLOCNODE, FALSE)
                        [] a = heapend -> Header(SIZEOF_MM_ALLOCNODE, n, TRUE)]
    IN  mm_addfreechunk([node |-> headers, nodelist |-> [i \in Index |-> <<>>]], first)

Init ==
    /\ heap = InitialHeap
    /\ total = 0
    /\ ptr = [p \in Ptr |-> Null]
    /\ data = [g \in Addr |-> Junk]
    /\ call = [p \in Ptr |-> None]
    /\ delayed = <<>>
    /\ collecting = Null
    /\ raced = FALSE

Next ==
    \/ \E p \in Ptr :
         \/ \E n \in Request :
              Malloc(p, n) \/ ReallocShrink(p, n) \/ ReallocGrow(p, n) \/ ReallocMove(p, n)
         \/ \E n \in Request, al \in Alignment : Memalign(p, al, n)
         \/ ReallocFree(p) \/ MemalignTrim(p)
         \/ Free(p) \/ UfreeDelayed(p)
    \/ CollectNext
    \/ CollectFree

Spec == Init /\ [][Next]_vars

-----------------------------------------------------------------------------
(***************************************************************************)
(* Properties.                                                             *)
(***************************************************************************)
Chunks == DOMAIN heap.node
FreeChunks == {a \in Chunks : IsFree(heap, a)}

(***************************************************************************)
(* The headers tile the heap: each chunk begins where the one before ends, *)
(* knows its size, and the last one is the header at the end of the heap.  *)
(***************************************************************************)
ChunksTile ==
    /\ heapbase \in Chunks /\ heapend \in Chunks /\ Chunks \subseteq Addr
    /\ \A a \in Chunks : heap.node[a].size > 0
    /\ \A a \in Chunks \ {heapend} :
         /\ Next_(heap, a) \in Chunks
         /\ \A b \in Chunks : ~(a < b /\ b < Next_(heap, a))
         /\ heap.node[Next_(heap, a)].preceding = heap.node[a].size
    /\ ~IsFree(heap, heapbase) /\ ~IsFree(heap, heapend)

(***************************************************************************)
(* Every free chunk is on the list of its size and on no other, once, and  *)
(* the lists are in order of size.                                         *)
(***************************************************************************)
FreeListsExact ==
    \A i \in Index :
       LET q == heap.nodelist[i]
           size(k) == heap.node[q[k]].size
       IN  /\ ToSet(q) = {a \in FreeChunks : mm_size2ndx(heap.node[a].size) = i}
           /\ \A j, k \in DOMAIN q : q[j] = q[k] => j = k
           /\ \A j, k \in DOMAIN q : j <= k => size(j) <= size(k)

(***************************************************************************)
(* mm_malloc.c: the search finds a chunk whenever a free chunk is large    *)
(* enough, and it is the smallest one.                                     *)
(***************************************************************************)
BestFit ==
    \A s \in 2 .. MaxReq + 1 :
       LET large == {a \in FreeChunks : heap.node[a].size >= s}
       IN  /\ Fitting(heap, s) = {} <=> large = {}
           /\ large # {} => /\ Found(heap, s) \in large
                            /\ \A a \in large : heap.node[Found(heap, s)].size <= heap.node[a].size

(***************************************************************************)
(* Free memory does not stay in pieces: after any sequence of calls no two *)
(* free chunks are neighbours.  The exception is mm_memalign, which lets   *)
(* go of the heap between its two parts and then frees the memory before   *)
(* the aligned address without a look at the chunk before.                 *)
(***************************************************************************)
Coalesced == ~raced => \A a \in FreeChunks : ~IsFree(heap, Next_(heap, a))

(***************************************************************************)
(* A block has the memory that was asked for, and what the program wrote   *)
(* is still there, also after mm_realloc moved the block down or to        *)
(* another chunk while others allocate and free.                           *)
(***************************************************************************)
BlocksIntact ==
    \A p \in Ptr : ptr[p] # Null =>
       /\ Chunk(p) \in Chunks
       /\ ChunkSize(p) >= ptr[p].want + SIZEOF_MM_ALLOCNODE
       /\ \A g \in Payload(Chunk(p), ptr[p].want) : data[g] = p

(***************************************************************************)
(* No memory is lost and none is given twice: the chunks with the          *)
(* allocated bit are the blocks of the pointers, of calls on their way and *)
(* of the delayed frees, each of them one, and the two end headers; and    *)
(* total_alloc_size is the number of granules in them.                     *)
(***************************************************************************)
Holdings ==
    {<<"ptr", p, Chunk(p)>> : p \in {q \in Ptr : ptr[q] # Null}}
    \cup {<<"call", p, call[p].mem>> : p \in {q \in Ptr : ~Ready(q)}}
    \cup {<<"delayed", a, a>> : a \in ToSet(delayed)}
    \cup {<<"collecting", a, a>> : a \in {collecting} \ {Null}}

Held == {x[3] : x \in Holdings}

NoLeak ==
    /\ Held = Chunks \ (FreeChunks \cup {heapbase, heapend})
    /\ \A x, y \in Holdings : x[3] = y[3] => x = y
    /\ \A j, k \in DOMAIN delayed : delayed[j] = delayed[k] => j = k
    /\ total = Cardinality({g \in Addr : \E a \in Held : a <= g /\ g < Next_(heap, a)})
=============================================================================
