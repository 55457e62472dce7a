------------------------------ MODULE MMImplicit ------------------------------
(***************************************************************************)
(* The implicit-list allocator of src/malloclab-handout/mm_implicit.c.     *)
(*                                                                         *)
(* As in MMExplicit, the heap is memlib's array as words, and the code's   *)
(* boundary-tag macros act on it.  There is no free list: find_fit walks   *)
(* every block from the prologue, first fit, and mm_realloc always takes   *)
(* a new block, copies and frees the old one.  Each C function is an       *)
(* operator from a heap record [m |-> memory, brk |-> break] to the heap   *)
(* it leaves (and its result); a public call is one step.                  *)
(*                                                                         *)
(* The client is the driver: slots holding the pointers it was given, the  *)
(* size asked for and the payload bytes it has filled.  It reallocs only   *)
(* pointers it holds, to a non-zero size: mm_realloc reads the header of  *)
(* NULL, and keeps the block on size 0 (see the README).                   *)
(***************************************************************************)
EXTENDS Integers, Sequences, FiniteSets

CONSTANTS
  CHUNKSIZE,    \* bytes the heap grows by when no fit is found (1<<12 in the code)
  MAX_HEAP,     \* bytes memlib's mem_sbrk can hand out in total
  SIZE_T_BITS,  \* width of size_t
  Slots,        \* the client's pointer slots
  Requests      \* payload sizes the client passes (multiples of WSIZE)

WSIZE == 4
DSIZE == 8
NULL == 0
SizeMod == 2 ^ SIZE_T_BITS

ASSUME CHUNKSIZE % DSIZE = 0 /\ CHUNKSIZE >= 2 * DSIZE
ASSUME MAX_HEAP % DSIZE = 0 /\ MAX_HEAP >= 4 * WSIZE + CHUNKSIZE /\ 2 ^ SIZE_T_BITS > MAX_HEAP
ASSUME \A n \in Requests : n % WSIZE = 0 /\ n < SizeMod

VARIABLES
  mem,         \* word offset -> word of the heap array
  brk,         \* mem_sbrk's break
  heap_listp,  \* static char *heap_listp: the prologue's payload (NULL before mm_init)
  ptr, req, valid

heapVars == <<mem, brk, heap_listp>>
clientVars == <<ptr, req, valid>>
vars == <<heapVars, clientVars>>

Addrs == {a \in 0 .. MAX_HEAP - WSIZE : a % WSIZE = 0}
DataTag(s) == 4 * MAX_HEAP + s

(* size_t arithmetic and the macros, lines 14-49 *)
SzAdd(a, b) == (a + b) % SizeMod
SzSub(a, b) == (a - b) % SizeMod
ALIGN(size) == (SzAdd(size, DSIZE - 1) \div DSIZE) * DSIZE
MAX(x, y) == IF x > y THEN x ELSE y
LeastOf(x, y) == IF x < y THEN x ELSE y
PACK(size, alloc) == size + alloc
GET(m, p) == IF p \in DOMAIN m THEN m[p] ELSE 0
PUT(m, p, v) == IF p \in DOMAIN m THEN [m EXCEPT ![p] = v] ELSE m
GET_SIZE(m, p) == (GET(m, p) \div 8) * 8
GET_ALLOC(m, p) == GET(m, p) % 2
HDRP(bp) == bp - WSIZE
FTRP(m, bp) == bp + GET_SIZE(m, HDRP(bp)) - DSIZE
NEXT_BLKP(m, bp) == bp + GET_SIZE(m, bp - WSIZE)
PREV_BLKP(m, bp) == bp - GET_SIZE(m, bp - DSIZE)

(* PUT(HDRP(bp), PACK(size, alloc)); PUT(FTRP(bp), PACK(size, alloc)) *)
WriteTags(m, bp, size, alloc) ==
  LET m1 == PUT(m, HDRP(bp), PACK(size, alloc))
  IN  PUT(m1, FTRP(m1, bp), PACK(size, alloc))

(* memcpy of n bytes between blocks that do not overlap. *)
memcpy(m, dst, src, n) ==
  [a \in DOMAIN m |-> IF dst <= a /\ a < dst + n THEN GET(m, src + (a - dst)) ELSE m[a]]

The(S) == CHOOSE x \in S : TRUE

mem_sbrk_ok(b, incr) == b + incr <= MAX_HEAP

(***************************************************************************)
(* coalesce (184-212): merge bp with its free physical neighbours; the     *)
(* footer of the block before and the header of the block after tell.      *)
(***************************************************************************)
(* Mutant of coalesce: no case for two free neighbours; it falls to the  *)
(* next-free case and the free block before stays separate.              *)
coalesce_noboth(m, bp) ==
  LET prev_alloc == GET_ALLOC(m, FTRP(m, PREV_BLKP(m, bp)))
      next_alloc == GET_ALLOC(m, HDRP(NEXT_BLKP(m, bp)))
      size == GET_SIZE(m, HDRP(bp))
  IN
  IF next_alloc = 0 THEN
    [m |-> WriteTags(m, bp, size + GET_SIZE(m, FTRP(m, NEXT_BLKP(m, bp))), 0), bp |-> bp]
  ELSE IF prev_alloc = 0 THEN
    LET sz == size + GET_SIZE(m, HDRP(PREV_BLKP(m, bp)))
        m1 == PUT(m, FTRP(m, bp), PACK(sz, 0))
    IN  [m |-> PUT(m1, HDRP(PREV_BLKP(m1, bp)), PACK(sz, 0)), bp |-> PREV_BLKP(m1, bp)]
  ELSE [m |-> m, bp |-> bp]

coalesce(m, bp) ==
  LET prev_alloc == GET_ALLOC(m, FTRP(m, PREV_BLKP(m, bp)))
      next_alloc == GET_ALLOC(m, HDRP(NEXT_BLKP(m, bp)))
      size == GET_SIZE(m, HDRP(bp))
  IN
  IF prev_alloc = 0 /\ next_alloc = 0 THEN
    LET sz == size + GET_SIZE(m, HDRP(PREV_BLKP(m, bp)))
                   + GET_SIZE(m, FTRP(m, NEXT_BLKP(m, bp)))
        m1 == PUT(m, HDRP(PREV_BLKP(m, bp)), PACK(sz, 0))
    IN  [m |-> PUT(m1, FTRP(m1, NEXT_BLKP(m1, bp)), PACK(sz, 0)), bp |-> PREV_BLKP(m, bp)]
  ELSE IF next_alloc = 0 THEN
    [m |-> WriteTags(m, bp, size + GET_SIZE(m, FTRP(m, NEXT_BLKP(m, bp))), 0), bp |-> bp]
  ELSE IF prev_alloc = 0 THEN
    LET sz == size + GET_SIZE(m, HDRP(PREV_BLKP(m, bp)))
        m1 == PUT(m, FTRP(m, bp), PACK(sz, 0))
    IN  [m |-> PUT(m1, HDRP(PREV_BLKP(m1, bp)), PACK(sz, 0)), bp |-> PREV_BLKP(m1, bp)]
  ELSE [m |-> m, bp |-> bp]

(* Mutant of extend_heap: the result of mem_sbrk is not checked. *)
extend_heap_nocheck(h, words) ==
  LET size == IF words % 2 = 1 THEN (words + 1) * WSIZE ELSE words * WSIZE
      bp == h.brk
      m1 == WriteTags(h.m, bp, size, 0)
      m2 == PUT(m1, HDRP(NEXT_BLKP(m1, bp)), PACK(0, 1))
  IN  The({ [ok |-> TRUE, h |-> [m |-> c.m, brk |-> h.brk + size], bp |-> c.bp] :
            c \in {coalesce(m2, bp)} })

(* Mutant of extend_heap: no new epilogue header after the new block. *)
extend_heap_noepi(h, words) ==
  LET size == IF words % 2 = 1 THEN (words + 1) * WSIZE ELSE words * WSIZE
      bp == h.brk
  IN  IF ~mem_sbrk_ok(h.brk, size) THEN [ok |-> FALSE, h |-> h, bp |-> NULL]
      ELSE The({ [ok |-> TRUE, h |-> [m |-> c.m, brk |-> h.brk + size], bp |-> c.bp] :
                 c \in {coalesce(WriteTags(h.m, bp, size, 0), bp)} })

(* extend_heap (135-152): an even number of words from mem_sbrk become a  *)
(* free block over the old epilogue, a new epilogue follows, coalesce.    *)
extend_heap(h, words) ==
  LET size == IF words % 2 = 1 THEN (words + 1) * WSIZE ELSE words * WSIZE
      bp == h.brk
      m1 == WriteTags(h.m, bp, size, 0)
      m2 == PUT(m1, HDRP(NEXT_BLKP(m1, bp)), PACK(0, 1))
  IN  IF ~mem_sbrk_ok(h.brk, size) THEN [ok |-> FALSE, h |-> h, bp |-> NULL]
      ELSE The({ [ok |-> TRUE, h |-> [m |-> c.m, brk |-> h.brk + size], bp |-> c.bp] :
                 c \in {coalesce(m2, bp)} })

(* Mutant of find_fit: the allocated bit is not tested. *)
RECURSIVE fit_from_anyblock(_, _, _, _)
fit_from_anyblock(m, bp, bsize, fuel) ==
  IF fuel = 0 \/ GET_SIZE(m, HDRP(bp)) = 0 THEN NULL
  ELSE IF bsize <= GET_SIZE(m, HDRP(bp)) THEN bp
  ELSE fit_from_anyblock(m, NEXT_BLKP(m, bp), bsize, fuel - 1)

find_fit_anyblock(m, listp, bsize) == fit_from_anyblock(m, listp, bsize, Cardinality(Addrs))

(* find_fit (154-163): the first free block from heap_listp that fits. *)
RECURSIVE fit_from(_, _, _, _)
fit_from(m, bp, bsize, fuel) ==
  IF fuel = 0 \/ GET_SIZE(m, HDRP(bp)) = 0 THEN NULL
  ELSE IF GET_ALLOC(m, HDRP(bp)) = 0 /\ bsize <= GET_SIZE(m, HDRP(bp)) THEN bp
  ELSE fit_from(m, NEXT_BLKP(m, bp), bsize, fuel - 1)

find_fit(m, listp, bsize) == fit_from(m, listp, bsize, Cardinality(Addrs))

(* place (165-182): split unless the rest would be under 2*DSIZE bytes. *)
place(m, bp, bsize) ==
  LET initsize == GET_SIZE(m, HDRP(bp))
  IN  IF SzSub(initsize, bsize) < 2 * DSIZE THEN WriteTags(m, bp, initsize, 1)
      ELSE LET m1 == WriteTags(m, bp, bsize, 1)
           IN  WriteTags(m1, NEXT_BLKP(m1, bp), SzSub(initsize, bsize), 0)

(* mm_malloc (82-103) *)
mm_malloc(h, listp, size) ==
  LET bsize == SzAdd(ALIGN(size), DSIZE)
      fit == find_fit(h.m, listp, bsize)
  IN  IF size = 0 THEN [h |-> h, ret |-> NULL]
      ELSE IF fit # NULL THEN [h |-> [h EXCEPT !.m = place(@, fit, bsize)], ret |-> fit]
      ELSE The({ IF ~ext.ok THEN [h |-> h, ret |-> NULL]
                 ELSE [h |-> [ext.h EXCEPT !.m = place(@, ext.bp, bsize)], ret |-> ext.bp] :
                 ext \in {extend_heap(h, MAX(bsize, CHUNKSIZE) \div WSIZE)} })

(* mm_free (105-114) *)
mm_free(m, bp) ==
  IF bp = NULL THEN m
  ELSE coalesce(WriteTags(m, bp, GET_SIZE(m, HDRP(bp)), 0), bp).m

(* Mutant of mm_realloc: the old block is never freed. *)
mm_realloc_leak(h, listp, oldptr, size) ==
  The({ IF new.ret = NULL THEN [h |-> h, ret |-> NULL]
        ELSE LET copysize == LeastOf(size, GET_SIZE(new.h.m, HDRP(oldptr)))
             IN  [h |-> [new.h EXCEPT !.m = memcpy(@, new.ret, oldptr, copysize)], ret |-> new.ret] :
        new \in {mm_malloc(h, listp, size)} })

(* Mutant of mm_realloc: the copy is a double word short. *)
mm_realloc_short(h, listp, oldptr, size) ==
  The({ IF new.ret = NULL THEN [h |-> h, ret |-> NULL]
        ELSE LET copysize == LeastOf(size, GET_SIZE(new.h.m, HDRP(oldptr))) - DSIZE
             IN  [h |-> [new.h EXCEPT !.m = mm_free(memcpy(@, new.ret, oldptr, copysize), oldptr)],
                  ret |-> new.ret] :
        new \in {mm_malloc(h, listp, size)} })

(* mm_realloc (116-130): a new block, the copy of GET_SIZE(HDRP(oldptr))   *)
(* bytes (the old block's size, not its payload) cut to size, then free.  *)
mm_realloc(h, listp, oldptr, size) ==
  The({ IF new.ret = NULL THEN [h |-> h, ret |-> NULL]
        ELSE LET copysize == LeastOf(size, GET_SIZE(new.h.m, HDRP(oldptr)))
             IN  [h |-> [new.h EXCEPT !.m = mm_free(memcpy(@, new.ret, oldptr, copysize), oldptr)],
                  ret |-> new.ret] :
        new \in {mm_malloc(h, listp, size)} })

(***************************************************************************)
(* mm_init once, then the driver's calls.                                  *)
(***************************************************************************)
Heap == [m |-> mem, brk |-> brk]
Store(h) == mem' = h.m /\ brk' = h.brk

Init ==
  /\ mem = [a \in Addrs |-> 0] /\ brk = 0 /\ heap_listp = NULL
  /\ ptr = [s \in Slots |-> NULL] /\ req = [s \in Slots |-> 0] /\ valid = [s \in Slots |-> 0]

(* mm_init (64-80): padding, an 8-byte prologue, the epilogue header, and *)
(* a first CHUNKSIZE free block; the ASSUME on MAX_HEAP lets both mem_sbrk *)
(* calls succeed.                                                          *)
mm_init ==
  /\ heap_listp = NULL
  /\ LET m0 == PUT(PUT(PUT(PUT(mem, 0, 0), WSIZE, PACK(DSIZE, 1)), 2 * WSIZE, PACK(DSIZE, 1)),
                   3 * WSIZE, PACK(0, 1))
     IN  \E e \in {extend_heap([m |-> m0, brk |-> 4 * WSIZE], CHUNKSIZE \div WSIZE)} :
           Store(e.h)
  /\ heap_listp' = 2 * WSIZE
  /\ UNCHANGED clientVars

Malloc(s, n) ==
  /\ heap_listp # NULL /\ ptr[s] = NULL
  /\ \E r \in {mm_malloc(Heap, heap_listp, n)} :
       /\ Store(r.h)
       /\ ptr' = [ptr EXCEPT ![s] = r.ret]
       /\ req' = [req EXCEPT ![s] = IF r.ret = NULL THEN 0 ELSE n]
  /\ valid' = [valid EXCEPT ![s] = 0]
  /\ UNCHANGED heap_listp

Free(s) ==
  /\ ptr[s] # NULL
  /\ mem' = mm_free(mem, ptr[s])
  /\ ptr' = [ptr EXCEPT ![s] = NULL] /\ req' = [req EXCEPT ![s] = 0]
  /\ valid' = [valid EXCEPT ![s] = 0]
  /\ UNCHANGED <<brk, heap_listp>>

(* A failed realloc leaves the old block with the client. *)
Realloc(s, n) ==
  /\ ptr[s] # NULL /\ n > 0
  /\ \E r \in {mm_realloc(Heap, heap_listp, ptr[s], n)} :
       /\ Store(r.h)
       /\ IF r.ret = NULL THEN UNCHANGED clientVars
          ELSE /\ ptr' = [ptr EXCEPT ![s] = r.ret]
               /\ req' = [req EXCEPT ![s] = n]
               /\ valid' = [valid EXCEPT ![s] = LeastOf(@, n)]
  /\ UNCHANGED heap_listp

Write(s) ==
  /\ ptr[s] # NULL /\ valid[s] < req[s]
  /\ mem' = [a \in Addrs |-> IF ptr[s] <= a /\ a < ptr[s] + req[s] THEN DataTag(s) ELSE mem[a]]
  /\ valid' = [valid EXCEPT ![s] = req[s]]
  /\ UNCHANGED <<brk, heap_listp, ptr, req>>

Next ==
  \/ mm_init
  \/ \E s \in Slots, n \in Requests : Malloc(s, n) \/ Realloc(s, n)
  \/ \E s \in Slots : Free(s) \/ Write(s)

Spec == Init /\ [][Next]_vars
-----------------------------------------------------------------------------
(* The block walk mm_check would do: NEXT_BLKP from the prologue to the    *)
(* zero-size epilogue header.                                              *)
RECURSIVE WalkFrom(_, _, _)
WalkFrom(m, bp, fuel) ==
  IF fuel = 0 \/ GET_SIZE(m, HDRP(bp)) = 0 THEN <<>>
  ELSE <<bp>> \o WalkFrom(m, NEXT_BLKP(m, bp), fuel - 1)

Blocks == WalkFrom(mem, heap_listp, Cardinality(Addrs))
BlockSize(bp) == GET_SIZE(mem, HDRP(bp))
IsFree(bp) == GET_ALLOC(mem, HDRP(bp)) = 0
Held == {s \in Slots : ptr[s] # NULL}

Extent(s) ==
  IF ptr[s] = NULL THEN [lo |-> 0, hi |-> 0]
  ELSE [lo |-> ptr[s], hi |-> ptr[s] + BlockSize(ptr[s]) - DSIZE]

Alloc == INSTANCE AbstractAllocator
           WITH HeapBytes <- MAX_HEAP, Align <- DSIZE,
                extent <- [s \in Slots |-> Extent(s)]

TypeOK ==
  /\ mem \in [Addrs -> Nat]
  /\ brk \in 0 .. MAX_HEAP
  /\ heap_listp \in {NULL, 2 * WSIZE}
  /\ ptr \in [Slots -> Addrs]
  /\ req \in [Slots -> Requests \cup {0}]
  /\ valid \in [Slots -> Requests \cup {0}]

(* Boundary tags: from the prologue, the walk visits aligned blocks of a  *)
(* multiple of DSIZE bytes whose footer repeats the header, and stops     *)
(* exactly on the epilogue header at the break.  (mm_init, extend_heap,   *)
(* place, coalesce.)                                                       *)
HeapWellFormed ==
  heap_listp # NULL =>
    LET B == Blocks IN
    /\ B # <<>>
    /\ GET(mem, HDRP(heap_listp)) = PACK(DSIZE, 1)
    /\ \A i \in 1 .. Len(B) :
         /\ B[i] % DSIZE = 0
         /\ BlockSize(B[i]) >= DSIZE /\ BlockSize(B[i]) % DSIZE = 0
         /\ GET(mem, FTRP(mem, B[i])) = GET(mem, HDRP(B[i]))
    /\ NEXT_BLKP(mem, B[Len(B)]) = brk
    /\ GET(mem, HDRP(brk)) = PACK(0, 1)

(* Immediate coalescing: no two adjacent blocks are both free, after any  *)
(* sequence of mallocs, frees, reallocs and heap growths.  (coalesce.)     *)
NoAdjacentFree ==
  heap_listp # NULL =>
    \A i \in 1 .. Len(Blocks) - 1 : ~(IsFree(Blocks[i]) /\ IsFree(Blocks[i + 1]))

(* No leak and no sharing: the allocated blocks after the prologue are     *)
(* exactly the client's pointers, one slot each, each with a payload of at *)
(* least the size asked for.  (mm_malloc, and mm_realloc's free of the old *)
(* block.)                                                                 *)
ClientBlocksExact ==
  heap_listp # NULL =>
    /\ {Blocks[i] : i \in {j \in 2 .. Len(Blocks) : ~IsFree(Blocks[j])}} = {ptr[s] : s \in Held}
    /\ \A s, t \in Held : s # t => ptr[s] # ptr[t]
    /\ \A s \in Held : BlockSize(ptr[s]) - DSIZE >= req[s]

(* The client's bytes survive every call, and mm_realloc's copy of the    *)
(* old block size, cut to the new request, keeps them up to the smaller   *)
(* size.                                                                   *)
DataIntact ==
  \A s \in Held : \A a \in Addrs :
    ptr[s] <= a /\ a < ptr[s] + valid[s] => mem[a] = DataTag(s)

(* The implicit allocator keeps the same contract with the driver as the  *)
(* explicit one: every step is a step of AbstractAllocator on the payload *)
(* extents of the held pointers, so no block handed out overlaps another  *)
(* held one and no call moves a block it was not passed.                   *)
AllocatorRefined == Alloc!Spec
====
