------------------------------ MODULE MMExplicit ------------------------------
(***************************************************************************)
(* The explicit-free-list allocator of                                     *)
(* src/malloclab-handout/mm_explicit_realloc_clean.c.                      *)
(*                                                                         *)
(* The heap is modelled as memory: a function from word-aligned byte       *)
(* offsets of memlib's heap array to the 32-bit word stored there.  The    *)
(* boundary tags (PACK/GET_SIZE/GET_ALLOC/HDRP/FTRP), the neighbour        *)
(* arithmetic (NEXT_BLKP/PREV_BLKP) and the free-list links stored inside  *)
(* free payloads (SUCCP/PREDP) are the code's macros over that memory, so  *)
(* a wrong size, a stale link or a tag written at the wrong place shows    *)
(* up exactly as it would in the C heap.                                   *)
(*                                                                         *)
(* Each C function is an operator from a heap record                      *)
(*   [m |-> memory, root |-> root_bp, brk |-> top of the heap]            *)
(* to the heap it leaves behind (and its return value), composed the way  *)
(* the C functions call each other; a public call (mm_malloc, mm_free,    *)
(* mm_realloc) is one atomic step, since the allocator is single-threaded.*)
(*                                                                         *)
(* The client is the driver (mdriver): it owns a fixed set of slots, each  *)
(* holding at most one pointer returned by the allocator, the size it      *)
(* asked for, and how many leading payload bytes hold data it wrote.       *)
(***************************************************************************)
EXTENDS Integers, Sequences, FiniteSets

CONSTANTS
  CHUNKSIZE,    \* bytes the heap grows by when no fit is found (1<<12 in the code)
  MAX_HEAP,     \* bytes memlib's mem_sbrk can hand out in total
  SIZE_T_BITS,  \* width of size_t
  Slots,        \* the client's pointer slots (positive integers)
  Requests      \* payload sizes the client passes to malloc/realloc

WSIZE == 4              \* word and header/footer size
DSIZE == 8              \* double word, the alignment unit
MIN_BSIZE == 2 * DSIZE  \* header + succ + pred + footer
NULL == 0
SizeMod == 2 ^ SIZE_T_BITS

ASSUME CHUNKSIZE \in Nat /\ CHUNKSIZE % DSIZE = 0 /\ CHUNKSIZE >= MIN_BSIZE
ASSUME MAX_HEAP \in Nat /\ MAX_HEAP % DSIZE = 0 /\ MAX_HEAP >= 6 * WSIZE + CHUNKSIZE
ASSUME SIZE_T_BITS \in Nat /\ 2 ^ SIZE_T_BITS > MAX_HEAP
ASSUME Slots \subseteq Nat \ {0} /\ Requests \subseteq 0 .. SizeMod - 1

VARIABLES
  mem,      \* word offset -> 32-bit word of the heap array
  brk,      \* mem_sbrk's break: bytes of the array handed out so far
  prol_bp,  \* static char *prol_bp (NULL until mm_init)
  root_bp,  \* static char *root_bp, head of the free list
  ptr,      \* client: slot -> pointer returned to it, or NULL
  req,      \* client: slot -> payload size it asked for
  valid     \* client: slot -> leading payload bytes holding its data

heapVars == <<mem, brk, prol_bp, root_bp>>
clientVars == <<ptr, req, valid>>
vars == <<heapVars, clientVars>>

Addrs == {a \in 0 .. MAX_HEAP - WSIZE : a % WSIZE = 0}

(* The value the client writes into the payload of slot s: larger than any *)
(* size or address, so it is never mistaken for allocator metadata.        *)
DataTag(s) == 4 * MAX_HEAP + s

(***************************************************************************)
(* size_t arithmetic and the codec macros (lines 14-53 of the source).     *)
(***************************************************************************)
SzAdd(a, b) == (a + b) % SizeMod
SzSub(a, b) == (a - b) % SizeMod
ALIGN(size) == (SzAdd(size, DSIZE - 1) \div DSIZE) * DSIZE
MAX(x, y) == IF x > y THEN x ELSE y
MIN(x, y) == IF x > y THEN y ELSE x
(* size | alloc: every size the code packs is a multiple of 8 *)
PACK(size, alloc) == size + alloc

(* Outside the heap array a read yields 0 and a write is lost: both are    *)
(* undefined behaviour in C, and only a broken heap reaches them.          *)
GET(m, p) == IF p \in DOMAIN m THEN m[p] ELSE 0
PUT(m, p, v) == IF p \in DOMAIN m THEN [m EXCEPT ![p] = v] ELSE m
GET_SIZE(m, p) == (GET(m, p) \div 8) * 8
GET_ALLOC(m, p) == GET(m, p) % 2
HDRP(bp) == bp - WSIZE
FTRP(m, bp) == bp + GET_SIZE(m, HDRP(bp)) - DSIZE
NEXT_BLKP(m, bp) == bp + GET_SIZE(m, bp - WSIZE)
PREV_BLKP(m, bp) == bp - GET_SIZE(m, bp - DSIZE)
SUCCP(bp) == bp
PREDP(bp) == bp + WSIZE
NEXT_FREEBLKP(m, bp) == GET(m, SUCCP(bp))
PREV_FREEBLKP(m, bp) == GET(m, PREDP(bp))

(* PUT(HDRP(bp), PACK(size, alloc)); PUT(FTRP(bp), PACK(size, alloc)):     *)
(* the footer is located through the header just written.                  *)
WriteTags(m, bp, size, alloc) ==
  LET m1 == PUT(m, HDRP(bp), PACK(size, alloc))
  IN  PUT(m1, FTRP(m1, bp), PACK(size, alloc))

(* memmove/memcpy of n bytes: every source word is read before any write. *)
memmove(m, dst, src, n) ==
  [a \in DOMAIN m |-> IF dst <= a /\ a < dst + n THEN GET(m, src + (a - dst)) ELSE m[a]]

(* The element of a one-element set.  A helper's result that the caller   *)
(* uses several times is bound as The({e(x) : x \in {helper(...)}}), the  *)
(* functional form of a C local assigned once from a call: the call is    *)
(* evaluated once, and TLC's coverage pass does not re-expand it at every *)
(* use of x.                                                              *)
The(S) == CHOOSE x \in S : TRUE

(***************************************************************************)
(* mem_sbrk (memlib.c, not part of this repository): the break grows by    *)
(* incr bytes unless that passes MAX_HEAP.                                 *)
(***************************************************************************)
mem_sbrk_ok(b, incr) == b + incr <= MAX_HEAP

(***************************************************************************)
(* The free list.                                                          *)
(***************************************************************************)
set_root(h, bp) ==
  IF bp = h.root THEN h
  ELSE LET m1 == PUT(h.m, PREDP(h.root), bp)
           m2 == PUT(m1, SUCCP(bp), h.root)
       IN  [h EXCEPT !.m = PUT(m2, PREDP(bp), NULL), !.root = bp]

(* Mutant of cut_out: an inner block is unlinked forward only; the pred *)
(* link of its successor keeps pointing at it.                          *)
cut_out_oneway(h, bp) ==
  IF bp = h.root
  THEN LET r == NEXT_FREEBLKP(h.m, bp)
       IN  [h EXCEPT !.root = r, !.m = PUT(@, PREDP(r), NULL)]
  ELSE [h EXCEPT !.m = PUT(@, SUCCP(PREV_FREEBLKP(h.m, bp)), GET(h.m, SUCCP(bp)))]

cut_out(h, bp) ==
  IF bp = h.root
  THEN LET r == NEXT_FREEBLKP(h.m, bp)
       IN  [h EXCEPT !.root = r, !.m = PUT(@, PREDP(r), NULL)]
  ELSE LET m1 == PUT(h.m, SUCCP(PREV_FREEBLKP(h.m, bp)), GET(h.m, SUCCP(bp)))
       IN  [h EXCEPT !.m = PUT(m1, PREDP(NEXT_FREEBLKP(m1, bp)), GET(m1, PREDP(bp)))]

(***************************************************************************)
(* coalesce: merge the free block bp with a free physical neighbour,       *)
(* taking the neighbour off the free list first.  Returns the merged       *)
(* block, which is not on the free list.                                   *)
(***************************************************************************)
coalesce(h, bp) ==
  LET m == h.m
      prev_alloc == GET_ALLOC(m, FTRP(m, PREV_BLKP(m, bp)))
      next_alloc == GET_ALLOC(m, HDRP(NEXT_BLKP(m, bp)))
      size == GET_SIZE(m, HDRP(bp))
  IN
  IF prev_alloc = 1 /\ next_alloc = 1 THEN [h |-> h, bp |-> bp]
  ELSE IF prev_alloc = 1 THEN
    The({ LET sz == size + GET_SIZE(h1.m, FTRP(h1.m, NEXT_BLKP(h1.m, bp)))
          IN  [h |-> [h1 EXCEPT !.m = WriteTags(@, bp, sz, 0)], bp |-> bp] :
          h1 \in {cut_out(h, NEXT_BLKP(m, bp))} })
  ELSE IF next_alloc = 1 THEN
    The({ LET sz == size + GET_SIZE(h1.m, HDRP(PREV_BLKP(h1.m, bp)))
              m2 == PUT(h1.m, FTRP(h1.m, bp), PACK(sz, 0))
              m3 == PUT(m2, HDRP(PREV_BLKP(m2, bp)), PACK(sz, 0))
          IN  [h |-> [h1 EXCEPT !.m = m3], bp |-> PREV_BLKP(m3, bp)] :
          h1 \in {cut_out(h, PREV_BLKP(m, bp))} })
  ELSE
    The({ LET sz == size + GET_SIZE(h2.m, HDRP(PREV_BLKP(h2.m, bp)))
                         + GET_SIZE(h2.m, FTRP(h2.m, NEXT_BLKP(h2.m, bp)))
              m3 == PUT(h2.m, HDRP(PREV_BLKP(h2.m, bp)), PACK(sz, 0))
              m4 == PUT(m3, FTRP(m3, NEXT_BLKP(m3, bp)), PACK(sz, 0))
          IN  [h |-> [h2 EXCEPT !.m = m4], bp |-> PREV_BLKP(m4, bp)] :
          h2 \in { cut_out(h1, NEXT_BLKP(h1.m, bp)) :
                   h1 \in {cut_out(h, PREV_BLKP(m, bp))} } })

(***************************************************************************)
(* place: allocate a bsize-byte block on the free block bp, splitting off  *)
(* the remainder (sent to the head of the free list) unless it would be    *)
(* smaller than MIN_BSIZE.                                                 *)
(***************************************************************************)
(* Mutant of place: splits whenever the remainder is a double word or more. *)
place_split8(h, bp, bsize) ==
  LET initsize == GET_SIZE(h.m, HDRP(bp))
  IN  The({ IF initsize < SzAdd(bsize, DSIZE)
            THEN [h1 EXCEPT !.m = WriteTags(@, bp, initsize, 1)]
            ELSE LET m2 == WriteTags(h1.m, bp, bsize, 1)
                     m3 == WriteTags(m2, NEXT_BLKP(m2, bp), SzSub(initsize, bsize), 0)
                 IN  set_root([h1 EXCEPT !.m = m3], NEXT_BLKP(m3, bp)) :
            h1 \in {cut_out(h, bp)} })

(* Mutant of place: the chosen block is never taken off the free list.  *)
place_nocut(h, bp, bsize) ==
  LET initsize == GET_SIZE(h.m, HDRP(bp))
  IN  IF initsize < SzAdd(bsize, MIN_BSIZE)
      THEN [h EXCEPT !.m = WriteTags(@, bp, initsize, 1)]
      ELSE LET m2 == WriteTags(h.m, bp, bsize, 1)
               m3 == WriteTags(m2, NEXT_BLKP(m2, bp), SzSub(initsize, bsize), 0)
           IN  set_root([h EXCEPT !.m = m3], NEXT_BLKP(m3, bp))

place(h, bp, bsize) ==
  LET initsize == GET_SIZE(h.m, HDRP(bp))
  IN  The({ IF initsize < SzAdd(bsize, MIN_BSIZE)
            THEN [h1 EXCEPT !.m = WriteTags(@, bp, initsize, 1)]
            ELSE LET m2 == WriteTags(h1.m, bp, bsize, 1)
                     m3 == WriteTags(m2, NEXT_BLKP(m2, bp), SzSub(initsize, bsize), 0)
                 IN  set_root([h1 EXCEPT !.m = m3], NEXT_BLKP(m3, bp)) :
            h1 \in {cut_out(h, bp)} })

(***************************************************************************)
(* find_fit: first fit along the free list from root_bp to prol_bp.  The   *)
(* fuel only cuts a cyclic list short; FreeListExact rules cycles out.     *)
(***************************************************************************)
RECURSIVE fit_from(_, _, _, _, _)
fit_from(m, bp, prol, bsize, fuel) ==
  IF bp = prol \/ fuel = 0 THEN NULL
  ELSE IF bsize <= GET_SIZE(m, HDRP(bp)) THEN bp
  ELSE fit_from(m, NEXT_FREEBLKP(m, bp), prol, bsize, fuel - 1)

find_fit(h, prol, bsize) == fit_from(h.m, h.root, prol, bsize, Cardinality(Addrs))

(***************************************************************************)
(* extend_heap: grow the heap by an even number of words, make the new     *)
(* area a free block, move the epilogue header, coalesce backwards and     *)
(* put the result at the head of the free list.                            *)
(***************************************************************************)
(* Mutant of extend_heap: the result of mem_sbrk is not checked. *)
extend_heap_nocheck(h, words) ==
  LET size == IF words % 2 = 1 THEN (words + 1) * WSIZE ELSE words * WSIZE
      bp == h.brk
      m1 == WriteTags(h.m, bp, size, 0)
      m2 == PUT(m1, HDRP(NEXT_BLKP(m1, bp)), PACK(0, 1))
  IN  The({ [ok |-> TRUE, h |-> set_root(c.h, c.bp), bp |-> c.bp] :
            c \in { coalesce(g, bp) : g \in {[h EXCEPT !.m = m2, !.brk = @ + size]} } })

extend_heap(h, words) ==
  LET size == IF words % 2 = 1 THEN (words + 1) * WSIZE ELSE words * WSIZE
      bp == h.brk
      m1 == WriteTags(h.m, bp, size, 0)
      m2 == PUT(m1, HDRP(NEXT_BLKP(m1, bp)), PACK(0, 1))
  IN  IF ~mem_sbrk_ok(h.brk, size) THEN [ok |-> FALSE, h |-> h, bp |-> NULL]
      ELSE The({ [ok |-> TRUE, h |-> set_root(c.h, c.bp), bp |-> c.bp] :
                 c \in { coalesce(g, bp) : g \in {[h EXCEPT !.m = m2, !.brk = @ + size]} } })

(***************************************************************************)
(* The public calls.                                                       *)
(***************************************************************************)
mm_malloc(h, prol, size) ==
  LET bsize == SzAdd(ALIGN(size), DSIZE)
      fit == find_fit(h, prol, bsize)
  IN  IF size = 0 THEN [h |-> h, ret |-> NULL]
      ELSE IF fit # NULL THEN [h |-> place(h, fit, bsize), ret |-> fit]
      ELSE The({ IF ~ext.ok THEN [h |-> h, ret |-> NULL]
                 ELSE [h |-> place(ext.h, ext.bp, bsize), ret |-> ext.bp] :
                 ext \in {extend_heap(h, MAX(bsize, CHUNKSIZE) \div WSIZE)} })

(* Mutant of mm_free: the freed block goes to the list without coalescing. *)
mm_free_nocoalesce(h, p) ==
  IF p = NULL THEN h
  ELSE LET size == GET_SIZE(h.m, HDRP(p))
       IN  set_root([h EXCEPT !.m = WriteTags(@, p, size, 0)], p)

mm_free(h, p) ==
  IF p = NULL THEN h
  ELSE LET size == GET_SIZE(h.m, HDRP(p))
       IN  The({ set_root(c.h, c.bp) :
                 c \in { coalesce(g, p) : g \in {[h EXCEPT !.m = WriteTags(@, p, size, 0)]} } })

(* The allocated part of a resized block, shared by the in-place cases of *)
(* mm_realloc: bp becomes an allocated newbsize block and the rest of the *)
(* total bytes a free block, coalesced forward and put at the list head.  *)
ReallocSplit(h, bp, total, newbsize) ==
  LET m1 == WriteTags(h.m, bp, newbsize, 1)
      m2 == WriteTags(m1, NEXT_BLKP(m1, bp), SzSub(total, newbsize), 0)
  IN  The({ set_root(c.h, c.bp) :
            c \in { coalesce(g, NEXT_BLKP(g.m, bp)) : g \in {[h EXCEPT !.m = m2]} } })

(* Mutant of realloc_move: the old block is never freed. *)
realloc_move_leak(h, prol, p, size, oldbsize, newbsize) ==
  The({ IF fresh.ret = NULL THEN [h |-> h, ret |-> NULL]
        ELSE [h |-> [fresh.h EXCEPT !.m = memmove(@, fresh.ret, p, SzSub(MIN(oldbsize, newbsize), DSIZE))],
              ret |-> fresh.ret] :
        fresh \in {mm_malloc(h, prol, size)} })

(* Mutant of realloc_move: the copy is one double word short. *)
realloc_move_short(h, prol, p, size, oldbsize, newbsize) ==
  The({ IF fresh.ret = NULL THEN [h |-> h, ret |-> NULL]
        ELSE [h |-> mm_free([fresh.h EXCEPT !.m = memmove(@, fresh.ret, p, SzSub(MIN(oldbsize, newbsize), 2 * DSIZE))], p),
              ret |-> fresh.ret] :
        fresh \in {mm_malloc(h, prol, size)} })

(* The last resort of mm_realloc: a new block from mm_malloc, the payload *)
(* copied up to the smaller block size, the old block freed.  If mm_malloc *)
(* fails, NULL is returned and the old block is left untouched.           *)
realloc_move(h, prol, p, size, oldbsize, newbsize) ==
  The({ IF fresh.ret = NULL THEN [h |-> h, ret |-> NULL]
        ELSE [h |-> mm_free([fresh.h EXCEPT !.m = memmove(@, fresh.ret, p, SzSub(MIN(oldbsize, newbsize), DSIZE))], p),
              ret |-> fresh.ret] :
        fresh \in {mm_malloc(h, prol, size)} })

mm_realloc(h, prol, p, size) ==
  LET m == h.m
      oldbsize == GET_SIZE(m, HDRP(p))
      newbsize == SzAdd(ALIGN(size), DSIZE)
      prev == PREV_BLKP(m, p)
      next == NEXT_BLKP(m, p)
      prevsize == GET_SIZE(m, FTRP(m, prev))
      nextsize == GET_SIZE(m, FTRP(m, next))
  IN
  IF p = NULL THEN mm_malloc(h, prol, size)
  ELSE IF size = 0 THEN [h |-> mm_free(h, p), ret |-> NULL]
  ELSE IF oldbsize >= SzAdd(newbsize, MIN_BSIZE)
    THEN [h |-> ReallocSplit(h, p, oldbsize, newbsize), ret |-> p]
  ELSE IF oldbsize = newbsize THEN [h |-> h, ret |-> p]
  ELSE IF GET_ALLOC(m, FTRP(m, prev)) = 0
          /\ SzAdd(oldbsize, prevsize) >= SzAdd(newbsize, MIN_BSIZE)
    THEN [h |-> The({ ReallocSplit([h1 EXCEPT !.m = memmove(@, prev, p, SzSub(newbsize, DSIZE))],
                                   prev, SzAdd(oldbsize, prevsize), newbsize) :
                      h1 \in {cut_out(h, prev)} }),
          ret |-> prev]
  ELSE IF GET_ALLOC(m, HDRP(next)) = 0
          /\ SzAdd(oldbsize, nextsize) >= SzAdd(newbsize, MIN_BSIZE)
    THEN [h |-> ReallocSplit(cut_out(h, next), p, SzAdd(oldbsize, nextsize), newbsize), ret |-> p]
  ELSE realloc_move(h, prol, p, size, oldbsize, newbsize)

(***************************************************************************)
(* The state machine: mm_init once, then the driver's calls.               *)
(***************************************************************************)
Heap == [m |-> mem, root |-> root_bp, brk |-> brk]

Store(h) == mem' = h.m /\ root_bp' = h.root /\ brk' = h.brk

Init ==
  /\ mem = [a \in Addrs |-> 0]
  /\ brk = 0
  /\ prol_bp = NULL
  /\ root_bp = NULL
  /\ ptr = [s \in Slots |-> NULL]
  /\ req = [s \in Slots |-> 0]
  /\ valid = [s \in Slots |-> 0]

(* mm_init: a 24-byte area holding padding, the 16-byte prologue (whose    *)
(* succ field is NULL and pred field the epilogue) and the epilogue        *)
(* header, then a first CHUNKSIZE free block.  The ASSUME on MAX_HEAP      *)
(* makes both mem_sbrk calls succeed.                                      *)
mm_init ==
  /\ prol_bp = NULL
  /\ LET p == 2 * WSIZE
         m1 == WriteTags(PUT(mem, 0, 0), p, MIN_BSIZE, 1)
         m2 == PUT(PUT(m1, SUCCP(p), NULL), PREDP(p), NEXT_BLKP(m1, p))
         m3 == PUT(m2, HDRP(NEXT_BLKP(m2, p)), PACK(0, 1))
     IN  \E e \in {extend_heap([m |-> m3, root |-> p, brk |-> 6 * WSIZE], CHUNKSIZE \div WSIZE)} :
           /\ e.ok
           /\ Store(e.h)
           /\ prol_bp' = p
  /\ UNCHANGED clientVars

Malloc(s, n) ==
  /\ prol_bp # NULL
  /\ ptr[s] = NULL
  /\ \E r \in {mm_malloc(Heap, prol_bp, n)} :
       /\ Store(r.h)
       /\ ptr' = [ptr EXCEPT ![s] = r.ret]
       /\ req' = [req EXCEPT ![s] = IF r.ret = NULL THEN 0 ELSE n]
  /\ valid' = [valid EXCEPT ![s] = 0]
  /\ UNCHANGED prol_bp

Free(s) ==
  /\ ptr[s] # NULL
  /\ \E h \in {mm_free(Heap, ptr[s])} : Store(h)
  /\ ptr' = [ptr EXCEPT ![s] = NULL]
  /\ req' = [req EXCEPT ![s] = 0]
  /\ valid' = [valid EXCEPT ![s] = 0]
  /\ UNCHANGED prol_bp

(* A failed realloc (NULL for a non-zero size) leaves the old block with   *)
(* the client; a successful one keeps the data up to the smaller size.     *)
Realloc(s, n) ==
  /\ prol_bp # NULL
  /\ \E r \in {mm_realloc(Heap, prol_bp, ptr[s], n)} :
       LET failed == r.ret = NULL /\ n # 0
       IN  /\ Store(r.h)
           /\ ptr' = [ptr EXCEPT ![s] = IF failed THEN @ ELSE r.ret]
           /\ req' = [req EXCEPT ![s] = IF failed THEN @ ELSE IF r.ret = NULL THEN 0 ELSE n]
           /\ valid' = [valid EXCEPT ![s] = IF failed THEN @ ELSE MIN(@, req'[s])]
  /\ UNCHANGED prol_bp

(* The driver fills the whole payload of a slot with its data. *)
Write(s) ==
  /\ ptr[s] # NULL
  /\ valid[s] < req[s]
  /\ mem' = [a \in Addrs |-> IF ptr[s] <= a /\ a < ptr[s] + req[s] THEN DataTag(s) ELSE mem[a]]
  /\ valid' = [valid EXCEPT ![s] = req[s]]
  /\ UNCHANGED <<brk, prol_bp, root_bp, ptr, req>>

Next ==
  \/ mm_init
  \/ \E s \in Slots, n \in Requests : Malloc(s, n) \/ Realloc(s, n)
  \/ \E s \in Slots : Free(s) \/ Write(s)

Spec == Init /\ [][Next]_vars

(***************************************************************************)
(* Views of the heap used by the properties: the walk mm_check does over   *)
(* the blocks (NEXT_BLKP from the prologue to the zero-size epilogue) and  *)
(* over the free list (succ links from root_bp to the prologue).           *)
(***************************************************************************)
RECURSIVE WalkFrom(_, _, _)
WalkFrom(m, bp, fuel) ==
  IF fuel = 0 \/ GET_SIZE(m, HDRP(bp)) = 0 THEN <<>>
  ELSE <<bp>> \o WalkFrom(m, NEXT_BLKP(m, bp), fuel - 1)

RECURSIVE FreeFrom(_, _, _, _)
FreeFrom(m, bp, prol, fuel) ==
  IF bp = prol \/ fuel = 0 THEN <<>>
  ELSE <<bp>> \o FreeFrom(m, NEXT_FREEBLKP(m, bp), prol, fuel - 1)

Blocks == WalkFrom(mem, prol_bp, Cardinality(Addrs))
FreeList == FreeFrom(mem, root_bp, prol_bp, Cardinality(Addrs))
BlockSize(bp) == GET_SIZE(mem, HDRP(bp))
IsFree(bp) == GET_ALLOC(mem, HDRP(bp)) = 0
FreeBlocks == {Blocks[i] : i \in {j \in 1 .. Len(Blocks) : IsFree(Blocks[j])}}
Held == {s \in Slots : ptr[s] # NULL}

(* The extent a held pointer owns in the heap: its whole payload, from the *)
(* pointer to the block's footer, as the boundary tags give it.            *)
Extent(s) ==
  IF ptr[s] = NULL THEN [lo |-> 0, hi |-> 0]
  ELSE [lo |-> ptr[s], hi |-> ptr[s] + BlockSize(ptr[s]) - DSIZE]

Alloc == INSTANCE AbstractAllocator
           WITH HeapBytes <- MAX_HEAP, Align <- DSIZE,
                extent <- [s \in Slots |-> Extent(s)]

TypeOK ==
  /\ mem \in [Addrs -> Nat]
  /\ brk \in 0 .. MAX_HEAP
  /\ prol_bp \in {NULL, 2 * WSIZE}
  /\ root_bp \in Addrs
  /\ ptr \in [Slots -> Addrs]
  /\ req \in [Slots -> Requests \cup {0}]
  /\ valid \in [Slots -> Requests \cup {0}]

(* Boundary tags: walking NEXT_BLKP from the prologue visits aligned       *)
(* blocks of at least MIN_BSIZE bytes, a multiple of DSIZE, whose footer   *)
(* repeats the header, and lands exactly on the epilogue header at the     *)
(* break.  (mm_init, extend_heap, place, coalesce, mm_realloc.)            *)
HeapWellFormed ==
  prol_bp # NULL =>
    LET B == Blocks IN
    /\ B # <<>>
    /\ GET(mem, HDRP(prol_bp)) = PACK(MIN_BSIZE, 1)
    /\ \A i \in 1 .. Len(B) :
         /\ B[i] % DSIZE = 0
         /\ BlockSize(B[i]) >= MIN_BSIZE
         /\ BlockSize(B[i]) % DSIZE = 0
         /\ GET(mem, FTRP(mem, B[i])) = GET(mem, HDRP(B[i]))
    /\ NEXT_BLKP(mem, B[Len(B)]) = brk
    /\ GET(mem, HDRP(brk)) = PACK(0, 1)

(* Coalescing: no two physically adjacent blocks are both free, whatever  *)
(* sequence of frees, splits and in-place reallocs produced them.          *)
NoAdjacentFree ==
  prol_bp # NULL =>
    \A i \in 1 .. Len(Blocks) - 1 : ~(IsFree(Blocks[i]) /\ IsFree(Blocks[i + 1]))

(* The explicit list: the succ links from root_bp reach prol_bp, visiting  *)
(* every free block of the heap exactly once and nothing else, and every   *)
(* pred link (that of prol_bp included, which mm_check walks back from)    *)
(* names the block before it.  (set_root, cut_out and their callers.)      *)
FreeListExact ==
  prol_bp # NULL =>
    LET F == FreeList
        chain == F \o <<prol_bp>>
    IN  /\ (IF F = <<>> THEN root_bp ELSE NEXT_FREEBLKP(mem, F[Len(F)])) = prol_bp
        /\ {F[i] : i \in 1 .. Len(F)} = FreeBlocks
        /\ Len(F) = Cardinality(FreeBlocks)
        /\ \A i \in 1 .. Len(chain) :
             PREV_FREEBLKP(mem, chain[i]) = IF i = 1 THEN NULL ELSE chain[i - 1]

(* What the driver checks of every returned pointer, and no leak: the      *)
(* allocated blocks other than the prologue are exactly the blocks the     *)
(* client holds, one slot each, each aligned with room for the payload it  *)
(* asked for.  (mm_malloc, mm_realloc and its mm_free of the old block.)   *)
ClientBlocksExact ==
  prol_bp # NULL =>
    /\ {Blocks[i] : i \in {j \in 2 .. Len(Blocks) : ~IsFree(Blocks[j])}}
         = {ptr[s] : s \in Held}
    /\ \A s, t \in Held : s # t => ptr[s] # ptr[t]
    /\ \A s \in Held : ptr[s] % DSIZE = 0 /\ BlockSize(ptr[s]) - DSIZE >= req[s]

(* Data survives: the bytes the client wrote, cut to the smaller size by   *)
(* each realloc, are still in its payload, wherever realloc moved it (the  *)
(* memmove into a free predecessor, the copy to a fresh block) and however *)
(* the allocator rewrote tags and links around it.                         *)
DataIntact ==
  \A s \in Held : \A a \in Addrs :
    ptr[s] <= a /\ a < ptr[s] + valid[s] => mem[a] = DataTag(s)

(* The allocator keeps its contract with the driver: every step of the    *)
(* heap and the client is a step of AbstractAllocator on the payload       *)
(* extents the boundary tags give the held pointers.  No pointer returned  *)
(* by mm_malloc or mm_realloc overlaps the block of another held pointer,  *)
(* no call changes the block of a pointer it was not passed, and realloc   *)
(* keeps the data up to the smaller size.                                  *)
AllocatorRefined == Alloc!Spec

=============================================================================
