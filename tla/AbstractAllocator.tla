--------------------------- MODULE AbstractAllocator ---------------------------
(***************************************************************************)
(* What a malloc package promises the driver that calls it (the contract  *)
(* of mm_malloc, mm_free and mm_realloc in src/malloclab-handout): each    *)
(* pointer it hands out owns an extent of the heap, [lo, hi), both ends   *)
(* aligned to Align, with room for the bytes asked for; the extents of the *)
(* pointers a client holds never overlap; an extent changes only through   *)
(* a call on its own pointer; realloc keeps the data up to the smaller     *)
(* size; any call that needs memory may fail and return NULL, and a failed *)
(* realloc leaves the old block alone.  Which extent is chosen is left     *)
(* open: that is the allocator's business.                                 *)
(***************************************************************************)
EXTENDS Naturals

CONSTANTS
  Slots,      \* the client's pointer slots
  Requests,   \* payload sizes the client passes to malloc/realloc
  HeapBytes,  \* the heap is the byte range [0, HeapBytes)
  Align       \* the alignment of every returned pointer

VARIABLES
  extent,     \* extent[s]: the bytes owned by the pointer in slot s, or NoExtent
  req,        \* req[s]: the payload size slot s asked for
  valid       \* valid[s]: leading payload bytes holding slot s's data

vars == <<extent, req, valid>>

NoExtent == [lo |-> 0, hi |-> 0]
Bounds == {k * Align : k \in 1 .. HeapBytes \div Align}
Extents == [lo : Bounds, hi : Bounds]
Held(s) == extent[s] # NoExtent
Disjoint(x, y) == x.hi <= y.lo \/ y.hi <= x.lo
Lesser(x, y) == IF x < y THEN x ELSE y

(* The extents the allocator may hand slot s for n bytes: aligned, inside *)
(* the heap, big enough, and clear of every other slot's block.            *)
Fits(s, n) ==
  {x \in Extents : /\ x.hi - x.lo >= n
                   /\ \A t \in Slots \ {s} : Held(t) => Disjoint(x, extent[t])}

(* Slot s now holds n requested bytes in one of the extents X. *)
Give(s, n, X) ==
  /\ req' = [req EXCEPT ![s] = n]
  /\ \E x \in X : extent' = [extent EXCEPT ![s] = x]

Init ==
  /\ extent = [s \in Slots |-> NoExtent]
  /\ req = [s \in Slots |-> 0]
  /\ valid = [s \in Slots |-> 0]

(* malloc(0) and an exhausted heap both return NULL and change nothing.   *)
Malloc(s, n) ==
  /\ ~Held(s)
  /\ n > 0
  /\ valid' = [valid EXCEPT ![s] = 0]
  /\ Give(s, n, Fits(s, n))

Free(s) ==
  /\ Held(s)
  /\ valid' = [valid EXCEPT ![s] = 0]
  /\ Give(s, 0, {NoExtent})

(* realloc(p, 0) frees; realloc(NULL, n) is malloc; a moved or resized    *)
(* block keeps the data up to the new size.  Failure is a stutter.         *)
Realloc(s, n) ==
  \/ /\ n = 0
     /\ valid' = [valid EXCEPT ![s] = 0]
     /\ Give(s, 0, {NoExtent})
  \/ /\ n > 0
     /\ valid' = [valid EXCEPT ![s] = Lesser(@, n)]
     /\ Give(s, n, Fits(s, n))

Write(s) ==
  /\ Held(s)
  /\ valid[s] < req[s]
  /\ valid' = [valid EXCEPT ![s] = req[s]]
  /\ UNCHANGED <<extent, req>>

Next ==
  \E s \in Slots :
    \/ Free(s) \/ Write(s)
    \/ \E n \in Requests : Malloc(s, n) \/ Realloc(s, n)

Spec == Init /\ [][Next]_vars
====
