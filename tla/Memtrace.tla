------------------------------- MODULE Memtrace -------------------------------
(***************************************************************************)
(* The memory tracer of src/linklab-handout/part3/memtrace.c: a library    *)
(* preloaded in front of libc that interposes malloc, calloc, realloc and  *)
(* free, forwards each call to libc's function and keeps a list of the     *)
(* blocks it has seen, so that fini can report the blocks never freed and  *)
(* free can refuse illegal and double frees instead of passing them on.    *)
(*                                                                         *)
(* Three parties share the state:                                          *)
(*   - the traced program, which may pass any pointer, freed, foreign or   *)
(*     NULL, to free and realloc;                                          *)
(*   - the tracer: its list, one item per address with the size recorded  *)
(*     and an allocation count cnt, and its byte and call counters;        *)
(*   - libc's allocator (glibc, reached through dlsym(RTLD_NEXT)): which   *)
(*     addresses hold a live block, and of what size.                      *)
(* Each interposed call is one step: the program is single-threaded.       *)
(* The dlsym lookup on first use and the LOG_* output are left out.        *)
(***************************************************************************)
EXTENDS Naturals, FiniteSets, FiniteSetsExt

CONSTANTS
  Addrs,     \* the addresses libc can hand out (positive integers)
  Sizes,     \* sizes the program passes to malloc, realloc and calloc
  Nmembs,    \* element counts the program passes to calloc
  MaxCalls   \* model bound: the number of interposed calls in a run

ASSUME Addrs \subseteq Nat \ {0} /\ Sizes \subseteq Nat /\ Nmembs \subseteq Nat

NULL == 0
Ptrs == Addrs \cup {NULL}

VARIABLES
  heap,      \* libc: heap[a] = [live, size] of the block at address a
  list,      \* tracer: list[a] = [size, cnt] of the item for a (cnt 0: none)
  n_malloc, n_calloc, n_realloc,   \* tracer: calls counted for fini
  n_allocb, n_freeb,               \* tracer: bytes allocated and freed
  aborted,   \* glibc aborted the program on a pointer it does not hold
  calls      \* model bound: interposed calls made so far

vars == <<heap, list, n_malloc, n_calloc, n_realloc, n_allocb, n_freeb, aborted, calls>>
counters == <<n_malloc, n_calloc, n_realloc, n_allocb, n_freeb>>

NoBlock == [live |-> FALSE, size |-> 0]
Live(p) == p # NULL /\ heap[p].live

(***************************************************************************)
(* libc (glibc), not in the repository.  Each call returns the set of its  *)
(* possible outcomes [h, res]: any free address may be chosen and any call *)
(* that needs memory may fail with NULL.  realloc shrinks in place, grows  *)
(* in place or by moving, and realloc(p, 0) frees p and returns NULL.      *)
(***************************************************************************)
Gets(h, a, n) == [h EXCEPT ![a] = [live |-> TRUE, size |-> n]]

libc_malloc(h, n) ==
  {[h |-> h, res |-> NULL]} \cup
  {[h |-> Gets(h, a, n), res |-> a] : a \in {x \in Addrs : ~h[x].live}}

libc_free(h, p) == IF p = NULL THEN h ELSE [h EXCEPT ![p] = NoBlock]

libc_realloc(h, p, n) ==
  IF p = NULL THEN libc_malloc(h, n)
  ELSE IF n = 0 THEN {[h |-> libc_free(h, p), res |-> NULL]}
  ELSE IF n <= h[p].size THEN {[h |-> Gets(h, p, n), res |-> p]}
  ELSE {[h |-> h, res |-> NULL], [h |-> Gets(h, p, n), res |-> p]} \cup
       {[h |-> Gets(libc_free(h, p), a, n), res |-> a] :
          a \in {x \in Addrs : ~h[x].live}}

(***************************************************************************)
(* memlist (not in the repository): find returns the item for ptr or NULL, *)
(* alloc records ptr with its size and counts one more allocation of it,   *)
(* dealloc counts one less.  A missing item and an item with cnt 0 take    *)
(* the same path through every wrapper but for the line logged, so both   *)
(* are cnt 0 here.                                                         *)
(***************************************************************************)
alloc(l, p, n) == [l EXCEPT ![p] = [size |-> n, cnt |-> @.cnt + 1]]
dealloc(l, p) == [l EXCEPT ![p].cnt = @ - 1]
Tracked(p) == p # NULL /\ list[p].cnt > 0

(* if(res != NULL) alloc(list, res, size) *)
Record(l, res, n) == IF res # NULL THEN alloc(l, res, n) ELSE l

(* init: a new, empty list; libc's heap holds none of the program's blocks *)
Init ==
  /\ heap = [a \in Addrs |-> NoBlock]
  /\ list = [a \in Addrs |-> [size |-> 0, cnt |-> 0]]
  /\ n_malloc = 0 /\ n_calloc = 0 /\ n_realloc = 0
  /\ n_allocb = 0 /\ n_freeb = 0
  /\ aborted = FALSE
  /\ calls = 0

malloc(size) ==
  /\ \E r \in libc_malloc(heap, size) :
       heap' = r.h /\ list' = Record(list, r.res, size)
  /\ n_malloc' = n_malloc + 1
  /\ n_allocb' = n_allocb + size
  /\ UNCHANGED <<aborted, n_calloc, n_realloc, n_freeb>>

(* glibc's calloc is malloc of nmemb * size bytes, zeroed. *)
calloc(nmemb, size) ==
  /\ \E r \in libc_malloc(heap, nmemb * size) :
       heap' = r.h /\ list' = Record(list, r.res, nmemb * size)
  /\ n_calloc' = n_calloc + 1
  /\ n_allocb' = n_allocb + nmemb * size
  /\ UNCHANGED <<aborted, n_malloc, n_realloc, n_freeb>>

(* The wrappers pass a tracked pointer on to libc's free or realloc.  When *)
(* libc no longer holds that block the call is a double free, which glibc *)
(* detects and answers by aborting the program.                           *)
ForwardFreed(ptr) ==
  /\ Tracked(ptr) /\ ~Live(ptr)
  /\ aborted' = TRUE
  /\ UNCHANGED <<heap, list, counters>>

realloc(ptr, size) ==
  \/ /\ ptr = NULL
     /\ \E r \in libc_realloc(heap, NULL, size) :
          heap' = r.h /\ list' = IF size > 0 THEN Record(list, r.res, size) ELSE list
     /\ n_allocb' = n_allocb + size
     /\ n_realloc' = n_realloc + (IF size > 0 THEN 1 ELSE 0)
     /\ UNCHANGED <<aborted, n_malloc, n_calloc, n_freeb>>
  \* unknown or freed ptr: logged, and served as a fresh allocation
  \/ /\ ptr # NULL /\ ~Tracked(ptr)
     /\ \E r \in libc_realloc(heap, NULL, size) :
          heap' = r.h /\ list' = Record(list, r.res, size)
     /\ n_allocb' = n_allocb + size
     /\ n_realloc' = n_realloc + 1
     /\ UNCHANGED <<aborted, n_malloc, n_calloc, n_freeb>>
  \/ /\ Tracked(ptr) /\ Live(ptr) /\ size = 0
     /\ \E r \in libc_realloc(heap, ptr, 0) : heap' = r.h
     /\ n_freeb' = n_freeb + list[ptr].size
     /\ list' = dealloc(list, ptr)
     /\ UNCHANGED <<aborted, n_malloc, n_calloc, n_realloc, n_allocb>>
  \* no larger than the size recorded: the list is left as it is
  \/ /\ Tracked(ptr) /\ Live(ptr) /\ 0 < size /\ size <= list[ptr].size
     /\ \E r \in libc_realloc(heap, ptr, size) : heap' = r.h
     /\ UNCHANGED <<list, counters, aborted>>
  \/ /\ Tracked(ptr) /\ Live(ptr) /\ size > list[ptr].size
     /\ \E r \in libc_realloc(heap, ptr, size) :
          heap' = r.h /\ list' = Record(dealloc(list, ptr), r.res, size)
     /\ n_freeb' = n_freeb + list[ptr].size
     /\ n_allocb' = n_allocb + size
     /\ n_realloc' = n_realloc + 1
     /\ UNCHANGED <<aborted, n_malloc, n_calloc>>
  \/ ForwardFreed(ptr)

free(ptr) ==
  \* NULL, an unknown pointer (illegal free) or cnt 0 (double free): return
  \/ /\ ~Tracked(ptr)
     /\ UNCHANGED <<heap, list, counters, aborted>>
  \/ /\ Tracked(ptr) /\ Live(ptr)
     /\ list' = dealloc(list, ptr)
     /\ n_freeb' = n_freeb + list[ptr].size
     /\ heap' = libc_free(heap, ptr)
     /\ UNCHANGED <<aborted, n_malloc, n_calloc, n_realloc, n_allocb>>
  \/ ForwardFreed(ptr)

(* One interposed call of the program, until it has made MaxCalls or has   *)
(* been aborted.                                                           *)
Call(A) ==
  /\ ~aborted /\ calls < MaxCalls
  /\ calls' = calls + 1
  /\ A

Next ==
  Call(\/ \E n \in Sizes : malloc(n)
       \/ \E k \in Nmembs, n \in Sizes : calloc(k, n)
       \/ \E p \in Ptrs, n \in Sizes : realloc(p, n)
       \/ \E p \in Ptrs : free(p))

Spec == Init /\ [][Next]_vars

-----------------------------------------------------------------------------
(* What free's two early returns are for: a double free by the program is *)
(* logged and refused, never passed on to libc, which would abort.  Here  *)
(* after any sequence of malloc, calloc, realloc and free calls, however  *)
(* libc placed, moved or refused the blocks.                               *)
DoubleFreeCaught == ~aborted
====
