---------------------------- MODULE MC_MMExplicit ----------------------------
(***************************************************************************)
(* Model-checking instance of MMExplicit: a heap of at most MAX_HEAP bytes *)
(* grown in CHUNKSIZE steps, two client slots and request sizes that give  *)
(* blocks of 24, 32 and 48 bytes, so that splitting, no-split placement,   *)
(* all four coalescing cases, every mm_realloc branch and heap exhaustion  *)
(* all occur.                                                              *)
(***************************************************************************)
EXTENDS MMExplicit

MCSlots == {1, 2}
MCRequests == {0, 12, 20, 40}

(* A request within 7 bytes of the size_t maximum, next to an ordinary one: *)
(* ALIGN(size) wraps to 0 there.                                            *)
MCOverflowRequests == {12, 2 ^ SIZE_T_BITS - 1}
=============================================================================
