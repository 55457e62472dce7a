------------------------------- MODULE MC_Trans -------------------------------
(* The three matrices the cachelab driver grades transpose_submit on. *)
EXTENDS Trans

MCShapes == {[M |-> 32, N |-> 32], [M |-> 64, N |-> 64], [M |-> 61, N |-> 67]}
====
