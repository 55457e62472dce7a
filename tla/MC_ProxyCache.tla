---------------------------- MODULE MC_ProxyCache ----------------------------
(* Constants for checking ProxyCache with TLC.                             *)
EXTENDS ProxyCache, TLC

CONSTANTS t1, t2, u1, u2, u3, a1, a2, a3

MCThreads == {t1, t2}
MCUrls == {u1, u2, u3}
MCItems == {a1, a2, a3}

(* Text responses of one and two bytes, and a binary one with a NUL byte *)
(* that exactly fills MAX_OBJECT_SIZE (3).                               *)
MCResp == (u1 :> <<1>>) @@ (u2 :> <<1, 2>>) @@ (u3 :> <<1, 0, 3>>)

(* Threads are interchangeable, and so are the addresses Malloc returns. *)
MCSymmetry == Permutations(MCThreads) \cup Permutations(MCItems)
====
