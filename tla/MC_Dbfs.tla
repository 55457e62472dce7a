------------------------------ MODULE MC_Dbfs --------------------------------
(* Constants for checking Dbfs with TLC.                                   *)
EXTENDS Dbfs, TLC

CONSTANTS w1, r1, t1

(* idle (0) -> init (1) -> 3 -> 4, and the kernel thread kthreadd (2). *)
MCPids == {0, 1, 2, 3, 4}
MCParent == [p \in MCPids |-> CASE p = 3 -> 1 [] p = 4 -> 3 [] OTHER -> 0]

(* With MAXLEN 6, the ancestry of 3 fits with room to spare and that of 4 *)
(* (2 + 2 + 3 bytes) is cut in the middle of 4's own line.               *)
MCLineLen == [p \in MCPids |-> IF p = 4 THEN 3 ELSE 2]

MCMm == [p \in MCPids |-> IF p \in {0, 2} THEN NoMm ELSE p]

(* Bytes of 2 bits and pages of 4 bytes, so a 6-byte virtual address has   *)
(* 12 bits and the 5 bytes of the answer hold 10.  The reference mapping:  *)
(* page number -> frame.  Task 3 maps the last page of its address space.  *)
Frames == (1 :> (0 :> 5)) @@ (3 :> ((1023 :> 200) @@ (1 :> 9))) @@ (4 :> (0 :> 1))
(* Page 0 of task 3 is swapped out: its pte is not none, but not present. *)
Swapped == (3 :> (0 :> 7))

Mapped(p, vpn) == p \in DOMAIN Frames /\ vpn \in DOMAIN Frames[p]

MCPhysAddr(p, va) ==
  IF Mapped(p, va \div 4) THEN Frames[p][va \div 4] * 4 + (va % 4) ELSE EINVAL

(* A present pte carries the frame, the present bit and, in the high bit *)
(* of the 8-byte word, NX.                                                *)
MCPteVal(mm, va) ==
  CASE Mapped(mm, va \div 4) -> Frames[mm][va \div 4] * 4 + 1 + 2 ^ 15
    [] mm \in DOMAIN Swapped /\ (va \div 4) \in DOMAIN Swapped[mm] ->
         Swapped[mm][va \div 4] * 4
    [] OTHER -> 0

(* Task 1 has no upper half (its pgd entry is none); task 4 has a bad pmd *)
(* for everything past its first page.                                    *)
MCUpperOk(mm, l, va) ==
  /\ ~(mm = 1 /\ l = 1 /\ va >= 2048)
  /\ ~(mm = 4 /\ l = 4 /\ va >= 4)
====
