-------------------------------- MODULE Trans --------------------------------
(***************************************************************************)
(* transpose_submit of src/cachelab_handout/trans.c: B = A^T for an N x M  *)
(* matrix A, in 8 x 8 blocks for N = 32 and N = 64, and in 16 x 16 blocks  *)
(* otherwise.  The 32 branch defers each diagonal element to the end of   *)
(* its row; the 64 branch splits a block into 4 x 4 quadrants, and on a   *)
(* diagonal block uses B's next block to the right as scratch, which a     *)
(* later block overwrites.                                                 *)
(*                                                                         *)
(* The loops are the state: nn, mm, n and the locals t0, t1 the 32 branch *)
(* carries from a row's m loop to its diagonal write; pc names the phase.  *)
(* One step is a row (32), a commented phase of a block (64), or a block   *)
(* (16).  Each step's writes are to distinct cells, and no cell it reads  *)
(* is one it writes, so a step is a set of writes applied at once.        *)
(*                                                                         *)
(* The code never branches on the data, so one input decides every input: *)
(* A holds its own flat index + 1 in each cell, and each cell of B names  *)
(* the cell of A it was copied from; 0 is the value of a cell not written. *)
(***************************************************************************)
EXTENDS Integers, TLC

CONSTANT Shapes   \* the [M, N] the driver calls the function with

VARIABLES M, N, nn, mm, n, t0, t1, pc, B, oob

vars == <<M, N, nn, mm, n, t0, t1, pc, B, oob>>

Rows == 0 .. M - 1            \* B is int B[M][N]
Cols == 0 .. N - 1
A(i, j) == i * M + j + 1      \* int A[N][M], row-major

Cell(r, c, v) == [at |-> <<r, c>>, v |-> v]
Get(x) == IF x \in DOMAIN B THEN B[x] ELSE 0

(* Apply the writes W of one step: a write outside int B[M][N] is flagged. *)
Store(W) ==
  LET at == {w.at : w \in W}
      val == [x \in at |-> (CHOOSE w \in W : w.at = x).v]
  IN  /\ B' = [x \in DOMAIN B |-> IF x \in at THEN val[x] ELSE B[x]]
      /\ oob' = (oob \/ ~(at \subseteq DOMAIN B))

(* Mutant: the block loop tests mm + 8 <= M, one block too far. *)
NextBlock8_le(p) ==
  IF mm + 8 <= M THEN mm' = mm + 8 /\ nn' = nn /\ pc' = p
  ELSE IF nn + 8 < N THEN mm' = 0 /\ nn' = nn + 8 /\ pc' = p
  ELSE pc' = "done" /\ UNCHANGED <<nn, mm>>

(* mm += 8 inside nn += 8: the next 8 x 8 block, starting at phase p,  *)
(* or the return.                                                          *)
NextBlock8(p) ==
  IF mm + 8 < M THEN mm' = mm + 8 /\ nn' = nn /\ pc' = p
  ELSE IF nn + 8 < N THEN mm' = 0 /\ nn' = nn + 8 /\ pc' = p
  ELSE pc' = "done" /\ UNCHANGED <<nn, mm>>

Init ==
  /\ \E s \in Shapes : M = s.M /\ N = s.N
  /\ nn = 0 /\ mm = 0 /\ n = 0
  /\ t0 = 0 /\ t1 = 0   \* uninitialised; 0 is no value of A
  /\ B = [x \in (0 .. M - 1) \X (0 .. N - 1) |-> 0]
  /\ oob = FALSE
  /\ pc = CASE N = 32 -> "row32" [] N = 64 -> "blk64" [] OTHER -> "blk16"

(* N == 32 (30-45): row n of block (nn, mm); the diagonal element goes    *)
(* through t0, t1 and is written after the m loop when nn == mm.           *)
Row32 ==
  /\ pc = "row32"
  /\ LET i == nn + n
         diag == {m \in 0 .. 7 : i = mm + m}
         t0n == IF diag # {} THEN i ELSE t0
         t1n == IF diag # {} THEN A(t0n, t0n) ELSE t1
     IN  /\ Store({Cell(mm + m, i, A(i, mm + m)) : m \in (0 .. 7) \ diag}
                  \cup (IF nn = mm THEN {Cell(t0n, t0n, t1n)} ELSE {}))
         /\ t0' = t0n /\ t1' = t1n
  /\ IF n + 1 < 8 THEN n' = n + 1 /\ UNCHANGED <<nn, mm, pc>>
     ELSE n' = 0 /\ NextBlock8("row32")
  /\ UNCHANGED <<M, N>>

(* N == 64, nn != mm (61-63): copy a1 to b1 and a2 to b2 untransposed. *)
CopyA1A2 ==
  /\ pc = "blk64" /\ nn # mm
  /\ Store({Cell(mm + r, nn + m, A(nn + r, mm + m)) : r \in 0 .. 3, m \in 0 .. 7})
  /\ pc' = "tb12"
  /\ UNCHANGED <<M, N, nn, mm, n, t0, t1>>

(* (65-75): transpose b1 and b2 in place, swapping across each diagonal. *)
TransposeB1B2 ==
  /\ pc = "tb12"
  /\ Store(UNION {{Cell(mm + p[1], nn + k + p[2], Get(<<mm + p[2], nn + k + p[1]>>)),
                   Cell(mm + p[2], nn + k + p[1], Get(<<mm + p[1], nn + k + p[2]>>))} :
                    p \in {q \in (0 .. 3) \X (0 .. 3) : q[1] < q[2]}, k \in {0, 4}})
  /\ pc' = "a3b2"
  /\ UNCHANGED <<M, N, nn, mm, n, t0, t1>>

(* Mutant: b2's row is overwritten before it is saved in t4-t7. *)
MoveA3B2_late ==
  /\ pc = "a3b2"
  /\ Store({Cell(mm + m, nn + 4 + k, A(nn + 4 + k, mm + m)) : m, k \in 0 .. 3}
           \cup {Cell(mm + 4 + m, nn + k, A(nn + 4 + k, mm + m)) : m, k \in 0 .. 3})
  /\ pc' = "a4"
  /\ UNCHANGED <<M, N, nn, mm, n, t0, t1>>

(* (77-97): for each m, t0-t3 from a3's column and t4-t7 from b2's row    *)
(* are read first; a3's column becomes b2's row and b2's row b3's row.     *)
MoveA3B2 ==
  /\ pc = "a3b2"
  /\ Store({Cell(mm + m, nn + 4 + k, A(nn + 4 + k, mm + m)) : m, k \in 0 .. 3}
           \cup {Cell(mm + 4 + m, nn + k, Get(<<mm + m, nn + 4 + k>>)) : m, k \in 0 .. 3})
  /\ pc' = "a4"
  /\ UNCHANGED <<M, N, nn, mm, n, t0, t1>>

(* (99-101): copy a4 to b4 transposed, and go to the next block. *)
CopyA4 ==
  /\ pc = "a4"
  /\ Store({Cell(mm + m, nn + r, A(nn + r, mm + m)) : r, m \in 4 .. 7})
  /\ NextBlock8("blk64")
  /\ UNCHANGED <<M, N, n, t0, t1>>

(* Mutant: every diagonal block takes the scratch path, the last included. *)
CopyToNext_le ==
  /\ pc = "blk64" /\ nn = mm /\ nn + 8 <= N
  /\ Store({Cell(nn + r, mm + m + 8, A(nn + r, mm + m)) : r, m \in 0 .. 7})
  /\ pc' = "b43"
  /\ UNCHANGED <<M, N, nn, mm, n, t0, t1>>

(* nn == mm, nn + 8 < N (104-108): copy the block untransposed into b',   *)
(* the block to its right, which is B's output for A's block (nn + 8, mm). *)
CopyToNext ==
  /\ pc = "blk64" /\ nn = mm /\ nn + 8 < N
  /\ Store({Cell(nn + r, mm + m + 8, A(nn + r, mm + m)) : r, m \in 0 .. 7})
  /\ pc' = "b43"
  /\ UNCHANGED <<M, N, nn, mm, n, t0, t1>>

(* (110-112): transpose-copy b'4 to b4 and b'3 to b2. *)
MoveB43 ==
  /\ pc = "b43"
  /\ Store({Cell(mm + m, nn + r, Get(<<nn + r, mm + m + 8>>)) : m \in 0 .. 7, r \in 4 .. 7})
  /\ pc' = "b12"
  /\ UNCHANGED <<M, N, nn, mm, n, t0, t1>>

(* (114-116): transpose-copy b'1 to b1 and b'2 to b3, and go on. *)
MoveB12 ==
  /\ pc = "b12"
  /\ Store({Cell(mm + m, nn + r, Get(<<nn + r, mm + m + 8>>)) : m \in 0 .. 7, r \in 0 .. 3})
  /\ NextBlock8("blk64")
  /\ UNCHANGED <<M, N, n, t0, t1>>

(* The last diagonal block (119-140): each row of A through t0-t7 into a  *)
(* column of B.                                                            *)
LastDiag ==
  /\ pc = "blk64" /\ nn = mm /\ ~(nn + 8 < N)
  /\ Store({Cell(mm + k, nn + r, A(nn + r, mm + k)) : r, k \in 0 .. 7})
  /\ NextBlock8("blk64")
  /\ UNCHANGED <<M, N, n, t0, t1>>

(* Any other N (145-152): 16 x 16 blocks, column-wise, cut at the edges. *)
Block16 ==
  /\ pc = "blk16"
  /\ Store({Cell(mm + m, nn + r, A(nn + r, mm + m)) :
               r \in {k \in 0 .. 15 : nn + k < N}, m \in {k \in 0 .. 15 : mm + k < M}})
  /\ IF nn + 16 < N THEN nn' = nn + 16 /\ UNCHANGED <<mm, pc>>
     ELSE IF mm + 16 < M THEN nn' = 0 /\ mm' = mm + 16 /\ UNCHANGED pc
     ELSE pc' = "done" /\ UNCHANGED <<nn, mm>>
  /\ UNCHANGED <<M, N, n, t0, t1>>

Next ==
  \/ Row32
  \/ CopyA1A2 \/ TransposeB1B2 \/ MoveA3B2 \/ CopyA4
  \/ CopyToNext \/ MoveB43 \/ MoveB12 \/ LastDiag
  \/ Block16

Spec == Init /\ [][Next]_vars
-----------------------------------------------------------------------------
(* The position of the loops as one number, in the order they visit; a    *)
(* cell of A is finished once its row (32) or block (64, 16) is behind.   *)
Position ==
  CASE N = 32 -> (nn * M + mm) * 8 + n
    [] N = 64 -> nn * M + mm
    [] OTHER  -> mm * N + nn
Key(i, j) ==
  CASE N = 32 -> ((i \div 8) * 8 * M + (j \div 8) * 8) * 8 + (i % 8)
    [] N = 64 -> (i \div 8) * 8 * M + (j \div 8) * 8
    [] OTHER  -> (j \div 16) * 16 * N + (i \div 16) * 16
Finished(i, j) == pc = "done" \/ Key(i, j) < Position

TypeOK ==
  /\ [M |-> M, N |-> N] \in Shapes
  /\ nn \in Cols /\ mm \in Rows /\ n \in 0 .. 7
  /\ pc \in {"row32", "blk64", "tb12", "a3b2", "a4", "b43", "b12", "blk16", "done"}
  /\ B \in [Rows \X Cols -> 0 .. M * N]
  /\ oob \in BOOLEAN

(* No write lands outside int B[M][N]: in particular the diagonal trick's *)
(* scratch block exists for every diagonal block that uses it (104), and  *)
(* the last one, which has none to its right, goes through t0-t7.         *)
InBounds == ~oob

(* Once the loops are past a cell of A, B holds it transposed for good:   *)
(* no later phase, scratch copy or deferred diagonal write overwrites a   *)
(* finished cell, and the scratch block is rewritten before it counts.     *)
FinishedTransposed ==
  \A i \in 0 .. N - 1, j \in 0 .. M - 1 : Finished(i, j) => B[<<j, i>>] = A(i, j)
====
