--------------------------------- MODULE CSim ---------------------------------
(***************************************************************************)
(* The cache simulator, src/cachelab_handout/csim.c: main's trace loop and *)
(* accessCache, over the cache main builds.                                *)
(*                                                                         *)
(* Addresses are W bits wide (64 in the code).  The shifts that split an   *)
(* address use the count modulo W, as the x86 shift instructions the build *)
(* emits do for a count the C standard leaves undefined (64).  Each set   *)
(* keeps its lines and useCnt, an unsigned counter of CW bits (32 in the  *)
(* code) that stamps each use.  A set index outside the cache is an       *)
(* out-of-bounds access: the model records it in ub and takes no further  *)
(* step.                                                                   *)
(***************************************************************************)
EXTENDS Naturals, Sequences, FiniteSets, FiniteSetsExt, SequencesExt

CONSTANTS
  W,           \* address width in bits (uint64_t: 64)
  s, b, E,     \* csim's -s, -b and -E options
  CW,          \* width of useCnt and useTime (unsigned: 32)
  Addrs,       \* the addresses a trace may name, in 0 .. 2^W - 1
  Instrs,      \* the trace operations: "L", "S", "M", "I"
  MaxSteps     \* model bound: the length of the trace

ASSUME s + b <= W /\ E >= 1 /\ Addrs \subseteq 0 .. 2^W - 1

VARIABLES
  lines,       \* lines[st][i]: the LINE i of SET st (valid, tag, useTime)
  useCnt,      \* useCnt[st]: the SET's use counter
  nHit, nMiss, nEvict,   \* param's counters
  steps,       \* trace records read so far
  ub           \* an out-of-bounds cache[Set] happened

vars == <<lines, useCnt, nHit, nMiss, nEvict, steps, ub>>

Sets == 0 .. 2^s - 1
Lines == 0 .. E - 1
NoLine == [valid |-> FALSE, tag |-> 0, useTime |-> 0]

(* uint64_t shifts, with the count taken modulo the width. *)
Shl(x, k) == (x * 2^(k % W)) % 2^W
Shr(x, k) == x \div 2^(k % W)

(* Mutants: the tag shifted past the set bits only; the set index without *)
(* clearing the tag bits above it.                                         *)
Tag_noblock(addr) == Shr(addr, s)
SetOf_noclear(addr) == Shr(addr, b)

(* accessCache (32-34). *)
Tag(addr) == Shr(addr, s + b)
SetOf(addr) == LET t == W - s - b IN Shr(Shl(addr, t), t + b)

(* Mutant: the scan compares with < instead of >, keeping the most       *)
(* recently used line.                                                     *)
Victim_mru(ln) ==
  LET latest == Max({ln[i].useTime : i \in Lines})
  IN  Min({i \in Lines : ln[i].useTime = latest})

(* accessCache (62-69): the line with the smallest useTime, the first one *)
(* on a tie ("leastRecent > useTime").                                     *)
Victim(ln) ==
  LET least == Min({ln[i].useTime : i \in Lines})
  IN  Min({i \in Lines : ln[i].useTime = least})

(* accessCache (30-85) on c = the cache and param's counters.  The search *)
(* loop (44-58) finds a valid line holding the tag, else the lowest empty  *)
(* line; a full set evicts the victim.  Every use stamps the line with     *)
(* ++useCnt, which wraps at 2^CW.                                          *)
accessCache(c, addr) ==
  LET st == SetOf(addr)
      tg == Tag(addr)
  IN  IF st \notin Sets THEN [c EXCEPT !.ub = TRUE]
      ELSE
      LET ln == c.lines[st]
          n == (c.useCnt[st] + 1) % 2^CW
          hit == {i \in Lines : ln[i].valid /\ ln[i].tag = tg}
          empty == {i \in Lines : ~ln[i].valid}
          i == IF hit # {} THEN Min(hit) ELSE IF empty # {} THEN Min(empty) ELSE Victim(ln)
      IN  [c EXCEPT !.lines[st][i] = [valid |-> TRUE, tag |-> tg, useTime |-> n],
                    !.useCnt[st] = n,
                    !.nHit = @ + (IF hit # {} THEN 1 ELSE 0),
                    !.nMiss = @ + (IF hit # {} THEN 0 ELSE 1),
                    !.nEvict = @ + (IF hit = {} /\ empty = {} THEN 1 ELSE 0)]

Now == [lines |-> lines, useCnt |-> useCnt, nHit |-> nHit, nMiss |-> nMiss,
        nEvict |-> nEvict, ub |-> ub]

(* main (113-122): build the cache.  malloc'd lines are not initialised;  *)
(* at this point of the run the heap is fresh memory from the kernel,     *)
(* which is zero, so every line starts invalid.                           *)
Init ==
  /\ lines = [st \in Sets |-> [i \in Lines |-> NoLine]]
  /\ useCnt = [st \in Sets |-> 0]
  /\ nHit = 0 /\ nMiss = 0 /\ nEvict = 0
  /\ steps = 0 /\ ub = FALSE

(* main (127-139): read one trace record.  "M" falls through from its own *)
(* accessCache into the "L"/"S" case, so it accesses twice; "I" and any   *)
(* other operation access nothing.                                         *)
Step(instr, addr) ==
  /\ ~ub /\ steps < MaxSteps
  /\ \E c1 \in {IF instr = "M" THEN accessCache(Now, addr) ELSE Now} :
     \E c2 \in {IF instr \in {"M", "L", "S"} /\ ~c1.ub THEN accessCache(c1, addr) ELSE c1} :
       /\ lines' = c2.lines /\ useCnt' = c2.useCnt
       /\ nHit' = c2.nHit /\ nMiss' = c2.nMiss /\ nEvict' = c2.nEvict /\ ub' = c2.ub
  /\ steps' = steps + 1

Next == \E instr \in Instrs : \E addr \in Addrs : Step(instr, addr)

Spec == Init /\ [][Next]_vars

-----------------------------------------------------------------------------
(* The recency order the code keeps in useTime: the valid lines' tags,    *)
(* latest stamp first.  This is the refinement mapping to LRUCache.       *)
RecencyOrder(st) ==
  LET q == SetToSortSeq({i \in Lines : lines[st][i].valid},
                        LAMBDA x, y : lines[st][x].useTime > lines[st][y].useTime)
  IN  [k \in DOMAIN q |-> lines[st][q[k]].tag]

Abs == INSTANCE LRUCache WITH lru <- [st \in Sets |-> RecencyOrder(st)]

TypeOK ==
  /\ lines \in [Sets -> [Lines -> [valid : BOOLEAN, tag : 0 .. 2^(W - s - b) - 1, useTime : 0 .. 2^CW - 1]]]
  /\ useCnt \in [Sets -> 0 .. 2^CW - 1]
  /\ {nHit, nMiss, nEvict} \subseteq 0 .. 2 * MaxSteps
  /\ steps \in 0 .. MaxSteps /\ ub \in BOOLEAN

(* accessCache implements an LRU cache: every step of main's trace loop   *)
(* is a step of LRUCache on the recency order the useTime stamps encode,  *)
(* with the same hit, miss and eviction counts that printSummary reports. *)
LRURefined == Abs!Spec

(* cache[Set] stays inside the cache main allocated (accessCache 41):    *)
(* the set index computed from the address is below S = 2^s.              *)
SetInBounds == ~ub
====
