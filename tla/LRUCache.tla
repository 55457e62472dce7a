------------------------------- MODULE LRUCache -------------------------------
(***************************************************************************)
(* What the cache simulator promises, src/cachelab_handout/csim.c: a       *)
(* cache of 2^s sets of E lines with blocks of 2^b bytes and LRU           *)
(* replacement, run over a trace of loads (L), stores (S), modifies (M,    *)
(* a load then a store) and instruction fetches (I, ignored), counting     *)
(* hits, misses and evictions.                                             *)
(*                                                                         *)
(* Each set is a sequence of tags, most recently used first.  The set and  *)
(* tag of an address are the reference definitions: the address's bits    *)
(* above the block offset, split into s index bits and the tag above.      *)
(***************************************************************************)
EXTENDS Naturals, Sequences

CONSTANTS
  s, b, E,     \* csim's -s, -b and -E options
  Addrs,       \* the addresses a trace may name
  Instrs,      \* the trace operations it may hold: "L", "S", "M", "I"
  MaxSteps     \* model bound: the length of the trace

VARIABLES
  lru,         \* lru[st]: the tags cached in set st, most recent first
  nHit, nMiss, nEvict,
  steps        \* trace records read so far

vars == <<lru, nHit, nMiss, nEvict, steps>>

Sets == 0 .. 2^s - 1
SetIndex(addr) == (addr \div 2^b) % 2^s
TagOf(addr) == addr \div 2^(s + b)

(* One access: a hit moves the tag to the front; a miss puts it in front  *)
(* and, in a full set, drops the least recently used tag at the end.      *)
RefAccess(c, addr) ==
  LET st == SetIndex(addr)
      tg == TagOf(addr)
      l == c.lru[st]
      rest == SelectSeq(l, LAMBDA x : x # tg)
      hit == Len(rest) < Len(l)
      full == ~hit /\ Len(l) = E
  IN  [lru |-> [c.lru EXCEPT ![st] = <<tg>> \o (IF full THEN SubSeq(l, 1, E - 1) ELSE rest)],
       nHit |-> c.nHit + (IF hit THEN 1 ELSE 0),
       nMiss |-> c.nMiss + (IF hit THEN 0 ELSE 1),
       nEvict |-> c.nEvict + (IF full THEN 1 ELSE 0)]

Now == [lru |-> lru, nHit |-> nHit, nMiss |-> nMiss, nEvict |-> nEvict]

Accesses(instr) == CASE instr = "M" -> 2 [] instr \in {"L", "S"} -> 1 [] OTHER -> 0

Init ==
  /\ lru = [st \in Sets |-> <<>>]
  /\ nHit = 0 /\ nMiss = 0 /\ nEvict = 0 /\ steps = 0

Step(instr, addr) ==
  /\ steps < MaxSteps
  /\ \E c1 \in {IF Accesses(instr) >= 1 THEN RefAccess(Now, addr) ELSE Now} :
     \E c2 \in {IF Accesses(instr) = 2 THEN RefAccess(c1, addr) ELSE c1} :
       /\ lru' = c2.lru /\ nHit' = c2.nHit /\ nMiss' = c2.nMiss /\ nEvict' = c2.nEvict
  /\ steps' = steps + 1

Next == \E instr \in Instrs, addr \in Addrs : Step(instr, addr)

Spec == Init /\ [][Next]_vars
====
