\* Two sets of two lines with 2-byte blocks, 8-bit addresses: a block read
\* at two offsets, a second set, and three tags competing for set 0, one with high bits.
CONSTANTS
  W = 8
  s = 1
  b = 1
  E = 2
  CW = 4
  Addrs = {0, 1, 2, 4, 200}
  Instrs = {"L", "S", "M", "I"}
  MaxSteps = 5
SPECIFICATION Spec
INVARIANTS TypeOK SetInBounds
PROPERTIES LRURefined
CHECK_DEADLOCK FALSE
