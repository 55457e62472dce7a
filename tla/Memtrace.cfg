CONSTANTS
  Addrs = {1, 2}
  Sizes = {0, 1, 2}
  Nmembs = {2}
  MaxCalls = 5
SPECIFICATION Spec
INVARIANT DoubleFreeCaught
CHECK_DEADLOCK FALSE
