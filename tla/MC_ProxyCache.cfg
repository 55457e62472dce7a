CONSTANTS
  t1 = t1
  t2 = t2
  u1 = u1
  u2 = u2
  u3 = u3
  a1 = a1
  a2 = a2
  a3 = a3
  Threads <- MCThreads
  Urls <- MCUrls
  Items <- MCItems
  Resp <- MCResp
  MAX_CACHE_SIZE = 4
  MAX_OBJECT_SIZE = 3
  MAXBUF = 1
  NoUrl = NoUrl
SYMMETRY MCSymmetry
SPECIFICATION Spec
INVARIANT TypeOK
INVARIANT RemainAccounting
INVARIANT HitReturnsTextResponse
CHECK_DEADLOCK FALSE
