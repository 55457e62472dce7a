CONSTANTS
  CHUNKSIZE = 32
  MAX_HEAP = 88
  SIZE_T_BITS = 16
  Slots <- MCSlots
  Requests <- MCRequests
SPECIFICATION Spec
INVARIANT TypeOK
INVARIANT HeapWellFormed
INVARIANT NoAdjacentFree
INVARIANT FreeListExact
INVARIANT ClientBlocksExact
INVARIANT DataIntact
PROPERTY AllocatorRefined
