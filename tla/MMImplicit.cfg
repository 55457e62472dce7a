\* The implicit allocator: three client slots, so that a block can be freed
\* between two free neighbours, requests giving 16- and 32-byte blocks, and
\* a heap that grows from 32 to 64 bytes in steps of at least CHUNKSIZE.
CONSTANTS
  CHUNKSIZE = 16
  MAX_HEAP = 64
  SIZE_T_BITS = 16
  Slots = {1, 2, 3}
  Requests = {0, 4, 20}
SPECIFICATION Spec
INVARIANT TypeOK
INVARIANT HeapWellFormed
INVARIANT NoAdjacentFree
INVARIANT ClientBlocksExact
INVARIANT DataIntact
PROPERTY AllocatorRefined
