\* Four blocks of two bytes.
CONSTANTS
  NumItems = 4
  item_size = 2
  Offsets <- MCOffsets
SPECIFICATION PoolSpec
INVARIANTS PoolTypeOK FreeListIsChain
PROPERTIES ImplementsBlockPool
