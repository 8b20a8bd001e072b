SPECIFICATION Spec
CONSTANTS
  ChunkIds = {k1, k2, k3}
  ChunkSize = 4
CHECK_DEADLOCK FALSE
SYMMETRY ChunkSymmetry
INVARIANTS TypeOK NeverNull ListedChunks SlotsConsistent
PROPERTIES LostOnlyAtCleanup ImplementsSlotPool
