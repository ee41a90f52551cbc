CONSTANTS
    Size <- Sizes
    HeaderSize = 32
    Alignment = 16
    ChunkA = 8
    ChunkB = 14
    HeapStart = 64
    HeapLimit = 400
    MaxBlocks = 4
    Garbage <- Numbers
SPECIFICATION Spec
INVARIANTS
    TypeOK
    BlocksInOrder
    LivePointersOwned
    NoFreeNeighbours
PROPERTY AllocatesUntilCorrupt
CHECK_DEADLOCK FALSE
