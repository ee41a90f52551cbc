CONSTANTS
    Size <- LargeSizes
    HeaderSize = 32
    Alignment = 16
    ChunkA = 64
    ChunkB = 1024
    HeapStart = 65536
    HeapLimit = 262144
    MaxBlocks = 3
    Garbage <- Numbers
SPECIFICATION Spec
INVARIANT HeapHoldsBlocks
CHECK_DEADLOCK FALSE
