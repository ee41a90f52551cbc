SPECIFICATION Spec
CONSTANTS
    N = 5
    NumCycles = 1
INVARIANTS
    TypeOK
    NeighboursNeverEatTogether
    NobodyLosesAMutex
    CleanupIsSafe
    NoGridlock
    ForkInTwoHandsIsBeingDropped
PROPERTY RowIsStableWhilePrinted
