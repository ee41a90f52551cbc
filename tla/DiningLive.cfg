SPECIFICATION FairSpec
CONSTANTS
    N = 3
    NumCycles = 2
PROPERTIES
    Termination
    HungryEats
    ImplementsTable
