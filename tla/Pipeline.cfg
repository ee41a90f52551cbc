SPECIFICATION FairSpec
CONSTANTS
    NumLines = 4
    PipeSize = 2
INVARIANTS
    TypeOK
    SuccessIsReal
    EndMeansEnd
    NobodyHangs
PROPERTY AllEnd
CHECK_DEADLOCK FALSE
