SPECIFICATION Spec
CONSTANTS
    DirectZones = 3
    ZoneWords = 2
    ZoneEntries = 2
    MaxEntries = 9
    EarlierEntries = 9
    Inputs <- AllInputs
INVARIANTS
    TypeOK
    AnswersWhatIsNamed
    ListsTheDirectory
    OutputStartsWithFile
    SmallFileIsWhole
    BufferHoldsDirectory
    EarlierAgrees
CHECK_DEADLOCK FALSE
