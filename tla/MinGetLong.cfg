SPECIFICATION Spec
CONSTANTS
    DirectZones = 3
    ZoneWords = 2
    ZoneEntries = 2
    MaxEntries = 9
    EarlierEntries = 9
    Inputs <- LongFiles
INVARIANT OutputIsFile
CHECK_DEADLOCK FALSE
