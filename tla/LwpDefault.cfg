SPECIFICATION FairSpec
CONSTANTS
    Addr = {a1, a2, a3}
    NULL = null
    Scheduler = {}
    Resets = {}
    Inits = {}
    Links = {}
    MaxTid = 6
PROPERTIES
    EveryThreadGetsATurn
    ImplementsQueue
CHECK_DEADLOCK FALSE
