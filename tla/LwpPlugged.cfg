SPECIFICATION Spec
CONSTANTS
    Addr = {a1, a2, a3}
    NULL = null
    Scheduler = {s1, s2, s3}
    Resets = {s3}
    Inits = {s3}
    Links = {s1, s2}
    MaxTid = 6
SYMMETRY Symmetry
INVARIANTS
    TypeOK
    EveryThreadScheduled
    ListIsClosed
    ThreadsAreFound
    CurrentIsFit
CHECK_DEADLOCK FALSE
