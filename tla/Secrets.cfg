SPECIFICATION Spec
CONSTANTS
    FD = {f1, f2, f3}
    User = {root, alice}
    Root = root
    SECRET_SIZE = 3
    Blank = blank
    Faults = {TRUE, FALSE}
INVARIANTS
    TypeOK
    PlaceInsideSecret
    WipedMeansGone
    SecretIsOnePiece
    NeverOverCounted
PROPERTY FullIsFrozen
SYMMETRY Descriptors
