SPECIFICATION Spec
CONSTANTS
    FD = {f1, f2}
    User = {root, alice}
    Root = root
    SECRET_SIZE = 2
    Blank = blank
    Faults = {FALSE}
PROPERTY LastReaderWipes
