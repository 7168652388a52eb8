SPECIFICATION Spec
CHECK_DEADLOCK FALSE
CONSTANTS
    c1 = c1
    c2 = c2
    Clients = {c1, c2}
    Names = {n1}
    Values <- MCString
    Procs <- MCEvents
    NONE = NONE
    MAX_TRIES = 1
    MAXLEN = 2
    MAXCOUNT = 1
    MaxPipe = 1
    MaxOrphans = 1
    MaxCrashes = 1
PROPERTIES
    CallReturns
    
