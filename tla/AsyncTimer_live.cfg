SPECIFICATION FairSpec
CONSTANTS
    c1 = c1
    c2 = c2
    c3 = c3
    CB = {c1, c2, c3}
    NULL = NULL
    WHEEL_SIZE = 2
    INT_RANGE = 16
    Delays = {0, 3}
    MaxTime = 4
PROPERTIES
    UpdateTerminates
    TimerFires
    ImplementsService
