SPECIFICATION Spec
CONSTANTS
    c1 = c1
    c2 = c2
    c3 = c3
    CB = {c1, c2, c3}
    NULL = NULL
    WHEEL_SIZE = 2
    INT_RANGE = 12
    Delays = {0, 1, 3}
    MaxTime = 7
SYMMETRY Symmetry
INVARIANTS
    TypeOK
    LinkedOnce
    CountIsExact
    WalkPointersValid
    HandlesAreArmed
    Punctual
    NextTimeoutExact
PROPERTIES
    FiresOnlyHeld
    NeverEarly
