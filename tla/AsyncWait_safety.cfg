SPECIFICATION Spec
CONSTANTS
    c1 = c1
    c2 = c2
    c3 = c3
    c4 = c4
    CB = {c1, c2, c3, c4}
    NULL = NULL
    NSOCKS = 2
    Builds = {"select", "epoll"}
SYMMETRY Symmetry
INVARIANTS
    TypeOK
    OnePlace
    NothingLost
PROPERTIES
    FiresOnlyWanted
