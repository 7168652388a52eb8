SPECIFICATION FairSpec
CONSTANTS
    c1 = c1
    c2 = c2
    c3 = c3
    c4 = c4
    CB = {c1, c2, c3}
    NULL = NULL
    NSOCKS = 1
    Builds = {"select"}
INVARIANTS
    QueueIsDrained
PROPERTIES
    RoundEnds
    ScheduledFires
