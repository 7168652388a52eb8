SPECIFICATION Spec
CHECK_DEADLOCK FALSE
CONSTANTS
    Dests <- MCDests
    Facilities <- MCFacilities
    KeyOf <- MCKeyOf
    Keys <- MCKeys
    LevelNames <- MCLevelNames
    MAX_LOG_TYPES = 3
    Environments <- MCEnvironments
    AssocKeys = {"a", "b", "c"}
    HashOf <- MCHashOf
    ChainCt = 3
    CellCt = 4
    MaxSurplus = 1
    Programs = {"p", "q"}
    StatTypes = {"app", "memory"}
    NR_MAX_STATS_SHMS = 3
    SegmentRoom = 2
    SegmentCt = 2
    ChildCt = 3
    ToolValues <- MCToolValues
    Texts = {"octal", "at"}
    Statics <- MCStatics
    DsoCt = 2
    Dsos = {"x", "y"}
    HooksOf <- MCHooksOf
    MAX_PLUGINS = 5
    FlagSets <- MCFlagSets
    MaxTries = 2
    Threads = {"t", "u", "v"}
    CondUsers = {"t", "u"}
    ListData = {"x", "y"}
    Copyable = {"x"}
    ListCellCt = 4
    Heads = {"g", "h"}
    BufCt = 3
    BufSize = 2
    MaxPending = 4
INVARIANTS
    MessagesFollow
    
    IterationComplete
    OwnStatistics
    ListingsAgree
    ExportReplays
    StartupComplete
    ThreadsAwaited
    ContentsKept
