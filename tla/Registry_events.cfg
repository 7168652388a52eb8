SPECIFICATION FairSpec
CONSTANTS
    NULL = NULL
    Names <- MCNames
    Payloads <- MCPayloads
    Watches <- MCWatches
    Hashes <- MCHashes
    MaxDepth = 0
INVARIANTS
    TypeOK
    WatcherAgrees
    ListsChildren
PROPERTIES
    ParentsFirst
    CallReturns
