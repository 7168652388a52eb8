SPECIFICATION Spec
CONSTANTS
    NULL = NULL
    Names <- SmallNames
    Payloads <- SmallPayloads
    Watches <- SmallWatches
    Hashes <- MCHashes
    MaxDepth = 1
INVARIANTS
    AncestorsPresent
    
