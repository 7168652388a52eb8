SPECIFICATION Spec
CONSTANTS
    NULL = NULL
    Names <- MCNames
    Payloads <- MCPayloads
    Watches <- MCWatches
    Hashes <- MCHashes
    MaxDepth = 0
INVARIANTS
    MapsToNodes
