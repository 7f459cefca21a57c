SPECIFICATION DictSpec
CONSTANTS
    k1 = k1
    k2 = k2
    k3 = k3
    k4 = k4
    k5 = k5
    v1 = v1
    v2 = v2
    NULL = NULL
    Keys <- MCKeys
    Values <- MCValues
    Buckets <- MCBuckets
    Hash <- MCHash
INVARIANTS
    DictTypeOK
    KeysAtHomeOnce
    OccupationTellsEmpty
PROPERTY
    ImplementsMap
CHECK_DEADLOCK FALSE
