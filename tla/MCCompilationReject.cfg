SPECIFICATION Spec
CONSTANTS
    iz = iz
    re = re
    x = x
    p1 = p1
    p2 = p2
    p3 = p3
    p4 = p4
    NULL = NULL
    Keys <- MCKeys
    Values <- MCValues
    Size <- MCSize
    Buckets <- MCBuckets
    Hash <- MCHash
    MaxLine = 2
INVARIANT
    RejectionIsReported
