SPECIFICATION CarefulSpec
CONSTANTS
    Keys = {k1, k2, k3, k4, k5}
    Values = {v1, v2}
    Empty = Empty
    Default = Default
    Capacity = 4
SYMMETRY Symmetry
INVARIANTS
    OneBucketPerKey
    LenIsExact
    RobinHood
PROPERTY MapSpec
