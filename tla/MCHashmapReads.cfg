SPECIFICATION WritingSpec
CONSTANTS
    Keys = {k1, k2}
    Values = {v1, v2}
    Empty = Empty
    Default = Default
    Capacity = 2
SYMMETRY Symmetry
INVARIANT ReadsAreExact
