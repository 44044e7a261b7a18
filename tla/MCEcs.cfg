SPECIFICATION Spec
CONSTANTS
    MinimumFree = 1
    MaskedWords = 2
    GenerationWords = 3
    IndexWords = 3
    Components = {a, b}
    Values = {v1, v2}
    ViewTypes <- MCViewTypes
    NoId = NoId
    NoView = NoView
    a = a
    b = b
INVARIANTS
    OwnInstance
    ViewIsExact
    LookupIsOwn
    NeverUndefined
    InstanceCount
CONSTRAINT MCOneValueOnceRemoved
SYMMETRY MCSymmetry
\* Nothing goes on once a deleted manager or a destroyed instance was used.
CHECK_DEADLOCK FALSE
