SPECIFICATION Spec
CONSTANTS
    MinimumFree = 1
    MaskedWords = 2
    GenerationWords = 3
    IndexWords = 3
    Components = {a, b}
    Values = {v1}
    ViewTypes <- MCViewTypes
    NoId = NoId
    NoView = NoView
    a = a
    b = b
INVARIANT AttachedHaveInstances
SYMMETRY MCSymmetry
