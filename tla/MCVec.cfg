SPECIFICATION CarefulSpec
CONSTANTS
    Vecs = {v1, v2}
    Values = {d, x}
    DefaultValue = d
    Blocks = {b1, b2, b3}
    MinCapacity = 2
    MaxLen = 4
    Raw = Raw
    Null = Null
    NoVec = NoVec
SYMMETRY Symmetry
INVARIANTS
    BlocksHaveOneOwner
    ObjectsAreElements
    NeverUndefined
 
