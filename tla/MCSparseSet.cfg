SPECIFICATION CarefulSpec
CONSTANTS
    Items = {0, 1, 2, 3}
    WordSize = 5
    MinCapacity = 2
    Garbage = {0, 1, 4}
INVARIANTS
    DenseIsLinked
    HasIsExact
    NeverUndefined
PROPERTY SetSpec
