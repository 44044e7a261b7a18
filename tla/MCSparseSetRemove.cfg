SPECIFICATION RemovingSpec
CONSTANTS
    Items = {0, 1, 2}
    WordSize = 4
    MinCapacity = 2
    Garbage = {0, 1}
INVARIANT MembersAreFound
