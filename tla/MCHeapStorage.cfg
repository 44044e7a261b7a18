SPECIFICATION PartsSpec
CONSTANTS
    Parts = {"heap"}
    Base = 3
    BufLen = 7
    Sizes = {0, 2, 3}
    Aligns = {1, 4}
    MaxSavepoints = 2
    Uniques = {u1, u2, u3}
    Objects = {o1, o2}
    Null = Null
    Wild = Wild
    Nothing = Nothing
    Client = Client
    MinCapacity = 2
    Values = {v1, v2, v3}
    Fresh = Fresh
    NoValue = NoValue
    MaxLen = 4
    Queues = {q1, q2}
    HeaderSize = 2
    EventTypes = {t1, t2}
    EventSizes = {1, 2}
    MaxBytes = 10
    WordBytes = 8
    DefaultAlignment = 16
    Addresses = {128, 384}
    HeapSizes = {128}
    Alignments = {128}
    Junk = Junk
    Types <- MCTypes
    MaxMembers = 4
INVARIANT StorageIsAsAsked
