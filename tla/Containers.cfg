CONSTANTS
    PoolSize = 4
    Null = Null
    Data = Data
    Keys = {k1, k2, k3, k4}
    Values = {v1, v2}
    Capacity = 3
    Addr = {n1, n2, n3, n4}
    Free = Free
    Lists = {l1, l2}
    Cells = {1, 2, 3, 4}
    Nil = Nil
    Unused = Unused
    MapKeys = {1, 2, 3, 4}
    Hashes <- FourHashes
    Default = Default
    InitialBuckets = {1, 2, 3}
    Objects = {o1, o2}
    Payloads = {1, 2}
    MaxResources = 4
    ArenaSize = 8
    SIZE_T = 32
    MAX_ALIGN = 2
    Buffers = {2, 4}
    Requests = {1, 2, 3, 16, 27, 31}
    Sizes = {1, 2, 3}
    Alignments = {1, 2, 4}
    BlockCount = 4
SPECIFICATION ContainerSpec
SYMMETRY Symmetry
INVARIANT PoolSound
INVARIANT ListIntegrity
INVARIANT ContainersBehave
INVARIANT OwnershipSound
PROPERTY ImplementsLRU
