SPECIFICATION Spec
CONSTANTS
    Lengths = {0, 1, 2, 3, 4, 5, 6}
    MaxBuffered = 1
    CacheLimit = 3
    ReadLimit = 2
INVARIANTS
    CorruptEndsShort
    BodyInOrder
    LimitExact
    WriteThrough
