SPECIFICATION CacheSpec
CONSTANTS
    BLOCK_SIZE = 2
    CapacityBytes = 5
    FileSize = 7
    TotalBytes = 7
    None = None
INVARIANTS
    ResidentExact
    PendingIncomplete
    ReadExact
PROPERTY
    EvictsOldest
