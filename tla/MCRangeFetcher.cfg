SPECIFICATION FetcherSpec
CONSTANTS
    None = None
    BLOCK_SIZE = 2
    FileSize = 5
    TotalBytes = 5
    CapacityBytes = 4
    Workers = {w1}
    Clients = {c1}
    WorkerSpans <- ReadAheadSpans
    ClientSpans <- PlayerSpans
    MAX_RUN_BLOCKS = 2
    MAX_CONCURRENT = 1
    Retries = 2
    ChunkLens = {2}
    RemoteFaults = {"break", "error", "short"}
    MaxCalls = 3
INVARIANTS
    FetcherTypeOK
    SlotsExact
    InsideRun
    OneOwner
    CacheHoldsMedia
PROPERTY
    ImplementsService
