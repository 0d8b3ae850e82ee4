SPECIFICATION FairFetcherSpec
CONSTANTS
    None = None
    BLOCK_SIZE = 2
    FileSize = 5
    TotalBytes = 5
    CapacityBytes = 6
    Workers = {w1}
    Clients = {c1}
    WorkerSpans <- OddSpans
    ClientSpans <- OddSpans
    MAX_RUN_BLOCKS = 2
    MAX_CONCURRENT = 2
    Retries = 2
    ChunkLens = {1, 2}
    RemoteFaults = {}
    MaxCalls = 3
INVARIANTS
    OwnCells
    AnswerFramed
    FetchableServed
PROPERTY
    EveryCallReturns
