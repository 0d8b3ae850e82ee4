SPECIFICATION FetcherSpec
CONSTANTS
    None = None
    BLOCK_SIZE = 2
    FileSize = 5
    TotalBytes = 5
    CapacityBytes = 6
    Workers = {}
    Clients = {c1}
    WorkerSpans <- ReadAheadSpans
    ClientSpans <- HeadSpan
    MAX_RUN_BLOCKS = 2
    MAX_CONCURRENT = 2
    Retries = 2
    ChunkLens = {1, 2}
    RemoteFaults = {"break"}
    MaxCalls = 2
INVARIANT
    ResultExact
