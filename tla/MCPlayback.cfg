SPECIFICATION FairPlaybackSpec
CONSTANTS
    None = None
    BLOCK_SIZE = 1
    FileSize = 3
    TotalBytes = 3
    CapacityBytes = 2
    Workers = {w1}
    Handlers = {h1}
    Prefetchers = {}
    Clients = {h1}
    WorkerSpans <- AnySpan
    ClientSpans <- AnySpan
    Requests <- WholeAndTail
    PrefetchSpans <- HeadSpans
    SERVE_CHUNK = 2
    CHUNK = 1
    RESET_THRESHOLD = 1
    READ_AHEAD_START = 0
    keep_ahead = 2
    Reports = {0, 2}
    SeekBack = TRUE
    MaxRequests = 1
    MAX_RUN_BLOCKS = 2
    MAX_CONCURRENT = 2
    Retries = 1
    ChunkLens = {1}
    RemoteFaults = {"break"}
    MaxCalls = 12
PROPERTIES
    ImplementsResponse
    AheadAgain
    ThreadsEnd
