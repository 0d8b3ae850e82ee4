SPECIFICATION PlaybackSpec
CONSTANTS
    None = None
    BLOCK_SIZE = 1
    FileSize = 6
    TotalBytes = 6
    CapacityBytes = 4
    Workers = {w1}
    Handlers = {}
    Prefetchers = {pf}
    Clients = {pf}
    WorkerSpans <- AnySpan
    ClientSpans <- AnySpan
    Requests <- WholeAndTail
    PrefetchSpans <- HeadSpans
    SERVE_CHUNK = 2
    CHUNK = 2
    RESET_THRESHOLD = 2
    READ_AHEAD_START = 0
    keep_ahead = 4
    Reports = {0, 1}
    SeekBack = TRUE
    MaxRequests = 0
    MAX_RUN_BLOCKS = 2
    MAX_CONCURRENT = 2
    Retries = 1
    ChunkLens = {1}
    RemoteFaults = {}
    MaxCalls = 12
PROPERTIES
    NeverFurther
