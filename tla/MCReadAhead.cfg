SPECIFICATION PlaybackSpec
CONSTANTS
    None = None
    BLOCK_SIZE = 1
    FileSize = 5
    TotalBytes = 5
    CapacityBytes = 4
    Workers = {w1, w2}
    Handlers = {}
    Prefetchers = {pf}
    Clients = {pf}
    WorkerSpans <- AnySpan
    ClientSpans <- AnySpan
    Requests <- WholeAndTail
    PrefetchSpans <- HeadSpans
    SERVE_CHUNK = 2
    CHUNK = 2
    RESET_THRESHOLD = 2
    READ_AHEAD_START = 0
    keep_ahead = 4
    Reports = {0, 3}
    SeekBack = TRUE
    MaxRequests = 0
    MAX_RUN_BLOCKS = 2
    MAX_CONCURRENT = 2
    Retries = 1
    ChunkLens = {1}
    RemoteFaults = {}
    MaxCalls = 12
SYMMETRY WorkerSymmetry
INVARIANTS
    PlaybackTypeOK
    ChunksDisjoint
