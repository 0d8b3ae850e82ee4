SPECIFICATION FeederSpec
CONSTANTS
    None = None
    BLOCK_SIZE = 3
    FileSize = 10
    TotalBytes = 7
    CapacityBytes = 9
    Handlers = {h1, h2}
    SERVE_CHUNK = 2
    keep_ahead = 3
    Retries = 2
    ChunkLens = {3}
    StreamFaults = {"refuse", "error", "short"}
    MaxRequests = 2
SYMMETRY HandlerSymmetry
INVARIANTS
    SentPrefix
    AnswerComplete
