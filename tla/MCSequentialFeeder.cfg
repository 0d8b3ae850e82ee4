SPECIFICATION FeederSpec
CONSTANTS
    None = None
    BLOCK_SIZE = 2
    FileSize = 7
    TotalBytes = None
    CapacityBytes = 6
    Handlers = {h1, h2}
    SERVE_CHUNK = 2
    keep_ahead = 2
    Retries = 2
    ChunkLens = {1, 2}
    StreamFaults = {"refuse", "error", "short"}
    MaxRequests = 2
SYMMETRY HandlerSymmetry
INVARIANTS
    PacedAhead
    NoMutualWait
    ConsumedStored
    SentPrefix
    AnswerComplete
