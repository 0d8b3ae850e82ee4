SPECIFICATION FeederSpec
CONSTANTS
    None = None
    BLOCK_SIZE = 3
    FileSize = 8
    TotalBytes = 4
    CapacityBytes = 9
    Handlers = {h1}
    SERVE_CHUNK = 2
    keep_ahead = 3
    Retries = 2
    ChunkLens = {1, 2}
    StreamFaults = {}
    MaxRequests = 1
INVARIANT
    SentPrefix
