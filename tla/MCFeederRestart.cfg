SPECIFICATION FeederSpec
CONSTANTS
    None = None
    BLOCK_SIZE = 2
    FileSize = 5
    TotalBytes = 5
    CapacityBytes = 6
    Handlers = {h1}
    SERVE_CHUNK = 2
    keep_ahead = 2
    Retries = 2
    ChunkLens = {2}
    StreamFaults = {"break"}
    MaxRequests = 1
INVARIANT
    SentPrefix
