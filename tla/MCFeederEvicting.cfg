SPECIFICATION FairFeederSpec
CONSTANTS
    None = None
    BLOCK_SIZE = 2
    FileSize = 9
    TotalBytes = 9
    CapacityBytes = 6
    Handlers = {h1, h2}
    SERVE_CHUNK = 2
    keep_ahead = 2
    Retries = 2
    ChunkLens = {2}
    StreamFaults = {"error", "short"}
    MaxRequests = 2
INVARIANTS
UnreadResident
PROPERTY
    StalledOnlyByEviction
