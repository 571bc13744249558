SPECIFICATION FairSpec
CONSTANTS
    Messages = {"b", "p"}
    Priority = {"p"}
    OwnHeader = {}
    Ping = "ping"
    BodySize <- MCBodySize
    HeaderSize <- MCHeaderSize
    ChunkSize = 10
    BatchSize = 11
    MaxQueue = 0
    MaxHeaders = 2
    MaxFaults = 1
    MaxReady = 2
INVARIANTS OneWriteAtATime StreamSound
PROPERTIES AlwaysReconnects NothingWaitsForEver
CHECK_DEADLOCK FALSE
