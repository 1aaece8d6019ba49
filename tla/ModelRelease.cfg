SPECIFICATION ReleaseSpec
CONSTANTS
    Levels = 2
    CODEBOOK = 2
    MAX_COLLISION = 2
    SERVICE_REGIONS = {"jeju"}
    MAX_VISITS = 2
    PARTS <- MCParts
    RATIOS <- MCRatios
    Shares = 4
    Logs <- MCLogs
    Shuffles <- MCShuffles
    DBs <- MCDBs
    Codings <- MCCodings
    Nearest <- MCNearest
    Losses = {1, 2}
    PATIENCE = 1
    EPOCHS = 2
    MaxDeaths = 1
    Payloads <- MCPayloads
    Costs = {0, 1}
    BEAM_CAP = 20
    MAX_FIRST_K = 100
    MAX_TRIP_DAYS = 2
    MAX_DAY_SLOTS = 2
INVARIANTS
    FinalUnread
    OneCoding
    BeamExact
    CodesServable
    TripDecoded
CHECK_DEADLOCK FALSE
VIEW MCView
