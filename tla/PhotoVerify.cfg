SPECIFICATION FairSpec
CONSTANTS
    Budget = 12
    OwnDeadlines = {4, 9}
    GeminiDeadline = 5
    Reserve = 4
    Margin = 2
    Guard = 1
    PoolTimeout = 1
    ConnectTimeout = 2
    WriteTimeout = 3
    MaxLag = 2
    MaxScore = 3
    SelfScale <- MCSelfScale
    GeminiScale <- MCGeminiScale
    None = None
INVARIANTS
    GeminiShareKept
    LogTellsPath
    BlankNeverPasses
PROPERTIES
    StageEndsInTime
CHECK_DEADLOCK FALSE
