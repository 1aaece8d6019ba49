SPECIFICATION FairSpec
CONSTANTS
    r1 = r1
    r2 = r2
    Requests = {r1, r2}
    Chunks <- MCChunksTwoOne
    MaxCalls = 1
    MaxAttempts = 2
    ErrorKinds = {"502"}
    CancelMayRaise = FALSE
PROPERTIES
    EverythingServed
