SPECIFICATION Spec
CONSTANTS
    r1 = r1
    r2 = r2
    Requests = {r1, r2}
    Chunks <- MCChunksThreeOne
    MaxCalls = 2
    MaxAttempts = 2
    ErrorKinds = {"429", "504", "bug"}
    CancelMayRaise = TRUE
INVARIANTS
    PermitsConserved
    NoLostWakeup
    OneWorkerPerChunk
    OutcomeRight
    NoStrayWorker
