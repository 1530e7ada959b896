SPECIFICATION BrowserSpec
CONSTANTS
    Size = 2
    Requests = {r1, r2}
    Cascade = FALSE
    None = None
    Wrong = Wrong
    ChunkSize = 1
    MaxRetries = 3
    ProbeAnswers = FALSE
    LossKinds = {"answer"}
    MaxLosses = 1
    MaxFaults = 0
INVARIANT FailsForAReason
CHECK_DEADLOCK FALSE
