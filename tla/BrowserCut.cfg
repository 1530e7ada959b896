SPECIFICATION BrowserSpec
CONSTANTS
    Size = 1
    Requests = {r1, r2}
    Cascade = FALSE
    None = None
    Wrong = Wrong
    ChunkSize = 1
    MaxRetries = 3
    ProbeAnswers = FALSE
    LossKinds = {"connection"}
    MaxLosses = 1
    MaxFaults = 0
INVARIANT ServedMatchesChecksum
CHECK_DEADLOCK FALSE
