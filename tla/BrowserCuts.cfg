SPECIFICATION BrowserSpec
CONSTANTS
    Size = 2
    Requests = {r1, r2}
    Cascade = FALSE
    None = None
    Wrong = Wrong
    ChunkSize = 1
    MaxRetries = 2
    ProbeAnswers = TRUE
    LossKinds = {"request", "answer", "connection"}
    MaxLosses = 2
    MaxFaults = 0
PROPERTY EngineEnds
\* The page stops when the file is ready or failed.
CHECK_DEADLOCK FALSE
