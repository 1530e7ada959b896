SPECIFICATION BrowserSpec
CONSTANTS
    Size = 3
    Requests = {r1, r2}
    Cascade = FALSE
    None = None
    Wrong = Wrong
    ChunkSize = 2
    MaxRetries = 2
    ProbeAnswers = FALSE
    LossKinds = {"request", "answer"}
    MaxLosses = 2
    MaxFaults = 1
INVARIANTS
    BrowserTypeOK
    ReadyMeansStored
PROPERTY
    OneAtATime
\* The page stops when the file is ready or failed.
CHECK_DEADLOCK FALSE
