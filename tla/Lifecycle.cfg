SPECIFICATION Spec
CONSTANTS
    Items = {i1}
    Resumables = {j1}
    Downloads = {d1}
    None = None
INVARIANTS
    TypeOK
    PublishedHasFile
    RemovedStaysClosed
    BurnedStaysExpired
    DeletionLeavesNoPart
PROPERTIES
    KeepsOffer
    ServedIsBurned
    ExpiredIsRemoved
\* Every upload and download may be over and the session gone.
CHECK_DEADLOCK FALSE
