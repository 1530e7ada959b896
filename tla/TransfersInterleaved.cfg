SPECIFICATION Spec
CONSTANTS
    Posts = {p1, p2}
    Uploads = {u1}
    Requests = {r1, r2}
    Downloads = {d1}
    Scenarios <- PostsOrUploads
    Paths <- TwoPaths
    PathOf <- PostsShare
    Chunks = 2
    MaxRegistrations = 2
    MaxFaults = 2
    None = None
INVARIANTS
    TypeOK
    StoredAsRecorded
    WholeUnlessRepeated
    RemovedWithItsFile
SYMMETRY Symmetry
\* Every post and upload may be over.
CHECK_DEADLOCK FALSE
