SPECIFICATION Spec
CONSTANTS
    Size = 1
    Requests = {r1, r2}
    Cascade = TRUE
    None = None
    Wrong = Wrong
SYMMETRY Symmetry
INVARIANTS
    DeclaredChecksumKept
    PublishedHasFile
