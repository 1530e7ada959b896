\* One request at a time needs one handler.
SPECIFICATION LifeSpec
CONSTANTS
    Size = 3
    Requests = {r1}
    Cascade = FALSE
    None = None
    Wrong = Wrong
    Item = Item
INVARIANTS
    TypeOK
    PartIsPrefix
    PublishedIsWhole
    ServedMatchesChecksum
    NeverServedAgain
    NoPartLeft
PROPERTIES
    PublicationIsFinal
    KeepsPromise
    KeepsLifecycle
\* The item may never come into being, and the session be gone.
CHECK_DEADLOCK FALSE
