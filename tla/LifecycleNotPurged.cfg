SPECIFICATION Spec
CONSTANTS
    Items = {i1}
    Resumables = {}
    Downloads = {d1}
    None = None
INVARIANT PurgedFromDisk
CHECK_DEADLOCK FALSE
