SPECIFICATION Spec
CONSTANTS
    Items = {i1}
    Resumables = {}
    Downloads = {d1, d2}
    None = None
INVARIANT ServedOnce
CHECK_DEADLOCK FALSE
