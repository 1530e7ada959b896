SPECIFICATION Spec
CONSTANTS
    Clients = {c1}
    Routes = {login}
    MaxRequests <- TwoPerRoute
    WindowSeconds <- ThreeSeconds
    Second = 2
    Horizon = 14
    MaxSetBacks = 2
    None = None
INVARIANTS
    TypeOK
    WithinLimit
    RetryAfterIsRight
