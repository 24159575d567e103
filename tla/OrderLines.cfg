SPECIFICATION Spec
CONSTANTS
    l1 = l1
    l2 = l2
    c1 = c1
    c2 = c2
    None = None
    Lines = {l1, l2}
    Pickup = {l1, l2}
    Bought <- Two
    Calls = {c1, c2}
    k1 = k1
    k2 = k2
    Keys = {k1, k2}
    ClientOps = {"move", "confirm", "open", "approve", "reject", "complete", "get"}
    Starts <- Stages
    MaxPins = 2
    MaxCalls = 2
    MaxFails = 1
SYMMETRY Symmetric
CHECK_DEADLOCK FALSE
INVARIANTS
    UnitsAgree
    StatusFollowsLines
    CacheOnlyStaleByRace
    BusyHasACause
PROPERTY LinesFollowTable
