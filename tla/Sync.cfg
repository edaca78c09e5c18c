SPECIFICATION Spec
CONSTANTS
    d1 = d1
    d2 = d2
    s = s
    t = t
    Device <- TwoDevices
    Row = {s}
    CreatedOnly = {}
    MaxTime = 2
    MaxPush = 3
    MaxUpset = 1
    Slots = {"only"}
SYMMETRY Swap
CHECK_DEADLOCK FALSE
INVARIANTS TypeOK UpToDateIsTrue
PROPERTIES PushKeepsPeers
