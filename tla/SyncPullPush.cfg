SPECIFICATION Spec
CONSTANTS
    d1 = d1
    d2 = d2
    s = s
    t = t
    Device <- TwoDevices
    Row = {s, t}
    CreatedOnly = {t}
    MaxTime = 3
    MaxPush = 3
    MaxUpset = 0
    Slots = {"only"}
SYMMETRY Swap
CHECK_DEADLOCK FALSE
INVARIANT PullUnblocksPush
