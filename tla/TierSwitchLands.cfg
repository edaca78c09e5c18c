SPECIFICATION Spec
CONSTANTS
    Targets <- AllTiers
    Rec = {"a", "b"}
    MaxKeys = 3
    Faults <- NoFaults
INVARIANT SwitchLands
