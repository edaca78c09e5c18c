SPECIFICATION Spec
CONSTANTS
    Targets <- AllTiers
    Rec = {"a", "b"}
    MaxKeys = 3
    Faults <- AllFaults
INVARIANTS TypeOK KeyKept MarkerTells RecordingsFollow ActiveIsCurrent
