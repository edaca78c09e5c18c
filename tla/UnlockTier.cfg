SPECIFICATION Spec
CONSTANTS
    Kinds = {"paranoid"}
    MaxInputs = 4
CHECK_DEADLOCK FALSE
INVARIANTS TierKept
