SPECIFICATION LiveSpec
CONSTANTS
    Typists = {k1}
    Timers = {t1, t2}
    Rotors = {r1}
    NoTimer = NoTimer
    Threshold = 2
    Capacity = 1
    MaxSize = 1
    MaxChunks = 2
    Faults = TRUE
CHECK_DEADLOCK FALSE
INVARIANTS TypeOK Accounted NoStrandedBytes OneRotation FramesDecodable CloseKeeps
PROPERTIES ChunkSettles CloseSeals
