SPECIFICATION Spec
CONSTANTS
    Tasks = {t1, t2}
    Workers = {w1}
    Cap = 1
    Targets <- OnlySshUp
    Existing <- OnlySshUp
    NoTask = NoTask
    NoWorker = NoWorker
CHECK_DEADLOCK FALSE
PROPERTIES CancelBeforeStart
