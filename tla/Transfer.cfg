SPECIFICATION LiveSpec
CONSTANTS
    Tasks = {t1, t2}
    Workers = {w1, w2}
    Cap = 1
    Targets <- EveryPath
    Existing <- OnlySshUp
    NoTask = NoTask
    NoWorker = NoWorker
CHECK_DEADLOCK FALSE
INVARIANTS TypeOK TokenHitsOwner ReportIsTrue NoLostCopy
PROPERTIES WholeFilesOnly LifecycleSpec CancelEnds EveryTaskEnds
