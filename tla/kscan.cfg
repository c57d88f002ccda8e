CONSTANTS
    Threads = {t1, t2}
    Jobs = {j1, j2}
    QueueCapacity = 2
    Batch = 2
    PendingLimit = 2
    CaptureTotal = 1
    MaxFaults = 1
SPECIFICATION Spec
INVARIANTS
    StagedIsExact
    CaptureIsExact
    RetiredOnce
    SessionOutlivesWorkers
PROPERTIES
    FateIsFinal
    SessionEnds
