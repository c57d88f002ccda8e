CONSTANTS
    MaxSessions = 2
    MaxOps = 3
    MaxCrashes = 1
    RecordLimit = 1
    SessionLimit = 2
    RuntimeLimit = 3
    HeaderBytes = 1
    FrameBytes = 1
    DrainLimit = 2
    RingCap = 1
SPECIFICATION Spec
INVARIANTS
    LedgerIsExact
PROPERTIES
    TeardownComesFirst
    EvidenceComesFirst
    CaptureGatesNetwork
    OutputPromise
CHECK_DEADLOCK FALSE
