CONSTANTS
    MaxPorts = 4
    Window = 2
    MaxScans = 1
    MaxFaults = 1
    MaxSteps = 0
    SeqCycle = 1
    Gaps <- OneTick
    Unreadable = Unreadable
    TableLimit = 1
    Plans <- OnePlan
    AddressSets <- OneFamily
SPECIFICATION Spec
INVARIANTS
    VerdictOnce
PROPERTIES
    NormalLegIsComplete
    ScanFinishes
