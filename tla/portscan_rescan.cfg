CONSTANTS
    MaxPorts = 2
    Window = 2
    MaxScans = 2
    MaxFaults = 1
    MaxSteps = 0
    SeqCycle = 2
    Gaps <- OneTick
    Unreadable = Unreadable
    TableLimit = 1
    Plans <- RescanPlan
    AddressSets <- BothFamilies
SPECIFICATION Spec
INVARIANTS
    OpenReachesPetal
PROPERTIES
    OpenIsProven
    EnrichesThisLeg
