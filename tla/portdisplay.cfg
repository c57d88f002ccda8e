CONSTANTS
    MaxPorts = 2
    Window = 2
    MaxScans = 2
    MaxFaults = 1
    MaxSteps = 1
    SeqCycle = 1
    Gaps <- OneTick
    Unreadable = Unreadable
    TableLimit = 1
    Plans <- DisplayPlan
    AddressSets <- EitherFamily
SPECIFICATION Spec
INVARIANTS
    SelectMatchesDisplay
    SynAckStaysOnDisplay
    PlainOpenIsCurrent
