CONSTANTS
    Main = main
    Workers = {w1}
    Capacity = 2
    RowLimit = 1
    MaxCalls = 4
    MaxFaults = 1
SPECIFICATION Spec
INVARIANTS
    ProgramOrder
    SyncIsBarrier
    AckOutlivesEvent
PROPERTIES
    ChannelSpec
    CallsReturn
