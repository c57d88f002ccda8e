CONSTANTS
    Scripts <- FewScripts
    Width = 2
    PtyCapacity = 2
    ReadSize = 1
    IdleLimit = 2
    Directories <- OneTaken
    Stamps = {1}
    Attempts = 2
    MaxStops = 1
    MaxKeys = 1
    MaxFaults = 1
SPECIFICATION Spec
INVARIANTS
    OutputIsComplete
    EverythingIsGivenBack
    PageShowsOutput
PROPERTIES
    RunReturns
