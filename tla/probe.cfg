CONSTANTS
    Targets = {t1}
    Addresses = {a1}
    None = None
    Servers <- TwoServers
    Retries = 1
    EchoNumbers = 3
    DnsNumbers = 3
    DnsPorts = 3
    MaxCommands = 4
    MaxAnswers = 1
    MaxRestarts = 1
    MaxFaults = 1
SPECIFICATION Spec
INVARIANTS
    FallbackIsComplete
PROPERTIES
    RecordIsProven
    EvidenceIsComplete
