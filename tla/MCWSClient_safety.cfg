SPECIFICATION MCSpec
CONSTANTS
    j1 = j1
    j2 = j2
    NoJob = NoJob
    JobIds <- TwoJobs
    Kinds <- EveryKind
    MaxSends = 2
    MaxFaults = 2
    SendBuffer = 1
    InitialReconnect = 1
    MaxReconnectWait = 3
INVARIANTS
    TypeOK
    OneWriter
    RegistryExact
    EveryJobAnswered
    BackoffLaw
    JobsAccounted
    HeartbeatScoped
PROPERTY LinkSpec
