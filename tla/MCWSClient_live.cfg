SPECIFICATION MCFairSpec
CONSTANTS
    j1 = j1
    j2 = j2
    NoJob = NoJob
    JobIds <- OneJob
    Kinds <- JobTraffic
    MaxSends = 1
    MaxFaults = 2
    SendBuffer = 1
    InitialReconnect = 1
    MaxReconnectWait = 3
PROPERTIES
    StopsWhenCancelled
    DeadLinkNoticed
    Reconnects
    EveryJobSettled
