SPECIFICATION Spec
CONSTANTS
    LastBuild = 4
    VersionOf <- Rerelease
    BadBuilds = {}
    Upgraders <- DaemonOnly
    StopMidUpgrade = FALSE
    MaxCrashes = 2
    MaxFailures = 2
    MaxWindows = 3
    Corrupt = Corrupt
    NoFile = NoFile
    Empty = Empty
    Torn = Torn
INVARIANTS
    TypeOK
    InstalledVerified
    InstalledOnProbation
    RollbackRestoresPrevious
CHECK_DEADLOCK FALSE
