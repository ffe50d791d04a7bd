SPECIFICATION Spec
CONSTANTS
    LastBuild = 4
    VersionOf <- Rerelease
    BadBuilds = {}
    Upgraders <- CLIOnly
    StopMidUpgrade = TRUE
    MaxCrashes = 1
    MaxFailures = 1
    MaxWindows = 1
    Corrupt = Corrupt
    NoFile = NoFile
    Empty = Empty
    Torn = Torn
INVARIANTS
    NoRollbackAfterCleanStop
CHECK_DEADLOCK FALSE
