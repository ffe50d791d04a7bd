SPECIFICATION FairSpec
CONSTANTS
    LastBuild = 3
    VersionOf <- Reissue
    BadBuilds <- Third
    Upgraders <- DaemonOnly
    StopMidUpgrade = TRUE
    MaxCrashes = 1
    MaxFailures = 1
    MaxWindows = 0
    Corrupt = Corrupt
    NoFile = NoFile
    Empty = Empty
    Torn = Torn
PROPERTY BadBuildTakenBack
CHECK_DEADLOCK FALSE
