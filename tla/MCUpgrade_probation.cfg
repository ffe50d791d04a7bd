SPECIFICATION Spec
CONSTANTS
    LastBuild = 3
    VersionOf <- ThreeVersions
    BadBuilds = {}
    Upgraders <- DaemonOnly
    StopMidUpgrade = TRUE
    MaxCrashes = 1
    MaxFailures = 0
    MaxWindows = 1
    Corrupt = Corrupt
    NoFile = NoFile
    Empty = Empty
    Torn = Torn
INVARIANT InstalledOnProbation
