SPECIFICATION FairSpec
CONSTANTS
    shell1 = shell1
    systemd = systemd
    Shells <- OneShell
    Services <- Systemd
    ShellCommands <- Changing
    LastPid = 2
    AtomicPID = FALSE
    MaxCommands = 2
    MaxUpdates = 1
    MaxCrashes = 1
    MaxKills = 1
    MaxFailures = 0
    MaxReboots = 0
    MaxReuses = 0
    MaxExecs = 1
    NoFile = NoFile
    Empty = Empty
    Torn = Torn
INVARIANTS
    TypeOK
    NoStrayChild
    TargetStopped
PROPERTY
    SignalledEnds
CHECK_DEADLOCK FALSE
