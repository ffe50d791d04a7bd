SPECIFICATION Spec
CONSTANTS
    shell1 = shell1
    systemd = systemd
    Shells <- OneShell
    Services <- NoService
    ShellCommands <- EveryCommand
    LastPid = 2
    AtomicPID = TRUE
    MaxCommands = 3
    MaxUpdates = 1
    MaxCrashes = 1
    MaxKills = 0
    MaxFailures = 1
    MaxReboots = 1
    MaxReuses = 1
    MaxExecs = 1
    NoFile = NoFile
    Empty = Empty
    Torn = Torn
INVARIANTS
    AtMostOneDaemon
    DaemonFound
    StoppedMeansNone
    StopIsShown
    StatusIsTheChilds
    ForeignUntouched
CHECK_DEADLOCK FALSE
