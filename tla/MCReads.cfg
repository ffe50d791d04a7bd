SPECIFICATION Spec
CONSTANTS
    NL = NL
    Letter = Letter
    Tails <- SmallTails
    Logs <- SmallLogs
    Appended <- Line
    BufferSize = 2
    MaxLog = 7
    Limits <- SmallLimits
    DefaultMax = 3
    MaxInt = 7
    MaxBody = 6
INVARIANTS
    TailIsExact
    BodyIsWhole
CHECK_DEADLOCK FALSE
