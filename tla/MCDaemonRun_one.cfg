SPECIFICATION FairSpec
CONSTANTS
    AutoUpgrade = TRUE
    MaxJobs = 1
    MaxImages = 1
    MaxFailures = 1
    NoOne = NoOne
    NoFile = NoFile
INVARIANTS
    TypeOK
    FinalCounts
    NoUnaskedExit
PROPERTIES
    CountersNeverDecrease
    StoppedStaysStopped
    ImageEnds
CHECK_DEADLOCK FALSE
