\* Two named workers, one required, scans at most once per interval, a crash.
\* The producer stops at the bound, or waits for a dead worker.
CONSTANTS
    NumWorkers = 2
    MinConsumers = 1
    MaxConsumers = 2
    Discovery = "prefix"
    Coordination = "wait"
    Size = 2
    MaxSequence = 4
    MaxCrashes = 1
    Races <- DeadlineAndInterval
SPECIFICATION FairSpec
CHECK_DEADLOCK FALSE
PROPERTIES
    OverwritesOnlyAcknowledged
    NeverRegress
    EverythingPublished
