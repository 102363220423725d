\* All workers are ready, one is found by the first scan, the next scan is skipped.
\* The producer stops at the bound.
CONSTANTS
    NumWorkers = 2
    MinConsumers = 2
    MaxConsumers = 2
    Discovery = "slots"
    Coordination = "wait"
    Size = 2
    MaxSequence = 3
    MaxCrashes = 0
    Races <- ScanInterval
SPECIFICATION Spec
CHECK_DEADLOCK FALSE
INVARIANTS
    StrictFanOut
