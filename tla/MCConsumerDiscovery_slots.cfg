\* Two workers with registered ids, of which a restarted one needs a third that the
\* scans do not reach; every race, and a crash.  The producer stops at the bound, or waits
\* for a dead worker.
CONSTANTS
    NumWorkers = 2
    MinConsumers = 2
    MaxConsumers = 2
    Discovery = "slots"
    Coordination = "wait"
    Size = 2
    MaxSequence = 5
    MaxCrashes = 1
    Races <- AllRaces
SPECIFICATION Spec
CHECK_DEADLOCK FALSE
INVARIANTS
    IInv
    EveryEventSeen
    WaitedForEnough
