\* A cursor is attached before its initial value is written.
\* The producer stops at the bound.
CONSTANTS
    NumWorkers = 1
    MinConsumers = 1
    MaxConsumers = 1
    Discovery = "prefix"
    Coordination = "immediate"
    Size = 2
    MaxSequence = 2
    MaxCrashes = 0
    Races <- Initialisation
SPECIFICATION Spec
CHECK_DEADLOCK FALSE
PROPERTIES
    NeverRegress
