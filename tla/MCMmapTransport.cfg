\* One consumer the producer waits for and one that joins when it likes, a
\* crash or a listing that fails.  The system stops when everything is published and read.
CONSTANTS
    Consumers = {"c1", "c2"}
    Size = 2
    MinConsumers = 1
    MaxBatch = 2
    MaxSequence = 2
    MaxFaults = 1
SPECIFICATION FairSpec
CHECK_DEADLOCK FALSE
INVARIANTS
    IInv
    ReadinessExact
    NothingLost
PROPERTIES
    EverythingConsumed
