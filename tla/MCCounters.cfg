\* Two writers, a table of two slots and one label for all counters.
\* The aggregator ends, and counters stop at their bound.
CONSTANTS
    w1 = w1
    w2 = w2
    Writers = {w1, w2}
    Capacity = 2
    Labels = {"events"}
    MaxValue = 2
SPECIFICATION FairSpec
CHECK_DEADLOCK FALSE
INVARIANTS
    IInv
    SlotsExclusive
    SnapshotsFaithful
PROPERTIES
    HighWater
    DropReturns
