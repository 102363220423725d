\* Two consumers and three events on a ring of two slots.  Batches may be larger
\* than the ring: a waiting call of three never returns.
CONSTANTS
    c1 = c1
    c2 = c2
    Consumers = {c1, c2}
    Size = 2
    MaxBatch = 3
    MaxSequence = 2
    MaxCrashes = 1
SPECIFICATION FairSpec
INVARIANTS
    UnreadEventsIntact
    NoDataRace
    AckAtMostOneAhead
    ConfirmedIsConsumed
    IInv
PROPERTIES
    ImplementsLog
    DeliveredInOrder
    PublishedIsConsumed
    BlockedCallReturns
