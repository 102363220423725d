\* Two required consumers; batches of three never fit the two slots.
CONSTANTS
    Required <- TwoRequired
    Size = 2
    MaxBatch = 3
    MaxSequence = 4
    StartupTimeout = 1
    ProgressTimeout = 2
    CheckInterval = 1
    Grace = 1
SPECIFICATION FairSpec
INVARIANTS
    IInv
    OneAlertPerStall
PROPERTIES
    FailureIsReal
    CallEnds
