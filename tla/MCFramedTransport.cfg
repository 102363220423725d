\* Each of the receive calls, with abandoned messages and one restart.
\* The sender stops after its last message.
CONSTANTS
    Depth = 2
    MaxFrames = 3
    MaxMessages = 3
    Receivers = {"owned", "leased", "batch"}
    MayFail = TRUE
    MaxCrashes = 2
SPECIFICATION FairSpec
CHECK_DEADLOCK FALSE
INVARIANTS
    IInv
    IntactUnlessRestarted
PROPERTIES
    ImplementsQueue
    DeliveredUnlessFailed
