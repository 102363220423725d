\* A blocking receiver after an abandoned message.
CONSTANTS
    Depth = 1
    MaxFrames = 2
    MaxMessages = 2
    Receivers = {"owned"}
    MayFail = TRUE
    MaxCrashes = 0
SPECIFICATION FairSpec
CHECK_DEADLOCK FALSE
PROPERTIES
    CompleteIsDelivered
