\* Twice as many events as slots.
CONSTANTS
    Size = 4
    Load = 8
    MayPanic = TRUE
SPECIFICATION FairSpec
INVARIANTS
    IInv
    NothingSkipped
PROPERTIES
    DropReturns
    EventsHandled
