\* Every kind of run, with three messages.  A run stops.
CONSTANTS
    Consumers = {"c0", "c1"}
    MessageCount = 3
    Runs <- MCRuns
SPECIFICATION FairSpec
CHECK_DEADLOCK FALSE
INVARIANTS
    IInv
    VerdictCorrect
    NothingLost
PROPERTIES
    RunEnds
