SPECIFICATION FairSpec
CONSTANTS
    ta = ta
    tb = tb
    Tasks = {ta, tb}
    Strategies <- Both
    BatchLimit = 1
    ClaimLimit = 2
    GroupLimit = 1
    Attempts = 2
    QueueSize = 2
    MaxBoots = 1
    MaxFaults <- FaultsOfBoth
    MaxTroubles = 1
    PromptWorkers = TRUE
INVARIANTS
    OnePresenter
    ToldOnce
    ClaimedIsHeld
PROPERTIES
    TextArrives
CHECK_DEADLOCK FALSE
