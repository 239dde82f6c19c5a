SPECIFICATION FairSpec
CONSTANTS
    ta = ta
    tb = tb
    ann = ann
    bob = bob
    Tasks = {ta, tb}
    Owners = {ann, bob}
    OwnerOf <- TwoOwners
    LaneOf <- TwoReads
    Slots = {1}
    ReadConcurrency = 1
    PerUser = 1
    MaxRetries = 1
    MaxBoots = 1
    MaxFaults = 1
    PromptCleanup = TRUE
INVARIANTS
    ConcurrencyLimits
    WorkIsOwned
PROPERTIES
    TasksSettle
CHECK_DEADLOCK FALSE
