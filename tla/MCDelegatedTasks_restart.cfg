SPECIFICATION Spec
CONSTANTS
    ta = ta
    tb = tb
    ann = ann
    bob = bob
    Tasks = {ta, tb}
    Owners = {ann, bob}
    OwnerOf <- TwoOwners
    LaneOf <- ReadAndMutation
    Slots = {1}
    ReadConcurrency = 1
    PerUser = 1
    MaxRetries = 1
    MaxBoots = 2
    MaxFaults = 0
    PromptCleanup = TRUE
INVARIANTS
    MutationRunsOnce
    CancelWins
    ShutdownReleases
    IInv
PROPERTIES
    OutcomeIsFinal
    KeepsPromise
CHECK_DEADLOCK FALSE
