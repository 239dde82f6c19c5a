SPECIFICATION Spec
CONSTANTS
    MaxAsks = 3
    MaxThreads = 2
    MaxHistory = 4
    Trigger = 2
    Retain = 1
    MaxFailures = 2
    MaxToolCalls = 3
    MaxArguments = 2
    MaxParallel = 2
    MaxRetries = 1
    Providers = {1, 2}
    Models = {1, 2}
    MaxRuns = 1
    FirstBundle <- TheFirstBundle
    MaxFaults = 1
    MaxSkills = 2
    MaxCalls = 2
    MaxRevision = 3
    MaxPersonal = 2
    MaxAvailable = 2
    MaxActivations = 1
    Lists = {1, 2}
    Editors = {1, 2}
    MaxRows = 4
    MaxTracks = 2
    MaxQueue = 1
    Conversations = {"ann", "bob"}
    Users = {1, 2, 3}
    MaxSessions = 3
    MaxConcurrency = 2
    Persons = {"ann"}
    Bootstrap = {"root"}
    Areas = {"a", "b"}
    ChannelNames = {"x"}
    Granted <- SomeRoles
    Callers = {1, 2, 3}
    Parts <- AllParts
    Days <- SmallDays
    Displays <- SmallDisplays
    Chains <- SmallChains
    Changes <- SomeBundles
    Plans <- SmallPlans
    SharedLimit = 2
    Visits <- SmallVisits
    Listings <- SmallListings
    Orders <- SmallOrders
INVARIANTS
    TypeOK
    ConversationIsKept
    WritesAreTrue
    ActsOnce
PROPERTIES
    
    
    LibraryIsSerial
    
    
CHECK_DEADLOCK FALSE
