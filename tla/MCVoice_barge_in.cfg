SPECIFICATION Spec
CONSTANTS
    MaxSessions = 2
    Retries = 1
    MaxResponses = 2
    MaxChunks = 2
    EventCap = 2
    StagingCap = 2
    TransitCap = 1
    MaxProviders = 3
    MaxMedia = 2
    Attempts = 2
    ControlCap = 3
    Block = 2
    QueueLimit = 1
    Target = 4
    MaxBuffer = 6
    MaxGeneration = 3
    MaxRevision = 3
    MaxFailures = 3
    Refusals = {0, 4}
    Parts <- OnlyPlayout
    Sittings <- SmallSittings
    Troubles <- OneSpeech
    Losses <- OneLoss
    Programs <- OneProgram
INVARIANT SurvivesBargeIn
CHECK_DEADLOCK FALSE
