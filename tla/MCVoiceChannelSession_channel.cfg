SPECIFICATION FairSpec
CONSTANTS
    music = music
    ann = ann
    bob = bob
    eve = eve
    hall = hall
    den = den
    NoChannel = NoChannel
    NoClient = NoClient
    Clients = {music, ann, bob, eve}
    KindOf <- Kinds
    ChannelOf <- Places
    Mixed = TRUE
    Threshold = 2
    MaxGens = 2
    MaxFaults = 1
    MaxDrops = 1
INVARIANTS
    OneSession
    BotIsAccounted
PROPERTIES
    LeavesOnlyUnheld
    ClosesAndLossesEnd
CHECK_DEADLOCK FALSE
