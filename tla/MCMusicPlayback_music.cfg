SPECIFICATION FairSpec
CONSTANTS
    MaxItems = 3
    MaxQueue = 2
    MaxTroubles = 2
    MaxWishes = 1
INVARIANTS
    
    SessionAgrees
PROPERTIES
    WishesAreExact
    WishesEnd
CHECK_DEADLOCK FALSE
