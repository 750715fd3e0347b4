SPECIFICATION FairSpec
CONSTANTS
    MaxConns = 4
    MaxFd = 4
    MaxThreadNum = 2
    PoolSize = 4
    MrSize = 2
    Wrap = 16
INVARIANTS
    ListIsThreads
    OwnPeer
    PoolHolds
PROPERTIES
    
    RoomAgain
CHECK_DEADLOCK FALSE
