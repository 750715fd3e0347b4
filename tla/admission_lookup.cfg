SPECIFICATION Spec
CONSTANTS
    MaxConns = 4
    MaxFd = 4
    MaxThreadNum = 2
    PoolSize = 4
    MrSize = 2
    Wrap = 16
INVARIANTS
    SelfListed
CHECK_DEADLOCK FALSE
