SPECIFICATION Spec
CONSTANTS
    Size = 3
    Delay = 2
    MaxPkts = 5
INVARIANTS
    TypeOK
    SentInOrder
    OnTime
PROPERTIES
    LineSpec
    Drains
CHECK_DEADLOCK FALSE
