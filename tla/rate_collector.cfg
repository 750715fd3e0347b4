SPECIFICATION FairSpec
CONSTANTS
    NumClients = 2
    Offset = 2
    Delays = {0, 2}
    MinReports = 1
    MinLast = 1
    MaxLast = 3
    MayDrop = TRUE
INVARIANTS
    NoUnderflow
    InOrderComplete
    NotLate
PROPERTIES
    CheckerEnds
    PublishSpec
CHECK_DEADLOCK FALSE
