SPECIFICATION Spec
CONSTANTS
    Flows = {"f1", "f2"}
    Ports = {"edge", "core"}
    Path <- MCPath
    LineRate <- MCLineRate
    InitRate = 4
    SendTimes = 2
    Scale = 4
    MaxFlight = 1
    MaxIter = 5
    MaxDisturbances = 1
INVARIANTS
    TypeOK
    Patient
    WithinTarget
PROPERTIES
    NoRaise
    Converges
CHECK_DEADLOCK FALSE
