SPECIFICATION Spec
CONSTANTS
    Clients = {"c1", "c2"}
    MaxJobs = 1
    MaxFailures = 1
    Conns <- MCConns
    Sizes <- MCSizes
INVARIANTS
    TypeOK
    Exact
    Barrier
    JobComplete
PROPERTIES
    JobEnds
CHECK_DEADLOCK FALSE
