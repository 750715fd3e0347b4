SPECIFICATION Spec
CONSTANTS
    Users = {"first", "second", "serve"}
    Home <- MCHome
    Fields = {"gid"}
    Values = {"d", "r", "long"}
    Absent = "absent"
    Bad = "bad"
    Default <- MCDefault
    Repair <- MCRepair
    Size <- MCSize
    MaxEdits = 1
    MaxKills = 1
INVARIANTS
    Kept
PROPERTIES
    Repaired
CHECK_DEADLOCK FALSE
