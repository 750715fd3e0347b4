SPECIFICATION PacedSpec
CONSTANTS
    NumBlocks = 4
    NumBuffers = 5
    RecvBuffers = 3
    PollBatch = 2
    UseMessage = TRUE
    ExactSize = TRUE
    KeepLast = TRUE
    Prompt = FALSE
    MaxLoss = 2
    MaxPosts = 12
    MaxLists = 2
    Intervals = {1, 2}
    Second = 8
    MaxHush = 1
INVARIANTS
    NoAssertFails
    SecondIsEnough
    Paced
PROPERTIES
    CopySpec
    Finishes
CHECK_DEADLOCK FALSE
