SPECIFICATION Spec
CONSTANTS
    NumBlocks = 4
    NumBuffers = 2
    RecvBuffers = 3
    PollBatch = 2
    UseMessage = TRUE
    ExactSize = TRUE
    KeepLast = TRUE
    Prompt = TRUE
    MaxLoss = 3
    MaxPosts = 9
    MaxLists = 2
INVARIANTS
    ListWhenIdle
CHECK_DEADLOCK FALSE
