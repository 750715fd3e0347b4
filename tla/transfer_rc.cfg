SPECIFICATION Spec
CONSTANTS
    NumBlocks = 5
    NumBuffers = 3
    RecvBuffers = 3
    PollBatch = 2
    UseMessage = FALSE
    ExactSize = TRUE
    KeepLast = FALSE
    Prompt = TRUE
    MaxLoss = 0
    MaxPosts = 6
    MaxLists = 1
INVARIANTS
    RcConserves
CHECK_DEADLOCK FALSE
