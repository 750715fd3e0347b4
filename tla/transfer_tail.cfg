SPECIFICATION Spec
CONSTANTS
    NumBlocks = 3
    NumBuffers = 4
    RecvBuffers = 3
    PollBatch = 2
    UseMessage = TRUE
    ExactSize = TRUE
    KeepLast = FALSE
    Prompt = TRUE
    MaxLoss = 3
    MaxPosts = 9
    MaxLists = 2
INVARIANTS
    TailLossHandled
CHECK_DEADLOCK FALSE
