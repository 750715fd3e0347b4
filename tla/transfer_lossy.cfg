SPECIFICATION Spec
CONSTANTS
    NumBlocks = 4
    NumBuffers = 3
    RecvBuffers = 3
    PollBatch = 1
    UseMessage = TRUE
    ExactSize = TRUE
    KeepLast = FALSE
    Prompt = FALSE
    MaxLoss = 4
    MaxPosts = 8
    MaxLists = 2
INVARIANTS
    TypeOK
    Complete
    RecvCount
    FinishJustified
    ListFits
    OnlyBlocks
PROPERTIES
    ListExact
CHECK_DEADLOCK FALSE
