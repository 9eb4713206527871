SPECIFICATION Spec
CONSTANTS
    Requests <- Three
    Offline <- None
    Stream <- OnlineStream
    Prompt <- OnlinePrompt
    MaxGen <- OnlineGen
    NumBlocks = 3
    BlockSize = 2
    QueueSize = 3
    MaxTokensPerBatch = 8
    MaxSeqsPerBatch = 2
    Threshold = 95
    OnlinePreemptsOffline = TRUE
INVARIANT FailedOnlyIfTooLong
PROPERTIES EveryRequestAnswered
CHECK_DEADLOCK FALSE
