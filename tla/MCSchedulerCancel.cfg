SPECIFICATION Spec
CONSTANTS
    Requests <- Three
    Offline <- MixedOffline
    Stream <- CancelStream
    Prompt <- MixedPrompt
    MaxGen <- MixedGen
    NumBlocks = 4
    BlockSize = 2
    QueueSize = 2
    MaxTokensPerBatch = 8
    MaxSeqsPerBatch = 2
    Threshold = 95
    OnlinePreemptsOffline = TRUE
INVARIANT CancelledHandledBefore
