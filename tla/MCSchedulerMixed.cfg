SPECIFICATION Spec
CONSTANTS
    Requests <- Three
    Offline <- MixedOffline
    Stream <- None
    Prompt <- MixedPrompt
    MaxGen <- MixedGen
    NumBlocks = 4
    BlockSize = 2
    QueueSize = 2
    MaxTokensPerBatch = 5
    MaxSeqsPerBatch = 2
    Threshold = 95
    OnlinePreemptsOffline = TRUE
INVARIANTS TypeOK ExactlyOnePlace NoBlockLeak BatchReady RunningQueueOrdered
PROPERTIES OfflinePreemptedFirst ImplementsRequestService
