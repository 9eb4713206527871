SPECIFICATION Spec
CONSTANTS
    x = x
    y = y
    Seqs = {s1, s2, s3}
    Blocks = {b1, b2, b3}
    BlockSize = 2
    Tokens <- MCTokens
    MaxTokens = 6
    MaxUsed = 4
    NumEmbeddingIds = 2
    Workloads <- BothSchedulers
SYMMETRY Perms
INVARIANTS
    TypeOK
    SequenceKVIntact
    CachedKVIntact
    UsageCoversBlocksInUse
PROPERTIES
    EvictsLeastRecentlyUsed
CHECK_DEADLOCK FALSE
