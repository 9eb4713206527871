SPECIFICATION Spec
CONSTANTS
    x = x
    y = y
    Seqs = {s1, s2}
    Blocks = {b1, b2, b3}
    BlockSize = 2
    Tokens <- MCTokens
    MaxTokens = 8
    MaxUsed = 5
    NumEmbeddingIds = 2
    Workloads <- LongPrompt
SYMMETRY Perms
INVARIANTS
    InsertCheckHolds
CHECK_DEADLOCK FALSE
