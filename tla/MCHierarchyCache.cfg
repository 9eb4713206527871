SPECIFICATION Spec
CONSTANTS
    s1 = s1  s2 = s2
    Seqs = {s1, s2}
    Path <- MCPath
    PromptBlocks <- MCPromptBlocks
    DevBlocks = {1, 2, 3, 4}
    HostBlocks = {1, 2, 3, 4}
    Workers = {w1, w2}
    Batch = 1
    LatencyAware = TRUE
    Stored = {"a", "b"}
    MaxFaults = 1
SYMMETRY Symmetric
INVARIANTS
    TypeOK
    DeviceKVIntact
    HostKVIntact
    NoNeedlessWait
CHECK_DEADLOCK FALSE
