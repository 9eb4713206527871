SPECIFICATION Spec
CONSTANTS
    p1 = p1  p2 = p2  r1 = r1  r2 = r2  r3 = r3  b1 = b1  b2 = b2
    None = None
    Prefills = {p1, p2}
    Requests = {r1, r2, r3}
    PrefillOf <- MCPrefillOf
    Offline = {r2}
    DecodeBlocks = {b1, b2}
    Need <- MCNeed
    Threshold = 95
    PrefillBlocks = 2
    Modes = {"PUSH", "PULL"}
    MaxRetry = 1
    MaxFaults = 1
    MaxCrashes = 1
INVARIANTS
    TypeOK
    HandoverPossible
    AnsweredOnce
    ReservationAwaited
    PullReadsHeldBlocks
PROPERTY EveryRequestAnswered
CHECK_DEADLOCK FALSE
