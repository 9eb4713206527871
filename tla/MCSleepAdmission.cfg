SPECIFICATION Spec
CONSTANTS
    m1 = m1  m2 = m2  w1 = w1  w2 = w2  r1 = r1  r2 = r2
    Models = {m1, m2}
    ModelOrder <- MCModelOrder
    Workers = {w1, w2}
    WorkersOf <- MCWorkersOf
    PhyPages = 7
    PhyPerVirt <- MCPhyPerVirt
    WeightPages <- MCWeightPages
    MinReserved = 1
    MaxReserved = 1
    MaxConcurrent = 0
    StartAwake = {m1}
    Requests = {r1, r2}
    ModelOf <- MCModelOf
    Handlers = {h1}
    MaxFailures = 0
INVARIANT AsleepAdmitsNothing
CHECK_DEADLOCK FALSE
