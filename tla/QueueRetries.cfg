\* InMemoryQueue, two workers polling.
SPECIFICATION FairSpec
CONSTANTS
    Jobs = {j1}
    Workers = {w1, w2}
    NoJob = NoJob
    k1 = k1
    Keys = {k1}
    KeyOf <- OneKey
    MaxTries = 2
    FreshFor = 1
    HiddenFor = 0
    LockFor = 1
    WorkLimit = 0
    InMemory = TRUE
    Hazards = {}
    MaxFaults = 0
CHECK_DEADLOCK FALSE
INVARIANT RetryBound
