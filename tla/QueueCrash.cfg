\* A worker dies in the middle of a job.
SPECIFICATION FairSpec
CONSTANTS
    Jobs = {j1}
    Workers = {w1}
    NoJob = NoJob
    k1 = k1
    Keys = {k1}
    KeyOf <- OneKey
    MaxTries = 2
    FreshFor = 1
    HiddenFor = 2
    LockFor = 2
    WorkLimit = 1
    InMemory = FALSE
    Hazards = {"crash"}
    MaxFaults = 1
CHECK_DEADLOCK FALSE
INVARIANT CompleteMeansRun
