\* A job finds no message, or is denied access to it, after its key was locked.
SPECIFICATION FairSpec
CONSTANTS
    Jobs = {j1, j2, j3}
    Workers = {w1, w2}
    NoJob = NoJob
    k1 = k1
    Keys = {k1}
    KeyOf <- OneKey
    MaxTries = 2
    FreshFor = 1
    HiddenFor = 2
    LockFor = 2
    WorkLimit = 1
    InMemory = FALSE
    Hazards = {"refuse"}
    MaxFaults = 1
CHECK_DEADLOCK FALSE
INVARIANT KeyMutex
