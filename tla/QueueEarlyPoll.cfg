\* As QueueUndisturbed, and polls may overtake the push of a job, and
\* one removal of a key from the cache is lost.
SPECIFICATION FairSpec
CONSTANTS
    Jobs = {j1, j2}
    Workers = {w1, w2}
    NoJob = NoJob
    k1 = k1
    Keys = {k1}
    KeyOf <- OneKey
    MaxTries = 2
    FreshFor = 1
    HiddenFor = 2
    LockFor = 2
    WorkLimit = 1
    InMemory = FALSE
    Hazards = {"earlyRead", "leak"}
    MaxFaults = 1
CHECK_DEADLOCK FALSE
INVARIANTS KeyMutex CompleteMeansRun
PROPERTY JobsSettle
