\* InMemoryQueue and InMemoryCache: a message can be read again at once,
\* and one removal of a key from the cache is lost.  Work is shorter than the
\* five seconds of readyToProcess (WorkLimit < FreshFor): a longer behavior is
\* read again by another poll and completed before it ran.  One try a job: what
\* the second would add is the subject of queue_retries.
SPECIFICATION FairSpec
CONSTANTS
    Jobs = {j1, j2}
    Workers = {w1, w2}
    NoJob = NoJob
    k1 = k1
    Keys = {k1}
    KeyOf <- OneKey
    MaxTries = 1
    FreshFor = 2
    HiddenFor = 0
    LockFor = 1
    WorkLimit = 1
    InMemory = TRUE
    Hazards = {"leak"}
    MaxFaults = 1
CHECK_DEADLOCK FALSE
INVARIANT CompleteMeansRun
PROPERTY SettledUnlessKeyLost
