\* SqsQueue and ElastiCache, nothing goes wrong, no poll overtakes a push.
SPECIFICATION FairSpec
CONSTANTS
    Jobs = {j1, j2}
    Workers = {w1, w2}
    NoJob = NoJob
    k1 = k1
    Keys = {k1}
    KeyOf <- OneKey
    MaxTries = 2
    FreshFor = 1
    HiddenFor = 2
    LockFor = 2
    WorkLimit = 1
    InMemory = FALSE
    Hazards = {}
    MaxFaults = 0
CHECK_DEADLOCK FALSE
INVARIANT TriesAreAttempts
PROPERTIES DoneIsDone JobsStaySettled ImplementsService
