\* Everything may go wrong, twice; a call of pullJob may outlive every timeout.
SPECIFICATION Spec
CONSTANTS
    Jobs = {j1}
    Workers = {w1, w2}
    NoJob = NoJob
    k1 = k1
    Keys = {k1}
    KeyOf <- OneKey
    MaxTries = 2
    FreshFor = 1
    HiddenFor = 2
    LockFor = 2
    WorkLimit = 2
    InMemory = FALSE
    Hazards = {"crash", "throw", "refuse", "handler", "redeliver", "slowPush", "earlyRead", "staleRead", "leak"}
    MaxFaults = 2
CHECK_DEADLOCK FALSE
SYMMETRY Symmetry
INVARIANTS TypeOK MessageHasRecord FinalIsEarned
PROPERTY DeletedOnlyOnceEnded
