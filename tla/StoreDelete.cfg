\* A word and a Delete behavior for it, two workers.
SPECIFICATION Spec
CONSTANTS
    Keys = {word, other}
    word = word
    other = other
    Clients = {c1, c2}
    c1 = c1
    Posts <- WordAndDelete
    NewValues <- MCNewValues
    NewMessages <- AsksForStem
    Results <- StemIsNull
    Workers = {w1, w2}
    Jobs = {j1, j2, j3, j4}
    j1 = j1
    j2 = j2
    KeyOf <- MCKeyOf
    NoJob = NoJob
    MaxTries = 2
    TornReads = FALSE
    KeysExpire = TRUE
    MaxFaults = 0
CHECK_DEADLOCK FALSE
SYMMETRY Symmetry
INVARIANTS TypeOK LostOnlyByOverlap JobFindsBehavior CompleteHasEffects RepeatsAreTries
PROPERTY StepsOfService
