\* A word whose values make no script until an Error behavior is stored for it
\* with others; two faults: threads die, complete and error fail half way.
SPECIFICATION FairSpec
CONSTANTS
    Keys = {word, other}
    word = word
    other = other
    Clients = {c1, c2}
    c1 = c1
    Posts <- WordAndError
    NewValues <- MCNewValues
    NewMessages <- AsksForRecords
    Results <- Texts
    Workers = {w1, w2}
    Jobs = {j1, j2}
    j1 = j1
    j2 = j2
    KeyOf <- MCKeyOf
    NoJob = NoJob
    MaxTries = 2
    TornReads = TRUE
    KeysExpire = TRUE
    MaxFaults = 2
CHECK_DEADLOCK FALSE
INVARIANTS LostOnlyByOverlap RepeatsAreTries
PROPERTIES JobsChangeScripts JobsEnd
