\* Two pollers read and delete what two pushes write.
SPECIFICATION FairSpec
CONSTANTS
    Ids = {i1, i2}
    i1 = i1
    i2 = i2
    Writers = {w1, w2}
    w1 = w1
    IdOf <- MCIdOf
    Readers = {r1, r2}
    Queues = {q1, q2, q3, q4, q5, q6}
    NoId = NoId
    NoQueue = NoQueue
INVARIANTS TypeOK AtMostOnce KeptUnlessRaced
PROPERTIES ReadAgainAndAgain PollsReturn
