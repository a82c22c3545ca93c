\* A guest registers while the job of its first message is authorized.
SPECIFICATION FairSpec
CONSTANTS
    DefaultResource <- File
    Spellings <- MCSpellings
    Resources <- MCResources
    Authentications = {host, rival, guest}
    host = host
    rival = rival
    guest = guest
    Threads = {t1, t2, t3, t4, t5}
    t1 = t1
    t2 = t2
    t3 = t3
    t4 = t4
    t5 = t5
    Workloads <- GuestRegisters
    NoOne = NoOne
    NoContext = NoContext
    AssertionsEnabled = {TRUE, FALSE}
    MaxFailures = 0
CHECK_DEADLOCK FALSE
PROPERTY RegisteredForGood
