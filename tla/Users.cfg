\* Three users, five requests at once; three workloads, with and without assertions.
SPECIFICATION FairSpec
CONSTANTS
    DefaultResource <- File
    Spellings <- MCSpellings
    Resources <- MCResources
    Authentications = {host, rival, guest}
    host = host
    rival = rival
    guest = guest
    Threads = {t1, t2, t3, t4, t5}
    t1 = t1
    t2 = t2
    t3 = t3
    t4 = t4
    t5 = t5
    Workloads <- AllWorkloads
    NoOne = NoOne
    NoContext = NoContext
    AssertionsEnabled = {TRUE, FALSE}
    MaxFailures = 1
CHECK_DEADLOCK FALSE
INVARIANTS TypeOK OwnerWasAccepted JobsOverlapOnlyIfRespelled
PROPERTIES OnlyOwnersChange RegistrationsAddUp RegistersAgain
