-------------------------------- MODULE Users --------------------------------
(***************************************************************************)
(* Who may change a message: UserRoadie.register and getUser,              *)
(* BdAuthenticator.authorize and provision, where storeMessage and pullJob *)
(* call them.                                                              *)
(*                                                                         *)
(* Users, contexts and messages are documents of the Resource, which has   *)
(* no transactions: a thread takes one step per get or put, and decides on *)
(* what it read.  Jobs exclude one another by the message key as it was    *)
(* spelled (Queue.alreadyProcessingKey), documents are named after its     *)
(* aggregate root key.  A job that is refused gives its lock back, and no  *)
(* job fails otherwise; a call of register or storeMessage may fail.       *)
(***************************************************************************)
EXTENDS MessageKey, FiniteSets

CONSTANTS
    Authentications, \* what identifies a user
    Spellings,       \* message keys as clients spell them
    Resources,       \* the names of the resources
    Threads,
    Workloads,       \* what the threads may be asked for, see Request
    NoOne,           \* no owner
    NoContext,       \* register without a context
    AssertionsEnabled, \* whether the JVM may run with -ea
    MaxFailures      \* bound on the calls that fail

WellFormed == {s \in Spellings : ~malformed(s)}
Contexts == {userContext(s) : s \in WellFormed}
Keys == {aggregateRootKey(s) : s \in WellFormed}

\* TLC works this out once.
rootKey == [s \in WellFormed |-> aggregateRootKey(s)]

BehaviorType == {"Persist", "Get", "Delete", "Error"}

\* authentication asks to register, with context if it names one, or stores a
\* message of key with a behavior.
Request ==
    [type: {"register"}, authentication: Authentications,
     context: Contexts \cup {NoContext}]
    \cup
    [type: BehaviorType, authentication: Authentications, key: Spellings,
     secure: BOOLEAN]

ASSUME UsersAssumption ==
    /\ Workloads \subseteq [Threads -> Request]
    /\ NoOne \notin Authentications
    /\ NoContext \notin Contexts
    /\ <<>> \notin Spellings
    /\ AssertionsEnabled \subseteq BOOLEAN
    /\ MaxFailures \in Nat

VARIABLES
    assertions, \* whether this JVM runs with -ea
    request,    \* request[t]: what thread t is asked for
    user,       \* user[a]: the User document of a
    owner,      \* owner[c]: UserContext.authentication
    message,    \* message[k]: the message as stored under k
    jobKey,     \* jobKey[t]: Job.messageKey of the job t pushed
    pc,         \* pc[t]: the next call of thread t
    copy,       \* copy[t]: the message t has in hand
    late,       \* history: threads whose copy was overwritten meanwhile
    raced,      \* history: keys written by such a thread
    spelled,    \* history: the spellings messages of k were created with
    registrants \* history: users whose registration was ever put

setting == <<assertions, request>>
documents == <<user, owner, message>>
history == <<late, raced, spelled, registrants>>
vars == <<setting, documents, jobKey, pc, copy, history>>

-----------------------------------------------------------------------------
Registration == {"none", "unregistered", "registered"}

Message ==
    [there: {TRUE}, contextOwner: Authentications,
     messageOwner: Authentications, secure: BOOLEAN, messageKey: WellFormed]

NoMessage == [there |-> FALSE]

\* The calls of register, of storeMessage and of the job that follows it.
PC == {"register", "putContext", "getUser", "createUser", "putUser"}
      \cup {"access", "provision", "authorize", "create", "put"}
      \cup {"job", "authorizeJob", "createJob", "effect"}
      \cup {"done", "refused", "failed", "halfway"}

Authentication(t) == request[t].authentication
Registers(t) == request[t].type = "register"
Context(t) == request[t].context
Key(t) == rootKey[request[t].key]

TypeOK ==
    /\ assertions \in BOOLEAN
    /\ request \in Workloads
    /\ user \in [Authentications -> Registration]
    /\ owner \in [Contexts -> Authentications \cup {NoOne}]
    /\ message \in [Keys -> Message \cup {NoMessage}]
    /\ jobKey \in [Threads -> WellFormed \cup {<<>>}]
    /\ pc \in [Threads -> PC]
    /\ copy \in [Threads -> Message \cup {NoMessage}]
    /\ late \subseteq {t \in Threads : ~Registers(t)}
    /\ raced \subseteq Keys
    /\ spelled \in [Keys -> SUBSET WellFormed]
    /\ registrants \subseteq Authentications
    /\ \A t \in Threads : pc[t] \in {"put", "effect"} => copy[t].there

Init ==
    /\ assertions \in AssertionsEnabled
    /\ request \in Workloads
    /\ user = [a \in Authentications |-> "none"]
    /\ owner = [c \in Contexts |-> NoOne]
    /\ message = [k \in Keys |-> NoMessage]
    /\ jobKey = [t \in Threads |-> <<>>]
    /\ pc = [t \in Threads |-> IF ~Registers(t) THEN "access"
                               ELSE IF Context(t) = NoContext THEN "getUser"
                               ELSE "register"]
    /\ copy = [t \in Threads |-> NoMessage]
    /\ late = {} /\ raced = {} /\ registrants = {}
    /\ spelled = [k \in Keys |-> {}]

GoTo(t, label) == pc' = [pc EXCEPT ![t] = label]

-----------------------------------------------------------------------------
(* UserRoadie.register                                                     *)

\* Mutant: the context is put before its owner is looked at.
PutsContextFirst(t) ==
    LET o == owner[Context(t)]
    IN  /\ pc[t] = "register"
        /\ owner' = [owner EXCEPT ![Context(t)] = Authentication(t)]
        /\ GoTo(t, IF o \notin {NoOne, Authentication(t)} /\ assertions
                   THEN "refused" ELSE "getUser")
        /\ UNCHANGED <<setting, user, message, jobKey, copy, history>>

\* Mutant: a context that exists is refused, to its owner as well.
RefusesExisting(t) ==
    /\ pc[t] = "register"
    /\ GoTo(t, CASE owner[Context(t)] = NoOne -> "putContext"
                 [] owner[Context(t)] # NoOne /\ assertions -> "refused"
                 [] OTHER -> "getUser")
    /\ UNCHANGED <<setting, documents, jobKey, copy, history>>

\* Without assertions a user registers, and the context stays another's.
RegisterContext(t) ==
    LET o == owner[Context(t)]
    IN  /\ pc[t] = "register"
        /\ \/ o = NoOne /\ GoTo(t, "putContext")
           \/ o = Authentication(t) /\ GoTo(t, "getUser")
           \/ /\ o \notin {NoOne, Authentication(t)}
              /\ GoTo(t, IF assertions THEN "refused" ELSE "getUser")
        /\ UNCHANGED <<setting, documents, jobKey, copy, history>>

PutContext(t) ==
    /\ pc[t] = "putContext"
    /\ owner' = [owner EXCEPT ![Context(t)] = Authentication(t)]
    /\ GoTo(t, "getUser")
    /\ UNCHANGED <<setting, user, message, jobKey, copy, history>>

GetUser(t) ==
    /\ pc[t] = "getUser"
    /\ GoTo(t, IF user[Authentication(t)] = "none" THEN "createUser" ELSE "putUser")
    /\ UNCHANGED <<setting, documents, jobKey, copy, history>>

PutFreshUser(t) == user' = [user EXCEPT ![Authentication(t)] = "unregistered"]

\* Mutant: a user who was just created is not registered.
CreateUserOnly(t) ==
    /\ pc[t] = "createUser"
    /\ PutFreshUser(t)
    /\ GoTo(t, "done")
    /\ UNCHANGED <<setting, owner, message, jobKey, copy, history>>

CreateUser(t) ==
    /\ pc[t] = "createUser"
    /\ PutFreshUser(t)
    /\ GoTo(t, "putUser")
    /\ UNCHANGED <<setting, owner, message, jobKey, copy, history>>

PutUser(t) ==
    /\ pc[t] = "putUser"
    /\ user' = [user EXCEPT ![Authentication(t)] = "registered"]
    /\ registrants' = registrants \cup {Authentication(t)}
    /\ GoTo(t, "done")
    /\ UNCHANGED <<setting, owner, message, jobKey, copy, late, raced, spelled>>

-----------------------------------------------------------------------------
(* BdAuthenticator                                                         *)

isOwner(a, m) == a \in {m.contextOwner, m.messageOwner}

\* Mutant: the owner need not be registered.
allowsOwner(type, a, m, known) ==
    \/ type = "Get" /\ (~m.secure \/ isOwner(a, m))
    \/ type \in {"Persist", "Delete"} /\ isOwner(a, m)

\* authorize, given what getUser returned; nobody adds an Error behavior to a
\* message that exists.
allows(type, a, m, known) ==
    \/ type = "Get" /\ (~m.secure \/ isOwner(a, m))
    \/ type \in {"Persist", "Delete"} /\ isOwner(a, m) /\ known = "registered"

\* For Persist and Delete authorize reads the user, and puts a fresh one if
\* there was none: to next when t is allowed to go on, to create when it has
\* the fresh user to put.
Authorize(t, create, next) ==
    LET type == request[t].type
        known == user[Authentication(t)]
        creates == type \in {"Persist", "Delete"} /\ known = "none"
    IN  /\ GoTo(t, CASE creates -> create
                     [] ~creates /\ allows(type, Authentication(t), copy[t], known) -> next
                     [] OTHER -> "refused")
        /\ UNCHANGED <<setting, documents, jobKey, copy, history>>

\* A user who was just created is not registered.
AuthorizeFresh(t) ==
    /\ PutFreshUser(t)
    /\ GoTo(t, "refused")
    /\ UNCHANGED <<setting, owner, message, jobKey, copy, history>>

Provisioned(t, o) ==
    /\ copy' = [copy EXCEPT ![t] =
           [there |-> TRUE, contextOwner |-> o,
            messageOwner |-> Authentication(t), secure |-> request[t].secure,
            messageKey |-> request[t].key]]
    /\ spelled' = [spelled EXCEPT ![Key(t)] = @ \cup {request[t].key}]

\* Mutant: the context need not exist.
ProvisionAnyway(t) ==
    /\ pc[t] = "provision"
    /\ Provisioned(t, owner[userContext(request[t].key)])
    /\ GoTo(t, "put")
    /\ UNCHANGED <<setting, documents, jobKey, late, raced, registrants>>

\* provision: a new message belongs to the owner of its context and to who
\* stores it; a context nobody registered is an error.
Provision(t) ==
    LET o == owner[userContext(request[t].key)]
    IN  /\ pc[t] = "provision"
        /\ \/ /\ o = NoOne
              /\ GoTo(t, "refused")
              /\ UNCHANGED <<copy, spelled>>
           \/ /\ o # NoOne
              /\ Provisioned(t, o)
              /\ GoTo(t, "put")
        /\ UNCHANGED <<setting, documents, jobKey, late, raced, registrants>>

-----------------------------------------------------------------------------
(* ResourceRoadie.storeMessage                                             *)

\* What t reads is current; so is what a new message is made from.
Current(t) == late' = late \ {t}

\* A key that does not parse is refused, so is one of no known resource.
BadKey(t) ==
    /\ pc[t] = "access"
    /\ malformed(request[t].key) \/ resourceName(request[t].key) \notin Resources
    /\ GoTo(t, "refused")
    /\ UNCHANGED <<setting, documents, jobKey, copy, history>>

Access(t) ==
    LET m == message[Key(t)]
    IN  /\ pc[t] = "access"
        /\ ~malformed(request[t].key) /\ resourceName(request[t].key) \in Resources
        /\ \/ /\ m.there
              /\ copy' = [copy EXCEPT ![t] = m]
              /\ GoTo(t, "authorize")
           \/ /\ ~m.there
              /\ GoTo(t, "provision")
              /\ UNCHANGED copy
        /\ Current(t)
        /\ UNCHANGED <<setting, documents, jobKey, raced, spelled, registrants>>

\* The threads that go on from what they read of key k.
Holding(k) ==
    {t \in Threads : /\ ~Registers(t)
                     /\ pc[t] \notin {"access", "job", "done", "refused", "failed", "halfway"}
                     /\ Key(t) = k}

Write(t, m) ==
    /\ message' = [message EXCEPT ![Key(t)] = m]
    /\ late' = (late \cup Holding(Key(t))) \ {t}
    /\ raced' = IF t \in late THEN raced \cup {Key(t)} ELSE raced
    /\ UNCHANGED <<setting, user, owner, copy, spelled, registrants>>

\* Mutant: the message takes over the key as it is spelled this time.
PutRespelled(t) ==
    /\ pc[t] = "put"
    /\ Write(t, [copy[t] EXCEPT !.secure = request[t].secure,
                                !.messageKey = request[t].key])
    /\ jobKey' = [jobKey EXCEPT ![t] = request[t].key]
    /\ GoTo(t, "job")

\* An existing message keeps its owners and its key, and takes over secure; the
\* job has the message's key.
Put(t) ==
    /\ pc[t] = "put"
    /\ Write(t, [copy[t] EXCEPT !.secure = request[t].secure])
    /\ jobKey' = [jobKey EXCEPT ![t] = copy[t].messageKey]
    /\ GoTo(t, "job")

-----------------------------------------------------------------------------
(* Processor.pullJob                                                       *)

Processing(t) == pc[t] \in {"authorizeJob", "createJob", "effect"}

KeyBusy(s) == \E t \in Threads : Processing(t) /\ jobKey[t] = s

JobAccess(t) ==
    /\ pc[t] = "job"
    /\ ~KeyBusy(jobKey[t])
    /\ copy' = [copy EXCEPT ![t] = message[Key(t)]]
    /\ GoTo(t, IF message[Key(t)].there THEN "authorizeJob" ELSE "done")
    /\ Current(t)
    /\ UNCHANGED <<setting, documents, jobKey, raced, spelled, registrants>>

\* updateMessage or deleteMessage
Effect(t) ==
    /\ pc[t] = "effect"
    /\ Write(t, IF request[t].type = "Delete" THEN NoMessage ELSE copy[t])
    /\ GoTo(t, "done")
    /\ UNCHANGED jobKey

-----------------------------------------------------------------------------
\* A call of register or storeMessage fails, before or after its effect; push
\* is one of them.  halfway: register may have put a fresh user and no more.
Fails(t) ==
    /\ pc[t] \in {"putContext", "getUser", "createUser", "putUser"}
                 \cup {"provision", "create", "put", "job"}
    /\ Cardinality({s \in Threads : pc[s] \in {"failed", "halfway"}}) < MaxFailures
    /\ GoTo(t, IF pc[t] = "putUser" THEN "halfway" ELSE "failed")
    /\ UNCHANGED <<setting, documents, jobKey, copy, history>>

-----------------------------------------------------------------------------
register(t) ==
    RegisterContext(t) \/ PutContext(t) \/ GetUser(t) \/ CreateUser(t) \/ PutUser(t)

storeMessage(t) ==
    \/ BadKey(t) \/ Access(t) \/ Provision(t) \/ Put(t)
    \/ pc[t] = "authorize" /\ Authorize(t, "create", "put")
    \/ pc[t] = "create" /\ AuthorizeFresh(t)

pullJob(t) ==
    \/ JobAccess(t) \/ Effect(t)
    \/ pc[t] = "authorizeJob" /\ Authorize(t, "createJob", "effect")
    \/ pc[t] = "createJob" /\ AuthorizeFresh(t)

Step(t) == register(t) \/ storeMessage(t) \/ pullJob(t)

Next == \E t \in Threads : Step(t) \/ Fails(t)

Spec == Init /\ [][Next]_vars

\* While a thread can go on, one does.  No thread goes on for ever, so they all
\* come to an end.
Fairness == WF_vars(\E t \in Threads : Step(t))

FairSpec == Spec /\ Fairness

-----------------------------------------------------------------------------
(* Properties                                                              *)

\* The owner of a context asked for it and was not refused, however many users
\* asked at once and whichever calls failed (UserRoadie.register).
OwnerWasAccepted ==
    \A c \in Contexts : owner[c] # NoOne =>
        \E t \in Threads :
            /\ Registers(t) /\ Context(t) = c
            /\ Authentication(t) = owner[c]
            /\ pc[t] \in {"getUser", "createUser", "putUser", "done", "failed", "halfway"}

\* Two jobs of one message run at once only if it was created under several
\* spellings: whoever stores a message that exists gets the lock it was created
\* with, however he spells its key (Queue.java:93, ResourceRoadie.storeMessage).
JobsOverlapOnlyIfRespelled ==
    \A t, u \in Threads :
        t # u /\ Processing(t) /\ Processing(u) /\ Key(t) = Key(u) =>
            \E r, s \in spelled[Key(t)] : r # s

\* An existing message is changed by those who may change it, and keeps its key
\* and owners until it is deleted, unless another write overlapped: what
\* authorize read, a step or two before, is still so.  To post a Get behavior
\* for a message that is not secure is open to all (BdAuthenticator.authorize).
OnlyOwnersChange ==
    [][\A k \in Keys :
          message[k].there /\ message'[k] # message[k] /\ k \notin raced' =>
              /\ \E t \in Threads :
                     /\ pc'[t] # pc[t] /\ ~Registers(t) /\ Key(t) = k
                     /\ \/ /\ isOwner(Authentication(t), message[k])
                           /\ request[t].type # "Get" =>
                                  Authentication(t) \in registrants
                        \/ request[t].type = "Get" /\ ~message[k].secure
              /\ message'[k].there =>
                     message'[k] \in {[message[k] EXCEPT !.secure = b] : b \in BOOLEAN}]_vars

\* Each of user a's requests is to register, and none stopped after it put a
\* fresh user over the registration of another.
OnlyRegisters(a) ==
    \A s \in Threads :
        Authentication(s) = a => Registers(s) /\ pc[s] # "halfway"

Contested(c) ==
    \E s, t \in Threads : /\ Registers(s) /\ Registers(t)
                          /\ Context(s) = c /\ Context(t) = c
                          /\ Authentication(s) # Authentication(t)

\* In the end who was told that it is registered is so, and stays so.
StaysRegistered(t) == pc[t] = "done" => user[Authentication(t)] = "registered"

\* Whoever registers, several times at once or again after a failure, is
\* registered in the end, if it stores no messages meanwhile and no repetition
\* stops after getUser put a fresh user (UserRoadie.register, getUser).
RegistrationsAddUp ==
    <>[](\A t \in Threads :
             Registers(t) /\ OnlyRegisters(Authentication(t)) => StaysRegistered(t))

\* A failed registration can be repeated: the context that was put already is
\* no reason to refuse its owner (UserRoadie.java:65).
RegistersAgain ==
    <>(\A t \in Threads :
           Registers(t) /\ (Context(t) # NoContext => ~Contested(Context(t))) =>
               pc[t] \in {"done", "failed", "halfway"})

\* AUTH.md:61: upon registering a user gains the permission to modify and delete
\* its messages.  A getUser that read no user puts a fresh one after the
\* registration, and the permission is gone for good.
RegisteredForGood == <>[](\A t \in Threads : Registers(t) => StaysRegistered(t))
=============================================================================
