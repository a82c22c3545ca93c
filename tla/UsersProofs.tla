----------------------------- MODULE UsersProofs -----------------------------
(***************************************************************************)
(* What Users guarantees for every set of users, keys, spellings and       *)
(* requests: the theorems about Spec at the end of the module.             *)
(***************************************************************************)
EXTENDS Users, TLAPS

-----------------------------------------------------------------------------
(* The inductive invariant                                                 *)

Registering == {"register", "putContext", "getUser", "createUser", "putUser"}
Authorizing == {"authorize", "create", "authorizeJob", "createJob", "effect"}
InJob == {"authorizeJob", "createJob", "effect"}
Storing == {"access", "provision", "put", "job"} \cup Authorizing

\* Thread t does what it is asked for, of a key that parses.
Sane(t) ==
    /\ pc[t] \in {"register", "putContext"} => Context(t) \in Contexts
    /\ pc[t] \in Registering => Registers(t)
    /\ pc[t] \in Storing => ~Registers(t)
    /\ pc[t] \in Storing \ {"access"} => request[t].key \in WellFormed

\* What t has in hand and the job it pushed have a spelling of the key.
Named(t) ==
    /\ pc[t] \in Authorizing \cup {"put"} =>
          /\ copy[t].there
          /\ copy[t].messageKey \in spelled[Key(t)]
    /\ pc[t] \in InJob \cup {"job"} => jobKey[t] \in spelled[Key(t)]

\* Unless it was overwritten, what t has in hand is what is stored.
Fresh(t) ==
    t \notin late =>
        /\ pc[t] = "provision" => ~message[Key(t)].there
        /\ pc[t] \in Authorizing => copy[t] = message[Key(t)]
        /\ pc[t] = "put" /\ message[Key(t)].there => copy[t] = message[Key(t)]

MayChange(t, m) ==
    \/ /\ isOwner(Authentication(t), m)
       /\ request[t].type # "Get" => Authentication(t) \in registrants
    \/ request[t].type = "Get" /\ ~m.secure

\* Whoever is about to write may do so, or writes a new message.
Allowed(t) ==
    /\ pc[t] = "effect" => MayChange(t, copy[t])
    /\ pc[t] = "put" /\ t \notin late /\ message[Key(t)].there =>
          MayChange(t, copy[t])

ThreadInv(t) == Sane(t) /\ Named(t) /\ Fresh(t) /\ Allowed(t)

MessagesNamed ==
    \A k \in Keys : message[k].there => message[k].messageKey \in spelled[k]

UsersKnown ==
    \A a \in Authentications : user[a] = "registered" => a \in registrants

LocksApart ==
    \A t, u \in Threads :
        t # u /\ Processing(t) /\ Processing(u) => jobKey[t] # jobKey[u]

IInv ==
    /\ TypeOK
    /\ OwnerWasAccepted
    /\ \A t \in Threads : ThreadInv(t)
    /\ MessagesNamed
    /\ UsersKnown
    /\ LocksApart

-----------------------------------------------------------------------------
(* Lemmas about requests and threads                                       *)

\* What a thread is asked for.
LEMMA RequestTyped ==
    ASSUME TypeOK, NEW t \in Threads
    PROVE  /\ Authentication(t) \in Authentications
           /\ Registers(t) => Context(t) \in Contexts \cup {NoContext}
           /\ ~Registers(t) => /\ request[t].type \in BehaviorType
                               /\ request[t].key \in Spellings
                               /\ request[t].secure \in BOOLEAN
<1>1. request \in [Threads -> Request]
    BY UsersAssumption DEF TypeOK
<1>2. request[t] \in Request
    BY <1>1
<1> QED BY <1>2 DEF Request, BehaviorType, Registers, Authentication, Context

\* A key that parses names a message and its context.
LEMMA KeyTyped ==
    ASSUME NEW t \in Threads, request[t].key \in WellFormed
    PROVE  Key(t) \in Keys /\ userContext(request[t].key) \in Contexts
BY DEF Key, rootKey, Keys, Contexts

\* A thread that stores has its message among the messages.
LEMMA StoringKey ==
    ASSUME IInv, NEW t \in Threads, pc[t] \in Storing \ {"access"}
    PROVE  /\ Key(t) \in Keys
           /\ userContext(request[t].key) \in Contexts
           /\ request[t].key \in WellFormed
           /\ ~Registers(t)
BY KeyTyped DEF IInv, ThreadInv, Sane

AcceptedPC == {"getUser", "createUser", "putUser", "done", "failed", "halfway"}

\* A step that puts no context and refuses nobody it had accepted.
LEMMA AcceptedStays ==
    ASSUME IInv, NEW t \in Threads, NEW l, GoTo(t, l),
           UNCHANGED <<owner, request>>, pc[t] \in AcceptedPC => l \in AcceptedPC
    PROVE  OwnerWasAccepted'
<1> SUFFICES ASSUME NEW c \in Contexts, owner[c] # NoOne
             PROVE  \E u \in Threads : /\ Registers(u) /\ Context(u) = c
                                       /\ Authentication(u) = owner[c]
                                       /\ pc'[u] \in AcceptedPC
    BY DEF OwnerWasAccepted, AcceptedPC, Registers, Context, Authentication
<1>1. PICK u \in Threads : /\ Registers(u) /\ Context(u) = c
                           /\ Authentication(u) = owner[c]
                           /\ pc[u] \in AcceptedPC
    BY DEF IInv, OwnerWasAccepted, AcceptedPC
<1>2. pc'[u] \in AcceptedPC
    BY <1>1 DEF GoTo, IInv, TypeOK
<1> QED BY <1>1, <1>2

\* A step of t that leaves messages, locks and copies alone disturbs no other
\* thread.
LEMMA OthersKeep ==
    ASSUME IInv, NEW t \in Threads, NEW l, GoTo(t, l),
           UNCHANGED <<request, message, jobKey>>,
           late' \in {late, late \ {t}},
           registrants \subseteq registrants',
           \A k \in Keys : spelled[k] \subseteq spelled'[k],
           \A u \in Threads \ {t} : copy'[u] = copy[u],
           NEW u \in Threads \ {t}
    PROVE  ThreadInv(u)'
<1>1. ThreadInv(u) /\ pc'[u] = pc[u] /\ copy'[u] = copy[u] /\ (u \in late' <=> u \in late)
    BY DEF IInv, TypeOK, GoTo
<1>2. Sane(u)'
    BY <1>1 DEF ThreadInv, Sane, Context, Registers
<1>3. Named(u)'
    <2>1. pc[u] \in Authorizing \cup {"put"} \cup InJob \cup {"job"} => Key(u) \in Keys
        BY StoringKey DEF Storing, Authorizing, InJob
    <2> QED BY <1>1, <2>1 DEF ThreadInv, Named, Key
<1>4. Fresh(u)'
    BY <1>1 DEF ThreadInv, Fresh, Key
<1>5. Allowed(u)'
    BY <1>1 DEF ThreadInv, Allowed, MayChange, Key, Authentication, isOwner
<1> QED BY <1>2, <1>3, <1>4, <1>5 DEF ThreadInv

\* A step that takes no lock.
LEMMA LocksStay ==
    ASSUME IInv, NEW t \in Threads, NEW l, GoTo(t, l),
           \A u \in Threads : Processing(u) => jobKey'[u] = jobKey[u],
           l \in InJob => pc[t] \in InJob
    PROVE  LocksApart'
<1> SUFFICES ASSUME NEW u \in Threads, NEW v \in Threads, u # v,
                    Processing(u)', Processing(v)'
             PROVE  jobKey'[u] # jobKey'[v]
    BY DEF LocksApart
<1>1. \A x \in {u, v} : Processing(x)
    BY DEF GoTo, Processing, InJob, IInv, TypeOK
<1> QED BY <1>1 DEF IInv, LocksApart

\* A call of register or of authorize reads, or puts an owner or a user, and
\* moves on.
LEMMA CallKeepsIInv ==
    ASSUME IInv, NEW t \in Threads, NEW l \in PC, GoTo(t, l),
           UNCHANGED <<setting, message, jobKey, copy, late, raced, spelled>>,
           user' \in [Authentications -> Registration],
           owner' \in [Contexts -> Authentications \cup {NoOne}],
           registrants' \subseteq Authentications,
           registrants \subseteq registrants',
           UsersKnown', OwnerWasAccepted', ThreadInv(t)',
           l \in InJob => pc[t] \in InJob
    PROVE  IInv'
<1>1. \A u \in Threads : ThreadInv(u)'
    <2>1. \A u \in Threads \ {t} : ThreadInv(u)'
        BY OthersKeep DEF setting
    <2> QED BY <2>1
<1>2. TypeOK'
    <2>1. pc' \in [Threads -> PC] /\ UNCHANGED <<assertions, request>>
        BY DEF GoTo, setting, IInv, TypeOK
    <2>2. late' \subseteq {u \in Threads : ~Registers(u)'}
        BY <2>1 DEF IInv, TypeOK, Registers
    <2>3. \A u \in Threads : pc'[u] \in {"put", "effect"} => copy'[u].there
        BY <1>1 DEF ThreadInv, Named, Authorizing
    <2> QED BY <2>1, <2>2, <2>3 DEF IInv, TypeOK
<1>3. MessagesNamed'
    BY DEF IInv, MessagesNamed
<1>4. LocksApart'
    BY LocksStay
<1> QED BY <1>1, <1>2, <1>3, <1>4 DEF IInv

-----------------------------------------------------------------------------
(* Every step keeps the invariant: register                                *)

LEMMA InitIInv == Init => IInv
<1> SUFFICES ASSUME Init PROVE IInv
    OBVIOUS
<1>1. TypeOK
    BY UsersAssumption DEF Init, TypeOK, Registration, PC
<1>2. OwnerWasAccepted /\ MessagesNamed /\ UsersKnown
    BY DEF Init, OwnerWasAccepted, MessagesNamed, NoMessage, UsersKnown
<1>3. LocksApart
    BY DEF Init, LocksApart, Processing
<1>4. ASSUME NEW t \in Threads PROVE ThreadInv(t)
    <2>1. pc[t] \in {"access", "getUser", "register"}
        BY DEF Init
    <2>2. pc[t] = "register" => Registers(t) /\ Context(t) # NoContext
        BY DEF Init
    <2>3. pc[t] = "access" <=> ~Registers(t)
        BY DEF Init
    <2>4. Sane(t)
        BY <1>1, <2>1, <2>2, <2>3, RequestTyped DEF Sane, Registering, Storing, Authorizing
    <2> QED BY <2>1, <2>4 DEF ThreadInv, Named, Fresh, Allowed, Authorizing, InJob
<1> QED BY <1>1, <1>2, <1>3, <1>4 DEF IInv

LEMMA RegisterContextKeepsIInv ==
    ASSUME IInv, NEW t \in Threads, RegisterContext(t) PROVE IInv'
<1>1. PICK l \in {"putContext", "getUser", "refused"} : GoTo(t, l)
    BY DEF RegisterContext
<1>2. pc[t] = "register" /\ UNCHANGED <<setting, documents, jobKey, copy, history>>
    BY DEF RegisterContext
<1>3. pc'[t] = l
    BY <1>1 DEF GoTo, IInv, TypeOK
<1>4. Registers(t)' /\ Context(t)' \in Contexts
    BY <1>2 DEF IInv, ThreadInv, Sane, Registering, Registers, Context, setting
<1>5. ThreadInv(t)'
    BY <1>1, <1>3, <1>4 DEF ThreadInv, Sane, Named, Fresh, Allowed, Registering,
                            Storing, Authorizing, InJob
<1>6. OwnerWasAccepted'
    BY <1>1, <1>2, AcceptedStays DEF AcceptedPC, setting, documents
<1>7. UsersKnown'
    BY <1>2 DEF IInv, UsersKnown, documents, history
<1> QED BY <1>1, <1>2, <1>5, <1>6, <1>7, CallKeepsIInv
        DEF IInv, TypeOK, PC, InJob, documents, history

LEMMA PutContextKeepsIInv ==
    ASSUME IInv, NEW t \in Threads, PutContext(t) PROVE IInv'
<1>1. /\ pc[t] = "putContext" /\ GoTo(t, "getUser")
      /\ owner' = [owner EXCEPT ![Context(t)] = Authentication(t)]
      /\ UNCHANGED <<setting, user, message, jobKey, copy, history>>
    BY DEF PutContext
<1>2. pc'[t] = "getUser" /\ \A u \in Threads \ {t} : pc'[u] = pc[u]
    BY <1>1 DEF GoTo, IInv, TypeOK
<1>3. Registers(t) /\ Context(t) \in Contexts /\ Authentication(t) \in Authentications
    BY <1>1, RequestTyped DEF IInv, ThreadInv, Sane, Registering
<1>4. ThreadInv(t)'
    BY <1>1, <1>2, <1>3 DEF ThreadInv, Sane, Named, Fresh, Allowed, Registering,
                            Storing, Authorizing, InJob, Registers, setting
<1>5. OwnerWasAccepted'
    <2> SUFFICES ASSUME NEW c \in Contexts, owner'[c] # NoOne
                 PROVE  \E u \in Threads : /\ Registers(u) /\ Context(u) = c
                                           /\ Authentication(u) = owner'[c]
                                           /\ pc'[u] \in AcceptedPC
        BY <1>1 DEF OwnerWasAccepted, AcceptedPC, Registers, Context, Authentication,
                    setting
    <2>1. CASE c = Context(t)
        BY <1>1, <1>2, <1>3, <2>1 DEF IInv, TypeOK, AcceptedPC
    <2>2. CASE c # Context(t)
        <3>1. owner'[c] = owner[c]
            BY <1>1, <2>2 DEF IInv, TypeOK
        <3>2. PICK u \in Threads : /\ Registers(u) /\ Context(u) = c
                                   /\ Authentication(u) = owner[c]
                                   /\ pc[u] \in AcceptedPC
            BY <3>1 DEF IInv, OwnerWasAccepted, AcceptedPC
        <3> QED BY <1>2, <2>2, <3>1, <3>2
    <2> QED BY <2>1, <2>2
<1>6. UsersKnown'
    BY <1>1 DEF IInv, UsersKnown, history
<1> QED BY <1>1, <1>3, <1>4, <1>5, <1>6, CallKeepsIInv
        DEF IInv, TypeOK, PC, InJob, history

\* getUser and the put of register only move between calls of register.
LEMMA GetUserKeepsIInv ==
    ASSUME IInv, NEW t \in Threads, GetUser(t) PROVE IInv'
<1>1. PICK l \in {"createUser", "putUser"} : GoTo(t, l)
    BY DEF GetUser
<1>2. pc[t] = "getUser" /\ UNCHANGED <<setting, documents, jobKey, copy, history>>
    BY DEF GetUser
<1>3. pc'[t] = l
    BY <1>1 DEF GoTo, IInv, TypeOK
<1>4. Registers(t)'
    BY <1>2 DEF IInv, ThreadInv, Sane, Registering, Registers, setting
<1>5. ThreadInv(t)'
    BY <1>1, <1>3, <1>4 DEF ThreadInv, Sane, Named, Fresh, Allowed, Registering,
                            Storing, Authorizing, InJob
<1>6. OwnerWasAccepted'
    BY <1>1, <1>2, AcceptedStays DEF AcceptedPC, setting, documents
<1>7. UsersKnown'
    BY <1>2 DEF IInv, UsersKnown, documents, history
<1> QED BY <1>1, <1>2, <1>5, <1>6, <1>7, CallKeepsIInv
        DEF IInv, TypeOK, PC, InJob, documents, history

\* A fresh user is not registered.
LEMMA FreshUser ==
    ASSUME IInv, NEW t \in Threads, PutFreshUser(t), UNCHANGED registrants
    PROVE  UsersKnown' /\ user' \in [Authentications -> Registration]
<1>1. user \in [Authentications -> Registration]
    BY DEF IInv, TypeOK
<1>2. user' \in [Authentications -> Registration]
    BY <1>1 DEF PutFreshUser, Registration
<1>3. \A a \in Authentications : user'[a] = "registered" => user[a] = "registered"
    BY <1>1 DEF PutFreshUser
<1> QED BY <1>2, <1>3 DEF IInv, UsersKnown

LEMMA CreateUserKeepsIInv ==
    ASSUME IInv, NEW t \in Threads, CreateUser(t) PROVE IInv'
<1>1. /\ pc[t] = "createUser" /\ GoTo(t, "putUser") /\ PutFreshUser(t)
      /\ UNCHANGED <<setting, owner, message, jobKey, copy, history>>
    BY DEF CreateUser
<1>2. pc'[t] = "putUser"
    BY <1>1 DEF GoTo, IInv, TypeOK
<1>3. Registers(t)'
    BY <1>1 DEF IInv, ThreadInv, Sane, Registering, Registers, setting
<1>4. ThreadInv(t)'
    BY <1>2, <1>3 DEF ThreadInv, Sane, Named, Fresh, Allowed, Registering,
                      Storing, Authorizing, InJob
<1>5. OwnerWasAccepted'
    BY <1>1, AcceptedStays DEF AcceptedPC, setting
<1>6. UsersKnown' /\ user' \in [Authentications -> Registration]
    BY <1>1, FreshUser DEF history
<1> QED BY <1>1, <1>4, <1>5, <1>6, CallKeepsIInv DEF IInv, TypeOK, PC, InJob, history

LEMMA PutUserKeepsIInv ==
    ASSUME IInv, NEW t \in Threads, PutUser(t) PROVE IInv'
<1>1. /\ pc[t] = "putUser" /\ GoTo(t, "done")
      /\ user' = [user EXCEPT ![Authentication(t)] = "registered"]
      /\ registrants' = registrants \cup {Authentication(t)}
      /\ UNCHANGED <<setting, owner, message, jobKey, copy, late, raced, spelled>>
    BY DEF PutUser
<1>2. pc'[t] = "done"
    BY <1>1 DEF GoTo, IInv, TypeOK
<1>3. ThreadInv(t)'
    BY <1>2 DEF ThreadInv, Sane, Named, Fresh, Allowed, Registering, Storing,
                Authorizing, InJob
<1>4. OwnerWasAccepted'
    BY <1>1, AcceptedStays DEF AcceptedPC, setting
<1>5. Authentication(t) \in Authentications
    BY RequestTyped DEF IInv
<1>6. user' \in [Authentications -> Registration]
    BY <1>1 DEF IInv, TypeOK, Registration
<1>7. UsersKnown'
    BY <1>1 DEF IInv, TypeOK, UsersKnown
<1> QED BY <1>1, <1>3, <1>4, <1>5, <1>6, <1>7, CallKeepsIInv
        DEF IInv, TypeOK, PC, InJob

-----------------------------------------------------------------------------
(* Every step keeps the invariant: authorize and the calls that fail       *)

\* authorize puts nothing; it lets those pass whom a write of theirs is
\* allowed: to next, a call that needs no more than that.
LEMMA AuthorizeKeepsIInv ==
    ASSUME IInv, NEW t \in Threads,
           NEW from \in {"authorize", "authorizeJob"},
           NEW create \in {"create", "createJob"},
           NEW next \in {"put", "effect"},
           from = "authorize" => create = "create" /\ next = "put",
           from = "authorizeJob" => create = "createJob" /\ next = "effect",
           pc[t] = from, Authorize(t, create, next)
    PROVE  IInv'
<1> DEFINE type == request[t].type
           known == user[Authentication(t)]
<1>1. PICK l \in {create, next, "refused"} :
          GoTo(t, l) /\ (l = next => allows(type, Authentication(t), copy[t], known))
    BY DEF Authorize
<1>2. UNCHANGED <<setting, documents, jobKey, copy, history>>
    BY DEF Authorize
<1>3. pc'[t] = l
    BY <1>1 DEF GoTo, IInv, TypeOK
<1>4. Sane(t) /\ Named(t) /\ Fresh(t) /\ pc[t] \in Authorizing
    BY DEF IInv, ThreadInv, Authorizing
<1>5. Sane(t)'
    BY <1>2, <1>3, <1>4 DEF Sane, Registering, Storing, Authorizing, Registers, setting
<1>6. Named(t)'
    BY <1>2, <1>3, <1>4 DEF Named, Authorizing, InJob, Key, setting, history
<1>7. Fresh(t)'
    BY <1>2, <1>3, <1>4 DEF Fresh, Authorizing, Key, setting, documents, history
<1>8. l = next => MayChange(t, copy[t])
    <2> SUFFICES ASSUME l = next PROVE MayChange(t, copy[t])
        OBVIOUS
    <2>1. Authentication(t) \in Authentications
        BY RequestTyped DEF IInv
    <2>2. known = "registered" => Authentication(t) \in registrants
        BY <2>1 DEF IInv, UsersKnown
    <2> QED BY <1>1, <2>2 DEF allows, MayChange
<1>9. Allowed(t)'
    BY <1>2, <1>3, <1>8 DEF Allowed, MayChange, isOwner, Authentication, Key, setting,
                            documents, history
<1>10. OwnerWasAccepted'
    BY <1>1, <1>2, AcceptedStays DEF AcceptedPC, setting, documents
<1>11. UsersKnown'
    BY <1>2 DEF IInv, UsersKnown, documents, history
<1>12. ThreadInv(t)'
    BY <1>5, <1>6, <1>7, <1>9 DEF ThreadInv
<1> QED BY <1>1, <1>2, <1>10, <1>11, <1>12, CallKeepsIInv
        DEF IInv, TypeOK, PC, InJob, documents, history

LEMMA AuthorizeFreshKeepsIInv ==
    ASSUME IInv, NEW t \in Threads, pc[t] \in {"create", "createJob"},
           AuthorizeFresh(t)
    PROVE  IInv'
<1>1. /\ PutFreshUser(t) /\ GoTo(t, "refused")
      /\ UNCHANGED <<setting, owner, message, jobKey, copy, history>>
    BY DEF AuthorizeFresh
<1>2. pc'[t] = "refused"
    BY <1>1 DEF GoTo, IInv, TypeOK
<1>3. ThreadInv(t)'
    BY <1>2 DEF ThreadInv, Sane, Named, Fresh, Allowed, Registering, Storing,
                Authorizing, InJob
<1>4. OwnerWasAccepted'
    BY <1>1, AcceptedStays DEF AcceptedPC, setting
<1>5. UsersKnown' /\ user' \in [Authentications -> Registration]
    BY <1>1, FreshUser DEF history
<1> QED BY <1>1, <1>3, <1>4, <1>5, CallKeepsIInv DEF IInv, TypeOK, PC, InJob, history

LEMMA EndKeepsIInv ==
    ASSUME IInv, NEW t \in Threads, NEW l \in {"refused", "failed", "halfway"},
           GoTo(t, l), UNCHANGED <<setting, documents, jobKey, copy, history>>,
           l = "refused" => pc[t] \in Storing
    PROVE  IInv'
<1>1. pc'[t] = l
    BY DEF GoTo, IInv, TypeOK
<1>2. ThreadInv(t)'
    BY <1>1 DEF ThreadInv, Sane, Named, Fresh, Allowed, Registering, Storing,
                Authorizing, InJob
<1>3. OwnerWasAccepted'
    BY AcceptedStays DEF AcceptedPC, Storing, Authorizing, setting, documents
<1>4. UsersKnown'
    BY DEF IInv, UsersKnown, documents, history
<1> QED BY <1>2, <1>3, <1>4, CallKeepsIInv
        DEF IInv, TypeOK, PC, InJob, documents, history

LEMMA BadKeyKeepsIInv ==
    ASSUME IInv, NEW t \in Threads, BadKey(t) PROVE IInv'
BY EndKeepsIInv DEF BadKey, Storing

LEMMA FailsKeepsIInv ==
    ASSUME IInv, NEW t \in Threads, Fails(t) PROVE IInv'
BY EndKeepsIInv DEF Fails

-----------------------------------------------------------------------------
(* Every step keeps the invariant: what a thread reads or makes            *)

\* Thread t reads a message or makes a new one, and is up to date then.
LEMMA ReadingKeepsIInv ==
    ASSUME IInv, NEW t \in Threads, NEW l \in PC, GoTo(t, l),
           UNCHANGED <<setting, documents, jobKey, raced, registrants>>,
           copy' \in [Threads -> Message \cup {NoMessage}],
           \A u \in Threads \ {t} : copy'[u] = copy[u],
           late' \in {late, late \ {t}},
           spelled' \in [Keys -> SUBSET WellFormed],
           \A k \in Keys : spelled[k] \subseteq spelled'[k],
           ThreadInv(t)', LocksApart',
           pc[t] \in Storing
    PROVE  IInv'
<1>1. \A u \in Threads : ThreadInv(u)'
    <2>1. \A u \in Threads \ {t} : ThreadInv(u)'
        BY OthersKeep DEF setting, documents
    <2> QED BY <2>1
<1>2. TypeOK'
    <2>1. pc' \in [Threads -> PC] /\ UNCHANGED <<assertions, request>>
        BY DEF GoTo, setting, IInv, TypeOK
    <2>2. late' \subseteq {u \in Threads : ~Registers(u)'}
        BY <2>1 DEF IInv, TypeOK, Registers
    <2>3. \A u \in Threads : pc'[u] \in {"put", "effect"} => copy'[u].there
        BY <1>1 DEF ThreadInv, Named, Authorizing
    <2> QED BY <2>1, <2>2, <2>3 DEF IInv, TypeOK, documents
<1>3. OwnerWasAccepted'
    BY AcceptedStays DEF AcceptedPC, Storing, Authorizing, setting, documents
<1>4. MessagesNamed'
    BY DEF IInv, MessagesNamed, documents
<1>5. UsersKnown'
    BY DEF IInv, UsersKnown, documents
<1> QED BY <1>1, <1>2, <1>3, <1>4, <1>5 DEF IInv

LEMMA AccessKeepsIInv ==
    ASSUME IInv, NEW t \in Threads, Access(t) PROVE IInv'
<1> DEFINE m == message[Key(t)]
<1>1. PICK l \in {"authorize", "provision"} :
          /\ GoTo(t, l)
          /\ l = "authorize" => m.there /\ copy' = [copy EXCEPT ![t] = m]
          /\ l = "provision" => ~m.there /\ copy' = copy
    BY DEF Access
<1>2. /\ pc[t] = "access" /\ ~malformed(request[t].key) /\ late' = late \ {t}
      /\ UNCHANGED <<setting, documents, jobKey, raced, spelled, registrants>>
    BY DEF Access, Current
<1>3. ~Registers(t)
    BY <1>2 DEF IInv, ThreadInv, Sane, Storing
<1>4. request[t].key \in WellFormed
    BY <1>2, <1>3, RequestTyped DEF IInv, WellFormed
<1>5. Key(t) \in Keys
    BY <1>4, KeyTyped
<1>6. pc'[t] = l
    BY <1>1 DEF GoTo, IInv, TypeOK
<1>7. copy' \in [Threads -> Message \cup {NoMessage}]
    BY <1>1, <1>5 DEF IInv, TypeOK
<1>8. l = "authorize" => copy'[t] = m
    BY <1>1 DEF IInv, TypeOK
<1>9. Sane(t)'
    BY <1>2, <1>3, <1>4, <1>6 DEF Sane, Registering, Storing, Authorizing, Registers, setting
<1>10. Named(t)'
    BY <1>1, <1>2, <1>5, <1>6, <1>8
       DEF Named, Authorizing, InJob, Key, IInv, MessagesNamed, setting
<1>11. Fresh(t)' /\ Allowed(t)'
    BY <1>1, <1>2, <1>6, <1>8 DEF Fresh, Allowed, Authorizing, Key, setting, documents
<1>12. LocksApart'
    BY <1>1, <1>2, LocksStay DEF InJob
<1>13. \A u \in Threads \ {t} : copy'[u] = copy[u]
    BY <1>1 DEF IInv, TypeOK
<1>14. ThreadInv(t)'
    BY <1>9, <1>10, <1>11 DEF ThreadInv
<1>15. /\ spelled' \in [Keys -> SUBSET WellFormed]
       /\ \A k \in Keys : spelled[k] \subseteq spelled'[k]
    BY <1>2 DEF IInv, TypeOK
<1> QED BY <1>1, <1>2, <1>7, <1>12, <1>13, <1>14, <1>15, ReadingKeepsIInv DEF PC, Storing

\* A new message has the spelling it is provisioned with.
LEMMA ProvisionKeepsIInv ==
    ASSUME IInv, NEW t \in Threads, Provision(t) PROVE IInv'
<1> DEFINE o == owner[userContext(request[t].key)]
<1>1. CASE GoTo(t, "refused") /\ UNCHANGED <<copy, spelled>>
    BY <1>1, EndKeepsIInv DEF Provision, Storing, history
<1>2. CASE o # NoOne /\ Provisioned(t, o) /\ GoTo(t, "put")
    <2>1. /\ pc[t] = "provision"
          /\ UNCHANGED <<setting, documents, jobKey, late, raced, registrants>>
        BY DEF Provision
    <2>2. /\ Key(t) \in Keys
          /\ userContext(request[t].key) \in Contexts
          /\ request[t].key \in WellFormed
          /\ ~Registers(t)
        BY <2>1, StoringKey DEF Storing
    <2>3. o \in Authentications /\ Authentication(t) \in Authentications
          /\ request[t].secure \in BOOLEAN
        BY <1>2, <2>2, RequestTyped DEF IInv, TypeOK
    <2> DEFINE m == [there |-> TRUE, contextOwner |-> o,
                     messageOwner |-> Authentication(t), secure |-> request[t].secure,
                     messageKey |-> request[t].key]
    <2>4. m \in Message
        BY <2>2, <2>3 DEF Message
    <2>5. /\ copy' = [copy EXCEPT ![t] = m]
          /\ spelled' = [spelled EXCEPT ![Key(t)] = @ \cup {request[t].key}]
        BY <1>2 DEF Provisioned
    <2> HIDE DEF o
    <2>6. /\ copy' \in [Threads -> Message \cup {NoMessage}]
          /\ copy'[t] = m
          /\ \A u \in Threads \ {t} : copy'[u] = copy[u]
        BY <2>4, <2>5 DEF IInv, TypeOK
    <2>7. /\ spelled' \in [Keys -> SUBSET WellFormed]
          /\ \A k \in Keys : spelled[k] \subseteq spelled'[k]
          /\ request[t].key \in spelled'[Key(t)]
        BY <2>2, <2>5 DEF IInv, TypeOK
    <2>8. pc'[t] = "put"
        BY <1>2 DEF GoTo, IInv, TypeOK
    <2>9. Sane(t)'
        BY <2>1, <2>2, <2>8 DEF Sane, Registering, Storing, Authorizing, Registers, setting
    <2>10. Named(t)'
        BY <2>1, <2>6, <2>7, <2>8 DEF Named, Authorizing, InJob, Key, setting
    <2>11. t \notin late => ~message[Key(t)].there
        BY <2>1 DEF IInv, ThreadInv, Fresh
    <2>12. Fresh(t)' /\ Allowed(t)'
        BY <2>1, <2>8, <2>11 DEF Fresh, Allowed, Authorizing, Key, setting, documents
    <2>13. LocksApart'
        BY <1>2, <2>1, LocksStay DEF InJob
    <2>14. ThreadInv(t)'
        BY <2>9, <2>10, <2>12 DEF ThreadInv
    <2> QED BY <1>2, <2>1, <2>6, <2>7, <2>13, <2>14, ReadingKeepsIInv DEF PC, Storing
<1> QED BY <1>1, <1>2 DEF Provision

\* The job that takes a lock is alone with it.
LEMMA JobAccessKeepsIInv ==
    ASSUME IInv, NEW t \in Threads, JobAccess(t) PROVE IInv'
<1> DEFINE m == message[Key(t)]
<1>1. PICK l \in {"authorizeJob", "done"} : GoTo(t, l) /\ (l = "authorizeJob" => m.there)
    BY DEF JobAccess
<1>2. /\ pc[t] = "job" /\ ~KeyBusy(jobKey[t]) /\ copy' = [copy EXCEPT ![t] = m]
      /\ late' = late \ {t}
      /\ UNCHANGED <<setting, documents, jobKey, raced, spelled, registrants>>
    BY DEF JobAccess, Current
<1>3. Key(t) \in Keys /\ request[t].key \in WellFormed /\ ~Registers(t)
    BY <1>2, StoringKey DEF Storing
<1>4. pc'[t] = l /\ \A u \in Threads \ {t} : pc'[u] = pc[u]
    BY <1>1 DEF GoTo, IInv, TypeOK
<1>5. /\ copy' \in [Threads -> Message \cup {NoMessage}]
      /\ copy'[t] = m
      /\ \A u \in Threads \ {t} : copy'[u] = copy[u]
    BY <1>2, <1>3 DEF IInv, TypeOK
<1>6. Sane(t)'
    BY <1>2, <1>3, <1>4 DEF Sane, Registering, Storing, Authorizing, Registers, setting
<1>7. Named(t)'
    <2>1. jobKey[t] \in spelled[Key(t)]
        BY <1>2 DEF IInv, ThreadInv, Named
    <2>2. m.there => m.messageKey \in spelled[Key(t)]
        BY <1>3 DEF IInv, MessagesNamed
    <2> QED BY <1>1, <1>2, <1>4, <1>5, <2>1, <2>2 DEF Named, Authorizing, InJob, Key, setting
<1>8. Fresh(t)' /\ Allowed(t)'
    BY <1>2, <1>4, <1>5 DEF Fresh, Allowed, Authorizing, Key, setting, documents
<1>9. LocksApart'
    <2> SUFFICES ASSUME NEW u \in Threads, NEW v \in Threads, u # v,
                        Processing(u)', Processing(v)'
                 PROVE  jobKey[u] # jobKey[v]
        BY <1>2 DEF LocksApart
    <2>1. \A x \in {u, v} : x # t => Processing(x)
        BY <1>4 DEF Processing
    <2>2. \A x \in {u, v} : x # t => jobKey[x] # jobKey[t]
        BY <1>2, <2>1 DEF KeyBusy
    <2> QED BY <2>1, <2>2 DEF IInv, LocksApart
<1>10. ThreadInv(t)'
    BY <1>6, <1>7, <1>8 DEF ThreadInv
<1>11. /\ spelled' \in [Keys -> SUBSET WellFormed]
       /\ \A k \in Keys : spelled[k] \subseteq spelled'[k]
    BY <1>2 DEF IInv, TypeOK
<1> QED BY <1>1, <1>2, <1>5, <1>9, <1>10, <1>11, ReadingKeepsIInv DEF PC, Storing

-----------------------------------------------------------------------------
(* Every step keeps the invariant: what a thread writes                    *)

\* A write of t makes late whoever goes on from the message as it was.
LEMMA WriteKeepsIInv ==
    ASSUME IInv, NEW t \in Threads, pc[t] \in {"put", "effect"},
           NEW m \in Message \cup {NoMessage}, Write(t, m),
           m.there => m.messageKey \in spelled[Key(t)],
           NEW l \in {"job", "done"}, GoTo(t, l),
           jobKey' \in [Threads -> WellFormed \cup {<<>>}],
           \A u \in Threads \ {t} : jobKey'[u] = jobKey[u],
           Processing(t) => jobKey'[t] = jobKey[t],
           l = "job" => jobKey'[t] \in spelled[Key(t)]
    PROVE  IInv'
<1>1. /\ message' = [message EXCEPT ![Key(t)] = m]
      /\ late' = (late \cup Holding(Key(t))) \ {t}
      /\ raced' = IF t \in late THEN raced \cup {Key(t)} ELSE raced
      /\ UNCHANGED <<assertions, request, user, owner, copy, spelled, registrants>>
    BY DEF Write, setting
<1>2. Key(t) \in Keys /\ request[t].key \in WellFormed /\ ~Registers(t)
    BY StoringKey DEF Storing, Authorizing
<1>3. pc'[t] = l /\ \A u \in Threads \ {t} : pc'[u] = pc[u]
    BY DEF GoTo, IInv, TypeOK
<1>4. message' \in [Keys -> Message \cup {NoMessage}]
    BY <1>1, <1>2 DEF IInv, TypeOK
<1>5. ThreadInv(t)'
    <2>1. Sane(t)'
        BY <1>1, <1>2, <1>3 DEF Sane, Registering, Storing, Authorizing, Registers
    <2>2. Named(t)'
        BY <1>1, <1>3 DEF Named, Authorizing, InJob, Key
    <2>3. Fresh(t)' /\ Allowed(t)'
        BY <1>3 DEF Fresh, Allowed, Authorizing
    <2> QED BY <2>1, <2>2, <2>3 DEF ThreadInv
<1>6. ASSUME NEW u \in Threads \ {t} PROVE ThreadInv(u)'
    <2>1. ThreadInv(u) /\ pc'[u] = pc[u] /\ copy'[u] = copy[u]
        BY <1>1, <1>3 DEF IInv
    <2>2. Sane(u)'
        BY <1>1, <2>1 DEF ThreadInv, Sane, Context, Registers
    <2>3. Named(u)'
        BY <1>1, <2>1 DEF ThreadInv, Named, Key
    <2>4. ASSUME u \notin late', pc[u] \in Authorizing \cup {"provision", "put"}
          PROVE  u \notin late /\ message'[Key(u)] = message[Key(u)]
        <3>1. Key(u) \in Keys /\ ~Registers(u)
            BY <2>4, StoringKey DEF Storing, Authorizing
        <3>2. u \notin Holding(Key(t)) /\ u \notin late
            BY <1>1, <2>4
        <3>3. Key(u) # Key(t)
            BY <2>4, <3>1, <3>2 DEF Holding, Authorizing
        <3> QED BY <1>1, <1>2, <3>1, <3>2, <3>3 DEF IInv, TypeOK
    <2>5. Fresh(u)'
        BY <1>1, <2>1, <2>4 DEF ThreadInv, Fresh, Key
    <2>6. Allowed(u)'
        BY <1>1, <2>1, <2>4 DEF ThreadInv, Allowed, MayChange, Key, Authentication, isOwner
    <2> QED BY <2>2, <2>3, <2>5, <2>6 DEF ThreadInv
<1>7. \A u \in Threads : ThreadInv(u)'
    BY <1>5, <1>6
<1>8. TypeOK'
    <2>1. pc' \in [Threads -> PC]
        BY DEF GoTo, PC, IInv, TypeOK
    <2>2. late' \subseteq {u \in Threads : ~Registers(u)'}
        BY <1>1 DEF IInv, TypeOK, Registers, Holding
    <2>3. \A u \in Threads : pc'[u] \in {"put", "effect"} => copy'[u].there
        BY <1>7 DEF ThreadInv, Named, Authorizing
    <2>4. raced' \subseteq Keys
        BY <1>1, <1>2 DEF IInv, TypeOK
    <2> QED BY <1>1, <1>4, <2>1, <2>2, <2>3, <2>4 DEF IInv, TypeOK
<1>9. OwnerWasAccepted'
    BY <1>1, AcceptedStays DEF AcceptedPC
<1>10. MessagesNamed'
    BY <1>1, <1>2 DEF IInv, TypeOK, MessagesNamed
<1>11. UsersKnown'
    BY <1>1 DEF IInv, UsersKnown
<1>12. LocksApart'
    BY LocksStay DEF InJob
<1> QED BY <1>7, <1>8, <1>9, <1>10, <1>11, <1>12 DEF IInv

LEMMA PutKeepsIInv ==
    ASSUME IInv, NEW t \in Threads, Put(t) PROVE IInv'
<1> DEFINE m == [copy[t] EXCEPT !.secure = request[t].secure]
<1>1. /\ pc[t] = "put" /\ Write(t, m) /\ GoTo(t, "job")
      /\ jobKey' = [jobKey EXCEPT ![t] = copy[t].messageKey]
    BY DEF Put
<1>2. copy[t].there /\ copy[t].messageKey \in spelled[Key(t)]
    BY <1>1 DEF IInv, ThreadInv, Named
<1>3. copy[t] \in Message
    BY <1>2 DEF IInv, TypeOK, NoMessage
<1>4. request[t].secure \in BOOLEAN
    BY <1>1, StoringKey, RequestTyped DEF IInv, Storing
<1>5. m \in Message /\ m.messageKey = copy[t].messageKey
    BY <1>3, <1>4 DEF Message
<1>6. /\ jobKey' \in [Threads -> WellFormed \cup {<<>>}]
      /\ jobKey'[t] = copy[t].messageKey
      /\ \A u \in Threads \ {t} : jobKey'[u] = jobKey[u]
    BY <1>1, <1>3 DEF IInv, TypeOK, Message
<1>7. ~Processing(t)
    BY <1>1 DEF Processing
<1> HIDE DEF m
<1> QED BY <1>1, <1>2, <1>5, <1>6, <1>7, WriteKeepsIInv

LEMMA EffectKeepsIInv ==
    ASSUME IInv, NEW t \in Threads, Effect(t) PROVE IInv'
<1>1. PICK m \in {NoMessage, copy[t]} : Write(t, m)
    BY DEF Effect
<1>2. pc[t] = "effect" /\ GoTo(t, "done") /\ jobKey' = jobKey
    BY DEF Effect
<1>3. copy[t] \in Message \cup {NoMessage} /\ copy[t].messageKey \in spelled[Key(t)]
    BY <1>2 DEF IInv, TypeOK, ThreadInv, Named, Authorizing
<1>4. m \in Message \cup {NoMessage} /\ (m.there => m.messageKey \in spelled[Key(t)])
    BY <1>3 DEF NoMessage
<1> QED BY <1>1, <1>2, <1>4, WriteKeepsIInv DEF IInv, TypeOK

-----------------------------------------------------------------------------
(* The theorems                                                            *)

LEMMA NextKeepsIInv == IInv /\ [Next]_vars => IInv'
<1> SUFFICES ASSUME IInv, [Next]_vars PROVE IInv'
    OBVIOUS
<1>1. CASE UNCHANGED vars
    BY <1>1 DEF vars, setting, documents, history, IInv, TypeOK, OwnerWasAccepted,
                ThreadInv, Sane, Named, Fresh, Allowed, MayChange, MessagesNamed,
                UsersKnown, LocksApart, Processing, Key, Registers, Context,
                Authentication
<1>2. ASSUME NEW t \in Threads, register(t) PROVE IInv'
    BY <1>2, RegisterContextKeepsIInv, PutContextKeepsIInv, GetUserKeepsIInv,
       CreateUserKeepsIInv, PutUserKeepsIInv DEF register
<1>3. ASSUME NEW t \in Threads, storeMessage(t) PROVE IInv'
    <2>1. CASE BadKey(t) \/ Access(t) \/ Provision(t) \/ Put(t)
        BY <2>1, BadKeyKeepsIInv, AccessKeepsIInv, ProvisionKeepsIInv, PutKeepsIInv
    <2>2. CASE pc[t] = "authorize" /\ Authorize(t, "create", "put")
        BY <2>2, AuthorizeKeepsIInv
    <2>3. CASE pc[t] = "create" /\ AuthorizeFresh(t)
        BY <2>3, AuthorizeFreshKeepsIInv
    <2> QED BY <1>3, <2>1, <2>2, <2>3 DEF storeMessage
<1>4. ASSUME NEW t \in Threads, pullJob(t) PROVE IInv'
    <2>1. CASE JobAccess(t) \/ Effect(t)
        BY <2>1, JobAccessKeepsIInv, EffectKeepsIInv
    <2>2. CASE pc[t] = "authorizeJob" /\ Authorize(t, "createJob", "effect")
        BY <2>2, AuthorizeKeepsIInv
    <2>3. CASE pc[t] = "createJob" /\ AuthorizeFresh(t)
        BY <2>3, AuthorizeFreshKeepsIInv
    <2> QED BY <1>4, <2>1, <2>2, <2>3 DEF pullJob
<1>5. ASSUME NEW t \in Threads, Fails(t) PROVE IInv'
    BY <1>5, FailsKeepsIInv
<1> QED BY <1>1, <1>2, <1>3, <1>4, <1>5 DEF Next, Step

\* The inductive invariant holds in every state.
THEOREM InvariantHolds == Spec => []IInv
BY InitIInv, NextKeepsIInv, PTL DEF Spec

\* The variables keep their types, and whoever is about to put or to have an
\* effect has a message in hand.
THEOREM TypeCorrect == Spec => []TypeOK
<1>1. IInv => TypeOK
    BY DEF IInv
<1> QED BY <1>1, InvariantHolds, PTL

\* However many users register one context at once, its owner is one of those
\* whom register accepted (UserRoadie.register).
THEOREM OwnerAccepted == Spec => []OwnerWasAccepted
<1>1. IInv => OwnerWasAccepted
    BY DEF IInv
<1> QED BY <1>1, InvariantHolds, PTL

\* Jobs of one message overlap only if the message was created under several
\* spellings of its key (Queue.alreadyProcessingKey, MessageKey): their locks
\* differ, and each lock is a spelling the message was created with.
THEOREM OverlapRespelled == Spec => []JobsOverlapOnlyIfRespelled
<1>1. IInv => JobsOverlapOnlyIfRespelled
    <2> SUFFICES ASSUME IInv, NEW t \in Threads, NEW u \in Threads, t # u,
                        Processing(t), Processing(u), Key(t) = Key(u)
                 PROVE  \E r, s \in spelled[Key(t)] : r # s
        BY DEF JobsOverlapOnlyIfRespelled
    <2>1. jobKey[t] # jobKey[u]
        BY DEF IInv, LocksApart
    <2>2. jobKey[t] \in spelled[Key(t)] /\ jobKey[u] \in spelled[Key(t)]
        BY DEF IInv, ThreadInv, Named, Processing, InJob
    <2> QED BY <2>1, <2>2
<1> QED BY <1>1, InvariantHolds, PTL

\* Only a write changes a message: it is of a thread that may change it, and
\* keeps the key and the owners, unless the thread was overtaken.
LEMMA WriteIsAllowed ==
    ASSUME IInv, NEW t \in Threads, Put(t) \/ Effect(t),
           NEW k \in Keys, message[k].there, message'[k] # message[k], k \notin raced'
    PROVE  /\ pc'[t] # pc[t] /\ ~Registers(t) /\ Key(t) = k
           /\ MayChange(t, message[k])
           /\ message'[k].there =>
                  message'[k] \in {[message[k] EXCEPT !.secure = b] : b \in BOOLEAN}
<1>1. pc[t] \in {"put", "effect"}
    BY DEF Put, Effect
<1>2. Key(t) \in Keys /\ ~Registers(t)
    BY <1>1, StoringKey DEF Storing, Authorizing
<1>3. PICK m : Write(t, m) /\ m \in {NoMessage, copy[t],
                                     [copy[t] EXCEPT !.secure = request[t].secure]}
    BY DEF Put, Effect
<1>4. /\ message' = [message EXCEPT ![Key(t)] = m]
      /\ raced' = IF t \in late THEN raced \cup {Key(t)} ELSE raced
    BY <1>3 DEF Write
<1>5. Key(t) = k
    BY <1>2, <1>4 DEF IInv, TypeOK
<1>6. t \notin late
    BY <1>4, <1>5
<1>7. copy[t] = message[k] /\ MayChange(t, copy[t])
    BY <1>1, <1>5, <1>6 DEF IInv, ThreadInv, Fresh, Allowed, Authorizing
<1>8. pc'[t] # pc[t]
    BY <1>1 DEF Put, Effect, GoTo, IInv, TypeOK
<1>9. message'[k] = m
    BY <1>2, <1>4, <1>5 DEF IInv, TypeOK
<1>10. request[t].secure \in BOOLEAN
    BY <1>2, RequestTyped DEF IInv
<1>11. m.there => m \in {[message[k] EXCEPT !.secure = b] : b \in BOOLEAN}
    BY <1>3, <1>7, <1>9, <1>10 DEF NoMessage
<1> QED BY <1>2, <1>5, <1>7, <1>8, <1>9, <1>11

\* An existing message is changed by who owns it and registered, or by who posts
\* a Get behavior to one that is not secure, and keeps its key and owners, unless
\* another write overlapped (BdAuthenticator.authorize).
THEOREM OwnersChange == Spec => OnlyOwnersChange
<1> DEFINE Changed(k) == message[k].there /\ message'[k] # message[k] /\ k \notin raced'
           Rightly(k) ==
               /\ \E t \in Threads :
                      /\ pc'[t] # pc[t] /\ ~Registers(t) /\ Key(t) = k
                      /\ \/ /\ isOwner(Authentication(t), message[k])
                            /\ request[t].type # "Get" =>
                                   Authentication(t) \in registrants
                         \/ request[t].type = "Get" /\ ~message[k].secure
               /\ message'[k].there =>
                      message'[k] \in {[message[k] EXCEPT !.secure = b] : b \in BOOLEAN}
<1>1. IInv /\ [Next]_vars => [\A k \in Keys : Changed(k) => Rightly(k)]_vars
    <2> SUFFICES ASSUME IInv, Next, NEW k \in Keys, Changed(k) PROVE Rightly(k)
        OBVIOUS
    <2>1. PICK t \in Threads : Step(t) \/ Fails(t)
        BY DEF Next
    <2>2. CASE Put(t) \/ Effect(t)
        BY <2>2, WriteIsAllowed DEF MayChange
    <2>3. CASE ~(Put(t) \/ Effect(t))
        BY <2>1, <2>3 DEF Step, register, storeMessage, pullJob, Fails, RegisterContext,
           PutContext, GetUser, CreateUser, PutUser, BadKey, Access, Provision, JobAccess,
           Authorize, AuthorizeFresh, documents
    <2> QED BY <2>2, <2>3
<1> QED BY <1>1, InvariantHolds, PTL DEF Spec, OnlyOwnersChange
=============================================================================
