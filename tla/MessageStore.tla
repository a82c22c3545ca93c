---------------------------- MODULE MessageStore ----------------------------
(***************************************************************************)
(* The messages and what jobs do to them: Bd.addMessage and                *)
(* ResourceRoadie.storeMessage (a client stores a message with a behavior  *)
(* and submits a job), Processor.pullJob and handleProcessingResult (a     *)
(* worker runs the behavior, stores or deletes the message, then stores    *)
(* and submits the new messages the behavior asked for).                   *)
(*                                                                         *)
(* A job goes through the states of JobService.  Jobs exclude one another  *)
(* by the keys in the Cache, as long as no job is left in work: the key of *)
(* such a job may expire, and its late completion removes the key, whoever *)
(* holds it by then; so does a complete that throws.  storeMessage takes no*)
(* key, reads a message and puts it back later.  A thread takes one step   *)
(* per call to the Resource or to the queue, whose operations are one step *)
(* each unless they fail half way.                                         *)
(*                                                                         *)
(* As in the word count of the demo a message has a count, which a Persist *)
(* behavior adds one to, a list of notes, which only storing adds to, and  *)
(* the result of the latest behavior.  A behavior may ask for new messages *)
(* with values of their own.  Requests are authorized, as by               *)
(* AlwaysAllowAuthenticator.                                               *)
(***************************************************************************)
EXTENDS JobService, MessageValues, FiniteSets

CONSTANTS
    Keys,       \* message keys
    Clients,    \* threads running Bd.addMessage once
    Posts,      \* Posts[c]: the key, behavior type and values client c posts
    NewValues,  \* the values new messages may have
    NewMessages,\* NewMessages[k]: what a posted Persist behavior of k asks for
    Results,    \* Results[k]: the results a behavior of key k may leave
    Workers,    \* threads running Processor.pullJob
    NoJob,
    MaxFaults,  \* bound on the number of faults in a behaviour
    TornReads,  \* whether a read may find a document that is being written empty
    KeysExpire  \* whether keys expire: in ElastiCache they do

BehaviorType == {"Persist", "Delete", "Error"}

Names == {"count", "notes", "result"}

\* A new message has a key, maybe a Persist behavior of its own, which asks for
\* no further messages, and values, maybe a list of one note.
NewMessage == [key: Keys, persist: BOOLEAN, values: NewValues]

ASSUME StoreAssumption ==
    /\ KeyOf \in [Jobs -> Keys]
    /\ NoJob \notin Jobs
    /\ \A c \in Clients : /\ Posts[c].key \in Keys
                           /\ Posts[c].type \in BehaviorType
                           /\ DOMAIN Posts[c].values \subseteq {"result"}
    /\ \A values \in NewValues :
           /\ DOMAIN values \subseteq {"notes", "result"}
           /\ "notes" \in DOMAIN values =>
                 values["notes"] = ListOf(<<values["notes"].items[1]>>)
    /\ NewMessages \in [Keys -> Seq(NewMessage)]
    /\ Clients \cap Workers = {}
    /\ MaxFaults \in Nat
    /\ TornReads \in BOOLEAN /\ KeysExpire \in BOOLEAN

VARIABLES
    locked,     \* the keys in the Cache
    message,    \* message[k]: the message as stored in the Resource
    kind,       \* kind[j]: Job.behaviorType
    pc,         \* pc[t]: the next call of thread t
    held,       \* held[t]: the message storeMessage has in hand
    own,        \* own[w]: the message worker w processes
    work,       \* work[w]: its job, the new messages left, and what comes then
    faults,     \* threads that died, calls of the queue that failed half way
    robbed,     \* history: keys removed while a worker had a job of them
    recovered,  \* history: jobs that a reader completed, not their worker
    stale,      \* history: the copies in hand that another put overlapped
    overlapped, \* history: keys whose message was overwritten by such a copy
    deleted,    \* history: keys whose message was ever deleted
    applied,    \* history: counts put since the message exists, by key
    noted,      \* history: notes put since the message exists, by key
    asked,      \* history: the new messages the last run of job j asked for
    stored,     \* history: stored[j][k]: new messages of key k job j put
    got         \* history: got[j][k]: jobs that job j submitted for key k

\* The queue, with its history.
svars == <<status, tries, locked, robbed, recovered>>
history == <<stale, overlapped, deleted, applied, noted, asked, stored, got>>
vars == <<svars, message, kind, pc, held, own, work, faults, history>>

-----------------------------------------------------------------------------
Threads == Clients \cup Workers

\* A thread may have two copies in hand: held[t] and own[t].
Copies == Threads \X {"held", "own"}

\* stems: whether the Persist behavior asks for new messages.
IsMessage(m) ==
    /\ m.there \in BOOLEAN /\ m.stems \in BOOLEAN
    /\ m.behavior \subseteq BehaviorType
    /\ DOMAIN m.values \subseteq Names
    /\ "count" \in DOMAIN m.values => m.values["count"].type = "number"
    /\ "notes" \in DOMAIN m.values => m.values["notes"].type = "list"

NoMessage ==
    [there |-> FALSE, values |-> NoValues, behavior |-> {}, stems |-> FALSE]

Count(m) == IF "count" \in DOMAIN m.values THEN m.values["count"].n ELSE 0
Notes(m) == IF "notes" \in DOMAIN m.values THEN Len(m.values["notes"].items) ELSE 0

\* fresh: the count in own[w] was not put yet.  then: what follows the effects
\* of a run, "finish" in the try block, "fail" in the catch block, "over" in the
\* catch block of a job that complete had put, or was about to put, as Complete.
Work == [job: Jobs \cup {NoJob}, todo: Seq(NewMessage), fresh: BOOLEAN,
         then: {"finish", "fail", "over"}]

NoWork == [job |-> NoJob, todo |-> <<>>, fresh |-> FALSE, then |-> "finish"]

PC == {"new", "put", "push", "done"} \cup
      {"idle", "access", "run", "effect", "store", "putNew", "pushNew",
       "finish", "catch", "fail", "over"}

TypeOK ==
    /\ ServiceTypeOK
    /\ locked \subseteq Keys /\ robbed \subseteq Keys /\ recovered \subseteq Jobs
    /\ \A k \in Keys : IsMessage(message[k])
    /\ kind \in [Jobs -> BehaviorType]
    /\ pc \in [Threads -> PC]
    /\ \A t \in Threads : IsMessage(held[t])
    /\ \A w \in Workers : IsMessage(own[w])
    /\ work \in [Workers -> Work]
    /\ \A w \in Workers : pc[w] # "idle" <=> work[w].job \in Jobs
    /\ faults \in 0 .. MaxFaults
    /\ stale \subseteq Copies
    /\ overlapped \subseteq Keys /\ deleted \subseteq Keys
    /\ applied \in [Keys -> Nat] /\ noted \in [Keys -> Nat]
    /\ asked \in [Jobs -> Seq(NewMessage)]
    /\ stored \in [Jobs -> [Keys -> Nat]]
    /\ got \in [Jobs -> [Keys -> Nat]]

Init ==
    /\ ServiceInit
    /\ locked = {} /\ robbed = {} /\ recovered = {}
    /\ message = [k \in Keys |-> NoMessage]
    /\ kind = [j \in Jobs |-> "Persist"]
    /\ pc = [t \in Threads |-> IF t \in Clients THEN "new" ELSE "idle"]
    /\ held = [t \in Threads |-> NoMessage]
    /\ own = [w \in Workers |-> NoMessage]
    /\ work = [w \in Workers |-> NoWork]
    /\ faults = 0
    /\ stale = {} /\ overlapped = {} /\ deleted = {}
    /\ applied = [k \in Keys |-> 0] /\ noted = [k \in Keys |-> 0]
    /\ asked = [j \in Jobs |-> <<>>]
    /\ stored = [j \in Jobs |-> [k \in Keys |-> 0]]
    /\ got = [j \in Jobs |-> [k \in Keys |-> 0]]

-----------------------------------------------------------------------------
(* ResourceRoadie.storeMessage and Queue.push, for clients and workers     *)

GoTo(t, label) == pc' = [pc EXCEPT ![t] = label]

Key(w) == KeyOf[work[w].job]

\* The key of the message thread t has in hand.
HeldKey(t) == IF t \in Clients THEN Posts[t].key ELSE Head(work[t].todo).key

\* Mutant: the behavior of an existing message is kept.
FirstBehaviorOnly(m, incoming, types, s) ==
    [there    |-> TRUE,
     values   |-> mergeValues(m.values, incoming),
     behavior |-> IF m.there THEN m.behavior ELSE types,
     stems    |-> IF "Persist" \in types THEN s ELSE m.stems]

\* The message as read, or a new one, with the values that come and the new
\* behavior if there is one.
Merged(m, incoming, types, s) ==
    [there    |-> TRUE,
     values   |-> mergeValues(m.values, incoming),
     behavior |-> m.behavior \cup types,
     stems    |-> IF "Persist" \in types THEN s ELSE m.stems]

\* Another thread may be in the middle of writing the message of k: FileResource
\* empties the file before it writes, and Resource.get makes null of no text.
BeingWritten(t, k) ==
    \E u \in Threads \ {t} :
        \/ pc[u] \in {"put", "putNew"} /\ HeldKey(u) = k
        \/ pc[u] = "effect" /\ Key(u) = k /\ kind[work[u].job] # "Delete"

\* What thread t may read of the message of k.
Reads(t, k) ==
    {message[k]} \cup (IF TornReads /\ BeingWritten(t, k) THEN {NoMessage} ELSE {})

StoreRead(t, k, incoming, types, s) ==
    /\ \E m \in Reads(t, k) :
          /\ ~mergeFails(m.values, incoming)
          /\ held' = [held EXCEPT ![t] = Merged(m, incoming, types, s)]
          /\ stale' = IF m = message[k] THEN stale \ {<<t, "held">>}
                      ELSE stale \cup {<<t, "held">>}
    /\ UNCHANGED <<message, overlapped, deleted, applied, noted, stored>>

\* The copies of k in hand, in storeMessage or for a job.
Storing(k) ==
    {t \in Threads : pc[t] \in {"put", "putNew"} /\ HeldKey(t) = k} \X {"held"}
Processing(k) ==
    {w \in Workers : pc[w] \notin {"idle", "access"} /\ Key(w) = k} \X {"own"}

\* Jobs of one key exclude one another unless it was removed before its time.
Overlapping(k) == IF k \in robbed THEN Processing(k) ELSE {}

Overwrites(copy, k) ==
    overlapped' = IF copy \in stale THEN overlapped \cup {k} ELSE overlapped

StorePut(t, k, note) ==
    /\ message' = [message EXCEPT ![k] = held[t]]
    /\ Overwrites(<<t, "held">>, k)
    /\ stale' = (stale \cup Storing(k) \cup Processing(k)) \ {<<t, "held">>}
    /\ noted' = [noted EXCEPT ![k] = IF note THEN @ + 1 ELSE @]
    /\ UNCHANGED <<held, deleted, applied>>

\* Job UUIDs are fresh; the instance has enough of them for every key.
StorePush(j, k, type) ==
    /\ KeyOf[j] = k
    /\ j = CHOOSE i \in Jobs : KeyOf[i] = k /\ status[i] = "absent"
    /\ Submit(j)
    /\ kind' = [kind EXCEPT ![j] = type]
    /\ UNCHANGED <<locked, robbed, recovered>>

-----------------------------------------------------------------------------
(* Bd.addMessage                                                           *)

ClientRead(c) ==
    /\ pc[c] = "new"
    /\ StoreRead(c, Posts[c].key, Posts[c].values, {Posts[c].type}, TRUE)
    /\ GoTo(c, "put")
    /\ UNCHANGED <<svars, kind, own, work, faults, asked, got>>

ClientPut(c) ==
    /\ pc[c] = "put"
    /\ StorePut(c, Posts[c].key, FALSE)
    /\ GoTo(c, "push")
    /\ UNCHANGED <<svars, kind, own, work, faults, asked, stored, got>>

ClientPush(c) ==
    /\ pc[c] = "push"
    /\ \E j \in Jobs : StorePush(j, Posts[c].key, Posts[c].type)
    /\ GoTo(c, "done")
    /\ UNCHANGED <<message, held, own, work, faults, history>>

-----------------------------------------------------------------------------
(* Processor.pullJob                                                       *)

Return(w) ==
    /\ GoTo(w, "idle")
    /\ work' = [work EXCEPT ![w] = NoWork]
    /\ own' = [own EXCEPT ![w] = NoMessage]
    /\ held' = [held EXCEPT ![w] = NoMessage]
    /\ stale' = stale \ {<<w, "held">>, <<w, "own">>}

\* Mutant: the answer of Cache.put is ignored.
NeverLocked(k) == FALSE

Locked(k) == k \in locked

\* Cache.remove does not ask whose the key is.
Unlock(k) == locked' = locked \ {k}

Pop(w, j) ==
    /\ pc[w] = "idle"
    /\ ~Locked(KeyOf[j])
    /\ locked' = locked \cup {KeyOf[j]}
    /\ StartWork(j)
    /\ work' = [work EXCEPT ![w].job = j]
    /\ GoTo(w, "access")
    /\ UNCHANGED <<robbed, recovered, message, kind, held, own, faults, history>>

\* pullJob returns when there is no message, or one without behavior; the job
\* is left in work and its key in the Cache.
Access(w) ==
    /\ pc[w] = "access"
    /\ \E m \in Reads(w, Key(w)) :
          \/ /\ m.there /\ m.behavior # {}
             /\ own' = [own EXCEPT ![w] = m]
             /\ GoTo(w, "run")
             /\ UNCHANGED <<work, held, stale>>
          \/ /\ ~(m.there /\ m.behavior # {})
             /\ Return(w)
    /\ UNCHANGED <<svars, message, kind, faults, overlapped, deleted,
                   applied, noted, asked, stored, got>>

\* What the behavior of w's job asks for.
Asked(w) ==
    IF kind[work[w].job] = "Persist" /\ own[w].stems
    THEN NewMessages[Key(w)] ELSE <<>>

\* Mutant: values that make no script are left out of it.
canRunAnyway(w, type) == type \in own[w].behavior

\* There is such a behavior, and the values make a script for it.
canRun(w, type) == type \in own[w].behavior /\ renders(own[w].values)

\* What a behavior leaves in meta.
Left(w, counts, result) ==
    LET meta == [n \in {"result"} \cup (IF counts THEN {"count"} ELSE {}) |->
                    IF n = "count" THEN Number(Count(own[w]) + 1) ELSE result]
    IN  own' = [own EXCEPT ![w].values = putAll(@, meta)]

\* The behavior returns results.
Run(w) ==
    LET j == work[w].job
        counts == kind[j] = "Persist"
    IN  /\ pc[w] = "run"
        /\ canRun(w, kind[j])
        /\ \E result \in Results[Key(w)] : Left(w, counts, result)
        /\ work' = [work EXCEPT ![w].todo = Asked(w), ![w].fresh = counts]
        /\ asked' = [asked EXCEPT ![j] = Asked(w)]
        /\ GoTo(w, "effect")
        /\ UNCHANGED <<svars, message, kind, held, faults, stale, overlapped,
                       deleted, applied, noted, stored, got>>

\* The behavior sets continueProcessing to false; what it left stays in hand.
RunDeclines(w) ==
    LET j == work[w].job
        counts == kind[j] = "Persist"
    IN  /\ pc[w] = "run"
        /\ canRun(w, kind[j])
        /\ \E result \in Results[Key(w)] : Left(w, counts, result)
        /\ work' = [work EXCEPT ![w].fresh = counts]
        /\ asked' = [asked EXCEPT ![j] = <<>>]
        /\ GoTo(w, "finish")
        /\ UNCHANGED <<svars, message, kind, held, faults, stale,
                       overlapped, deleted, applied, noted, stored, got>>

(* handleProcessingResult                                                  *)

\* After its effect, or a new message, the next new message or the end.
Next1(w) ==
    GoTo(w, IF work'[w].todo = <<>> THEN work[w].then ELSE "store")

UpdateMessage(w) ==
    /\ message' = [message EXCEPT ![Key(w)] = own[w]]
    /\ applied' = [applied EXCEPT ![Key(w)] = IF work[w].fresh THEN @ + 1 ELSE @]
    /\ Overwrites(<<w, "own">>, Key(w))
    /\ UNCHANGED <<deleted, noted>>

DeleteMessage(w) ==
    /\ message' = [message EXCEPT ![Key(w)] = NoMessage]
    /\ applied' = [applied EXCEPT ![Key(w)] = 0]
    /\ noted' = [noted EXCEPT ![Key(w)] = 0]
    /\ deleted' = deleted \cup {Key(w)}
    /\ UNCHANGED overlapped

Effect(w) ==
    /\ pc[w] = "effect"
    /\ IF kind[work[w].job] = "Delete" THEN DeleteMessage(w) ELSE UpdateMessage(w)
    /\ stale' = (stale \cup Storing(Key(w)) \cup Overlapping(Key(w))) \ {<<w, "own">>}
    /\ work' = [work EXCEPT ![w].fresh = FALSE]
    /\ Next1(w)
    /\ UNCHANGED <<svars, kind, held, own, faults, asked, stored, got>>

NewRead(w) ==
    LET n == Head(work[w].todo)
    IN  /\ pc[w] = "store"
        /\ StoreRead(w, n.key, n.values, IF n.persist THEN {"Persist"} ELSE {}, FALSE)
        /\ GoTo(w, "putNew")
        /\ UNCHANGED <<svars, kind, own, work, faults, asked, got>>

PutNew(w) ==
    /\ StorePut(w, HeldKey(w), "notes" \in DOMAIN Head(work[w].todo).values)
    /\ stored' = [stored EXCEPT ![work[w].job][HeldKey(w)] = @ + 1]

\* Mutant: the job of a new message is not pushed.
NewPutOnly(w) ==
    /\ pc[w] = "putNew"
    /\ PutNew(w)
    /\ work' = [work EXCEPT ![w].todo = Tail(@)]
    /\ Next1(w)
    /\ UNCHANGED <<svars, kind, own, faults, asked, got>>

\* Mutant: a new message without behavior stays among those to do.
NewPutAgain(w) ==
    /\ pc[w] = "putNew"
    /\ PutNew(w)
    /\ GoTo(w, IF Head(work[w].todo).persist THEN "pushNew" ELSE "store")
    /\ UNCHANGED <<svars, kind, own, work, faults, asked, got>>

\* A new message without behavior is stored and no job is pushed for it.
NewPut(w) ==
    /\ pc[w] = "putNew"
    /\ PutNew(w)
    /\ \/ /\ Head(work[w].todo).persist
          /\ GoTo(w, "pushNew")
          /\ UNCHANGED work
       \/ /\ ~Head(work[w].todo).persist
          /\ work' = [work EXCEPT ![w].todo = Tail(@)]
          /\ Next1(w)
    /\ UNCHANGED <<svars, kind, own, faults, asked, got>>

NewPush(w) ==
    LET k == HeldKey(w)
    IN  /\ pc[w] = "pushNew"
        /\ \E j \in Jobs : StorePush(j, k, "Persist")
        /\ got' = [got EXCEPT ![work[w].job][k] = @ + 1]
        /\ work' = [work EXCEPT ![w].todo = Tail(@)]
        /\ Next1(w)
        /\ UNCHANGED <<message, held, own, faults, stale, overlapped, deleted,
                       applied, noted, asked, stored>>

(* The end of pullJob                                                      *)

Complete(w) ==
    /\ pc[w] = "finish"
    /\ Finish(work[w].job)
    /\ Unlock(Key(w))
    /\ Return(w)
    /\ UNCHANGED <<robbed, recovered, message, kind, faults, overlapped, deleted,
                   applied, noted, asked, stored, got>>

\* Making the script, the behavior or a call throws: into the catch block from
\* the try block, out of pullJob from the catch block.
Throws(w) ==
    /\ pc[w] \in {"run", "effect", "store", "putNew", "pushNew", "finish"}
    /\ \/ /\ work[w].then = "finish"
          /\ GoTo(w, "catch")
          /\ work' = [work EXCEPT ![w].todo = <<>>]
          /\ UNCHANGED <<held, own, stale>>
       \/ /\ work[w].then # "finish"
          /\ Return(w)
    /\ UNCHANGED <<svars, message, kind, faults, overlapped, deleted, applied,
                   noted, asked, stored, got>>

HasHandler(w) == tries[work[w].job] < MaxTries /\ "Error" \in own[w].behavior

\* The Error behavior is applied to the message the failed attempt left in
\* hand, whose values have to make a script; its results are handled like those
\* of the job's own behavior.
Catch(w) ==
    /\ pc[w] = "catch"
    /\ \/ /\ HasHandler(w) /\ canRun(w, "Error")
          /\ \E result \in Results[Key(w)] : Left(w, FALSE, result)
          /\ work' = [work EXCEPT ![w].then = IF @ = "over" THEN @ ELSE "fail"]
          /\ GoTo(w, "effect")
          /\ UNCHANGED <<held, stale>>
       \/ \* there is none, or it returns nothing
          /\ HasHandler(w) => canRun(w, "Error")
          /\ GoTo(w, IF work[w].then = "over" THEN "over" ELSE "fail")
          /\ UNCHANGED <<work, held, own, stale>>
       \/ /\ HasHandler(w)
          /\ Return(w)
    /\ UNCHANGED <<svars, message, kind, faults, overlapped, deleted, applied,
                   noted, asked, stored, got>>

GiveBack(w) ==
    /\ \/ /\ pc[w] = "fail"
          /\ Fail(work[w].job)
       \/ \* the job is Complete: toQueued and toError throw
          /\ pc[w] = "over"
          /\ UNCHANGED <<status, tries>>
    /\ Unlock(Key(w))
    /\ Return(w)
    /\ UNCHANGED <<robbed, recovered, message, kind, faults, overlapped, deleted,
                   applied, noted, asked, stored, got>>

-----------------------------------------------------------------------------
(* The environment                                                         *)

Fault ==
    /\ faults < MaxFaults
    /\ faults' = faults + 1

\* The thread dies, or queue.error throws out of pullJob.  In queue.complete and
\* queue.error the key may be removed by then.
Crash(w) ==
    /\ pc[w] # "idle"
    /\ Fault
    /\ \/ UNCHANGED locked
       \/ /\ pc[w] \in {"finish", "fail", "over"}
          /\ Unlock(Key(w))
    /\ Return(w)
    /\ UNCHANGED <<status, tries, robbed, recovered, message, kind, overlapped,
                   deleted, applied, noted, asked, stored, got>>

\* queue.complete throws after it removed the key: in its put, or in its delete,
\* when the job is stored as Complete.
CompleteThrows(w) ==
    /\ pc[w] = "finish"
    /\ Fault
    /\ Finish(work[w].job) \/ UNCHANGED <<status, tries>>
    /\ Unlock(Key(w))
    /\ robbed' = robbed \cup {Key(w)}
    /\ work' = [work EXCEPT ![w].then = "over"]
    /\ GoTo(w, "catch")
    /\ UNCHANGED <<recovered, message, kind, held, own, history>>

\* The Future of a post dies, or its call throws, after the post was answered.
ClientCrash(c) ==
    /\ pc[c] # "done"
    /\ Fault
    /\ GoTo(c, "done")
    /\ UNCHANGED <<svars, message, kind, held, own, work, history>>

\* Mutant: a job that was left in work is not taken up again.
LeftAlone(j) == FALSE /\ UNCHANGED vars

Abandoned(j) == \A w \in Workers : work[w].job # j

InWork(k) == \E w \in Workers : pc[w] # "idle" /\ Key(w) = k

\* The key is removed from the Cache by who does not hold it.
UnlockLate(k) ==
    /\ Unlock(k)
    /\ robbed' = IF InWork(k) THEN robbed \cup {k} ELSE robbed

\* A job that was left in work is completed by the next thread that reads it,
\* whatever its last run had asked for, and its key is removed from the Cache,
\* whoever holds it by then.  The read comes no sooner than five seconds after the
\* job was taken, as with SQS, whose messages are invisible for 30; InMemoryQueue
\* may be read sooner, and a job whose key was removed already is then run again
\* (Queue.java:121), which is a matter of JobQueue.
Recover(j) ==
    /\ Abandoned(j)
    /\ Finish(j)
    /\ UnlockLate(KeyOf[j])
    /\ recovered' = recovered \cup {j}
    /\ UNCHANGED <<message, kind, pc, held, own, work, faults, history>>

\* A complete job is read again, because the delete of its message threw or SQS
\* delivers the message twice: complete removes the key, then toComplete throws.
ReadAgain(j) ==
    /\ status[j] = "complete"
    /\ Fault
    /\ UnlockLate(KeyOf[j])
    /\ UNCHANGED <<status, tries, recovered, message, kind, pc, held, own, work,
                   history>>

\* The key of a job that was left in work expires; a worker is done before its
\* key does.
Expire(k) ==
    /\ KeysExpire
    /\ Locked(k) /\ ~InWork(k)
    /\ Unlock(k)
    /\ UNCHANGED <<status, tries, robbed, recovered, message, kind, pc, held, own,
                   work, faults, history>>

-----------------------------------------------------------------------------
ClientStep(c) == ClientRead(c) \/ ClientPut(c) \/ ClientPush(c)

WorkerStep(w) ==
    \/ Access(w) \/ Run(w) \/ RunDeclines(w) \/ Effect(w)
    \/ NewRead(w) \/ NewPut(w) \/ NewPush(w)
    \/ Complete(w) \/ Throws(w) \/ Catch(w) \/ GiveBack(w)

Next ==
    \/ \E c \in Clients : ClientStep(c) \/ ClientCrash(c)
    \/ \E w \in Workers, j \in Jobs : Pop(w, j)
    \/ \E w \in Workers : WorkerStep(w) \/ Crash(w) \/ CompleteThrows(w)
    \/ \E j \in Jobs : Recover(j) \/ ReadAgain(j)
    \/ \E k \in Keys : Expire(k)

Spec == Init /\ [][Next]_vars

\* Threads go on, polls keep arriving, messages are delivered again.
Fairness ==
    /\ \A c \in Clients : WF_vars(ClientStep(c))
    /\ \A w \in Workers : WF_vars(WorkerStep(w))
    /\ \A j \in Jobs : WF_vars(\E w \in Workers : Pop(w, j))
    /\ \A j \in Jobs : WF_vars(Recover(j))

FairSpec == Spec /\ Fairness

-----------------------------------------------------------------------------
(* Properties                                                              *)

\* Every count and every note that was put is still there, unless a storeMessage
\* overlapped another thread's read and put of the same message, or two jobs
\* overlapped after the key of one was removed before its time (robbed), by a
\* complete that threw, the completion of a job that was left in work, or a
\* complete job that was read again: otherwise jobs do not overwrite one
\* another's results, and what is stored adds to a list (Queue.java:131 and 138,
\* Message.java:172).
LostOnlyByOverlap ==
    \A k \in Keys \ overlapped :
        Count(message[k]) = applied[k] /\ Notes(message[k]) = noted[k]

\* A worker that accesses the message of its job finds the behavior the job is
\* to run, unless the message was deleted or a put overlapped.
JobFindsBehavior ==
    \A w \in Workers :
        pc[w] = "access" /\ Key(w) \notin overlapped \cup deleted =>
            kind[work[w].job] \in message[Key(w)].behavior

\* A job that its worker completed has stored every new message its last run
\* asked for, and submitted the jobs of them, however many attempts that took.
\* A job that was left in work may be completed without (Queue.java:125).
CompleteHasEffects ==
    \A j \in Jobs : status[j] = "complete" /\ j \notin recovered =>
        \A i \in DOMAIN asked[j] :
            /\ stored[j][asked[j][i].key] >= 1
            /\ asked[j][i].persist => got[j][asked[j][i].key] >= 1

\* How many of the new messages in s have key k.
HowMany(s, k) == Cardinality({n \in DOMAIN s : s[n].key = k})

\* A retry repeats what the failed attempt had done already, the notes it stored
\* included: a job stores what its behavior asks for, and submits the jobs of it,
\* no more often than it is tried, for each new message of a key.
RepeatsAreTries ==
    \A j \in Jobs, k \in Keys :
        /\ got[j][k] <= stored[j][k]
        /\ stored[j][k] <= tries[j] * HowMany(NewMessages[KeyOf[j]], k)

\* A job changes or deletes only a message whose values make a script, and so
\* one that has other values stays as it is until somebody stores over them,
\* unless a put overlapped (JavaScriptProcessorTemplate.java:59).
JobsChangeScripts ==
    [][\A w \in Workers :
          /\ pc[w] = "effect" /\ pc'[w] # "effect"
          /\ message'[Key(w)] # message[Key(w)]
          /\ <<w, "own">> \notin stale
          => renders(message[Key(w)].values)]_vars

\* Unless a job is left in work, or a key was removed while a worker had a job of
\* it, the queue takes the steps of JobService, which JobQueue implements
\* (Queue.pop, complete, error): jobs of one key exclude one another.
StepsOfService ==
    [][robbed = {} /\ (\A j \in Jobs : status[j] = "processing" => ~Abandoned(j))
       => [ServiceNext]_<<status, tries>>]_vars

\* Every job comes to an end, those submitted by jobs included, and those of a
\* message whose values make no script.
JobsEnd ==
    \A j \in Jobs : status[j] = "queued" ~> status[j] \in {"complete", "error"}
=============================================================================
