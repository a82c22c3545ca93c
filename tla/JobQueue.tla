------------------------------ MODULE JobQueue ------------------------------
(***************************************************************************)
(* The job queue of bd-core: Queue.java (push, pop, complete, error),      *)
(* Job.java (the job state machine) and Processor.pullJob (the worker).    *)
(*                                                                         *)
(* Three services are shared by all threads and all servers: the Resource  *)
(* that stores job records, the transport that carries job identifiers     *)
(* (Queue.write/read/delete) and the Cache that locks message keys.  A     *)
(* thread takes one step per call it makes to one of them, with the        *)
(* computation up to its next call; between two calls anything may happen. *)
(*                                                                         *)
(* Time is counted in ticks.  Four periods matter to the code: how long a  *)
(* record counts as recently modified (FreshFor, 5 s in readyToProcess),   *)
(* how long a message that was read stays invisible (HiddenFor, 30 s in    *)
(* SqsQueue, 0 in InMemoryQueue), how long a key stays locked (LockFor,    *)
(* 30 s in ElastiCache, for ever in InMemoryCache) and how long one call   *)
(* of pullJob may take (WorkLimit, which the code does not bound).         *)
(***************************************************************************)
EXTENDS Integers, FiniteSets

CONSTANTS
    Jobs,        \* job UUIDs; each is pushed at most once (Queue.java:43)
    Keys,        \* message keys
    KeyOf,       \* KeyOf[j]: the key of the message job j works on
    Workers,     \* threads running Processor.pullJob, on any server
    NoJob,       \* the job of a worker that has none
    MaxTries,    \* Processor.maximumTries (5)
    FreshFor, HiddenFor, LockFor, WorkLimit,   \* the periods, in ticks
    InMemory,    \* InMemoryQueue and InMemoryCache, or SqsQueue and ElastiCache
    Hazards,     \* what may go wrong in this instance
    MaxFaults    \* bound on the number of budgeted faults in a behaviour

HazardKinds == {"crash", "throw", "refuse", "handler", "redeliver",
                "slowPush", "earlyRead", "staleRead", "leak"}

ASSUME ConstantsAssumption ==
    /\ KeyOf \in [Jobs -> Keys]
    /\ NoJob \notin Jobs
    /\ MaxTries \in Nat \ {0}
    /\ FreshFor \in Nat \ {0}
    /\ LockFor \in Nat \ {0}
    /\ HiddenFor \in Nat
    /\ WorkLimit \in Nat
    /\ InMemory \in BOOLEAN
    /\ InMemory => HiddenFor = 0
    /\ Hazards \subseteq HazardKinds
    /\ MaxFaults \in Nat

VARIABLES
    push,     \* push[j]: how far the thread running Queue.push for j has come
    record,   \* record[j]: the job as stored in the Resource
    older,    \* older[j]: a replaced record of j that S3 may still answer
    queue,    \* the jobs whose identifier is in the transport
    hidden,   \* hidden[j]: ticks until the message of j can be read again
    lock,     \* lock[k]: ticks until key k leaves the cache; 0: not there
    pc,       \* pc[w]: the next call of worker w
    cur,      \* cur[w]: the Job instance in the hands of worker w
    spent,    \* spent[w]: ticks worker w has been working on it
    faults,   \* budgeted faults so far
    attempts, \* history: times job j was moved to Processing by a worker
    ran,      \* history: whether the behavior of j was applied successfully
    ended     \* history: whether j was ever stored as Complete or Error

vars == <<push, record, older, queue, hidden, lock, pc, cur, spent,
          faults, attempts, ran, ended>>

-----------------------------------------------------------------------------
JobState == {"Created", "Queued", "Processing", "Complete", "Error"}
Final == {"Complete", "Error"}

\* The stored job: its state, its tries and whether modifiedDate is less than
\* five seconds ago.  State "None": there is no such record.
Record == [state: JobState \cup {"None"}, tries: Nat, fresh: 0 .. FreshFor]

\* The Job instance of a worker.  inTry: pullJob is inside its try block.
Copy == [job: Jobs \cup {NoJob}, state: JobState, tries: Nat, inTry: BOOLEAN]
Blank == [job |-> NoJob, state |-> "Created", tries |-> 0, inTry |-> FALSE]

PushPC == {"new", "created", "written", "done"}
PC == {"idle", "get", "lock", "start", "access", "process",
       "release", "completePut", "delete", "error", "errorPut"}

TypeOK ==
    /\ push \in [Jobs -> PushPC]
    /\ record \in [Jobs -> Record]
    /\ older \in [Jobs -> Record]
    /\ queue \subseteq Jobs
    /\ hidden \in [Jobs -> 0 .. HiddenFor]
    /\ lock \in [Keys -> 0 .. LockFor]
    /\ pc \in [Workers -> PC]
    /\ cur \in [Workers -> Copy]
    /\ \A w \in Workers : pc[w] # "idle" => cur[w].job \in Jobs
    /\ spent \in [Workers -> 0 .. WorkLimit]
    /\ faults \in 0 .. MaxFaults
    /\ attempts \in [Jobs -> Nat]
    /\ ran \in [Jobs -> BOOLEAN]
    /\ ended \in [Jobs -> BOOLEAN]

Init ==
    /\ push = [j \in Jobs |-> "new"]
    /\ record = [j \in Jobs |-> [state |-> "None", tries |-> 0, fresh |-> 0]]
    /\ older = record
    /\ queue = {}
    /\ hidden = [j \in Jobs |-> 0]
    /\ lock = [k \in Keys |-> 0]
    /\ pc = [w \in Workers |-> "idle"]
    /\ cur = [w \in Workers |-> Blank]
    /\ spent = [w \in Workers |-> 0]
    /\ faults = 0
    /\ attempts = [j \in Jobs |-> 0]
    /\ ran = [j \in Jobs |-> FALSE]
    /\ ended = [j \in Jobs |-> FALSE]

-----------------------------------------------------------------------------
(* Helpers                                                                 *)

\* Resource.put: the record is replaced as a whole and its modifiedDate is now.
\* If reads may be stale, the one replaced may be the one they answer.
Put(j, st, t) ==
    /\ record' = [record EXCEPT ![j] = [state |-> st, tries |-> t,
                                        fresh |-> FreshFor]]
    /\ \/ older' = older
       \/ "staleRead" \in Hazards /\ older' = [older EXCEPT ![j] = record[j]]
    /\ ended' = [ended EXCEPT ![j] = @ \/ st \in Final]

PutCur(w) == Put(cur[w].job, cur[w].state, cur[w].tries)

\* The worker returns from pullJob, or goes round pop's loop: its next call is
\* Queue.read in both cases.
GoIdle(w) ==
    /\ pc' = [pc EXCEPT ![w] = "idle"]
    /\ cur' = [cur EXCEPT ![w] = Blank]
    /\ spent' = [spent EXCEPT ![w] = 0]

GoTo(w, label) == pc' = [pc EXCEPT ![w] = label]

\* Control enters the catch block of pullJob.
GoCatch(w) ==
    /\ GoTo(w, "error")
    /\ cur' = [cur EXCEPT ![w].inTry = FALSE]

Fault(kind) ==
    /\ kind \in Hazards
    /\ faults < MaxFaults
    /\ faults' = faults + 1

\* Cache.remove, whose effect neither cache makes sure of: ElastiCache does not
\* wait for its answer, InMemoryCache removes while put may resize the map.
Unlock(w) ==
    \/ lock' = [lock EXCEPT ![KeyOf[cur[w].job]] = 0] /\ UNCHANGED faults
    \/ Fault("leak") /\ UNCHANGED lock

(* The test by which pullJob's catch block retries a job or gives it up.    *)

\* Mutant: one try too many.
RetryingOnceMore(w) == cur[w].tries <= MaxTries

\* Mutant: gives up one try too early.
RetryingOnceLess(w) == cur[w].tries + 1 < MaxTries

Retrying(w) == cur[w].tries < MaxTries

(* The transitions Job.checkAndSetState lets through; others throw.         *)
MayQueue(st) == st \in {"Created", "Processing"}
MayProcess(st) == st = "Queued"
MayComplete(st) == st = "Processing"
MayError(st) == st = "Processing"

-----------------------------------------------------------------------------
(* Queue.push                                                              *)

PushPutCreated(j) ==
    /\ push[j] = "new"
    /\ push' = [push EXCEPT ![j] = "created"]
    /\ Put(j, "Created", 0)
    /\ UNCHANGED <<queue, hidden, lock, pc, cur, spent, faults, attempts, ran>>

\* Mutant: the transport write is not preceded by the put of the record.
WriteFirst(j) ==
    /\ push[j] \in {"new", "created"}
    /\ push' = [push EXCEPT ![j] = "written"]
    /\ queue' = queue \cup {j}
    /\ UNCHANGED <<record, older, hidden, lock, pc, cur, spent, faults,
                   attempts, ran, ended>>

PushWrite(j) ==
    /\ push[j] = "created"
    /\ push' = [push EXCEPT ![j] = "written"]
    /\ queue' = queue \cup {j}
    /\ UNCHANGED <<record, older, hidden, lock, pc, cur, spent, faults,
                   attempts, ran, ended>>

\* The pusher's own instance is stored, whatever the record says by now.
PushPutQueued(j) ==
    /\ push[j] = "written"
    /\ push' = [push EXCEPT ![j] = "done"]
    /\ Put(j, "Queued", 0)
    /\ UNCHANGED <<queue, hidden, lock, pc, cur, spent, faults, attempts, ran>>

\* The thread dies, or the call it is about to make throws.
PushCrash(j) ==
    /\ push[j] \in {"created", "written"}
    /\ Fault("crash")
    /\ push' = [push EXCEPT ![j] = "done"]
    /\ UNCHANGED <<record, older, queue, hidden, lock, pc, cur, spent,
                   attempts, ran, ended>>

-----------------------------------------------------------------------------
(* Queue.pop                                                               *)

\* Mutant: the visibility of a message that was read is not changed.
KeepVisible(j) == hidden' = hidden

\* A message that was read stays in the transport, invisible for a while.
Hide(j) == hidden' = [hidden EXCEPT ![j] = HiddenFor]

\* Transport read: any visible message.  An empty read changes nothing.
Read(w, j) ==
    /\ pc[w] = "idle"
    /\ j \in queue
    /\ hidden[j] = 0
    /\ push[j] = "done" \/ "earlyRead" \in Hazards
    /\ Hide(j)
    /\ cur' = [cur EXCEPT ![w].job = j]
    /\ GoTo(w, "get")
    /\ UNCHANGED <<push, record, older, queue, lock, spent, faults,
                   attempts, ran, ended>>

\* readyToProcess, whose switch falls through: a Processing or Created job is
\* taken as Queued when it was modified recently ...
readyToProcess(r) ==
    \/ r.state = "Queued"
    \/ r.fresh > 0 /\ MayQueue(r.state)

\* Mutant: nobody notices that getJob found no record.
fallsThroughNull(r) == r.state # "Error" /\ ~readyToProcess(r)

\* ... and handed to complete when it was not, like a Complete one.
fallsThrough(r) == r.state \notin {"Error", "None"} /\ ~readyToProcess(r)

\* The test of pop's loop on the job r that getJob answered.  A job in Error is
\* skipped; on no job at all pop throws.
Got(w, r) ==
    \/ /\ readyToProcess(r)
       /\ cur' = [cur EXCEPT ![w].state = "Queued", ![w].tries = r.tries]
       /\ GoTo(w, "lock")
       /\ UNCHANGED spent
    \/ /\ fallsThrough(r)
       /\ cur' = [cur EXCEPT ![w].state = r.state, ![w].tries = r.tries]
       /\ GoTo(w, "release")
       /\ UNCHANGED spent
    \/ /\ r.state \in {"Error", "None"}
       /\ GoIdle(w)

GetJob(w) ==
    /\ pc[w] = "get"
    /\ Got(w, record[cur[w].job])
    /\ UNCHANGED <<push, record, older, queue, hidden, lock, faults,
                   attempts, ran, ended>>

\* Mutant: the answer of Cache.put is ignored.
neverProcessingKey(k) == FALSE

\* Cache.put answers whether the key was absent.
alreadyProcessingKey(k) == lock[k] # 0

LockKey(w) ==
    LET k == KeyOf[cur[w].job]
    IN  /\ pc[w] = "lock"
        /\ \/ /\ ~alreadyProcessingKey(k)
              /\ lock' = [lock EXCEPT ![k] = LockFor]
              /\ GoTo(w, "start")
              /\ UNCHANGED <<cur, spent>>
           \/ /\ alreadyProcessingKey(k)
              /\ GoIdle(w)
              /\ UNCHANGED lock
        /\ UNCHANGED <<push, record, older, queue, hidden, faults, attempts, ran, ended>>

\* toProcessing, which counts the try, and the put that ends pop.
Start(w) ==
    LET j == cur[w].job
        t == cur[w].tries + 1
    IN  /\ pc[w] = "start"
        /\ MayProcess(cur[w].state)
        /\ cur' = [cur EXCEPT ![w].state = "Processing", ![w].tries = t]
        /\ Put(j, "Processing", t)
        /\ attempts' = [attempts EXCEPT ![j] = @ + 1]
        /\ GoTo(w, "access")
        /\ UNCHANGED <<push, queue, hidden, lock, spent, faults, ran>>

-----------------------------------------------------------------------------
(* Processor.pullJob                                                       *)

AccessMessage(w) ==
    /\ pc[w] = "access"
    /\ cur' = [cur EXCEPT ![w].inTry = TRUE]
    /\ GoTo(w, "process")
    /\ UNCHANGED <<push, record, older, queue, hidden, lock, spent, faults,
                   attempts, ran, ended>>

\* accessMessage finds no message, or one without behavior, and pullJob
\* returns; or access is denied and it throws before the try block.
AccessRefused(w) ==
    /\ pc[w] = "access"
    /\ Fault("refuse")
    /\ GoIdle(w)
    /\ UNCHANGED <<push, record, older, queue, hidden, lock, attempts, ran, ended>>

ProcessSucceeds(w) ==
    /\ pc[w] = "process"
    /\ ran' = [ran EXCEPT ![cur[w].job] = TRUE]
    /\ GoTo(w, "release")
    /\ UNCHANGED <<push, record, older, queue, hidden, lock, cur, spent, faults,
                   attempts, ended>>

\* Mutant: the exception is swallowed.
ProcessSwallows(w) ==
    /\ pc[w] = "process"
    /\ GoTo(w, "release")
    /\ UNCHANGED <<push, record, older, queue, hidden, lock, cur, spent, faults,
                   attempts, ran, ended>>

\* process or handleProcessingResult throws.
ProcessFails(w) ==
    /\ pc[w] = "process"
    /\ GoCatch(w)
    /\ UNCHANGED <<push, record, older, queue, hidden, lock, spent, faults,
                   attempts, ran, ended>>

\* The Error behavior run by the catch block throws in turn.
ErrorBehaviorFails(w) ==
    /\ pc[w] = "error"
    /\ Retrying(w)
    /\ Fault("handler")
    /\ GoIdle(w)
    /\ UNCHANGED <<push, record, older, queue, hidden, lock, attempts, ran, ended>>

-----------------------------------------------------------------------------
(* Queue.complete, called by pullJob in its try block and by readyToProcess *)

\* The key leaves the cache first; then toComplete throws unless the job is
\* Processing, which it always is in the try block.
CompleteRelease(w) ==
    /\ pc[w] = "release"
    /\ Unlock(w)
    /\ \/ /\ MayComplete(cur[w].state)
          /\ cur' = [cur EXCEPT ![w].state = "Complete"]
          /\ GoTo(w, "completePut")
          /\ UNCHANGED spent
       \/ /\ ~MayComplete(cur[w].state)
          /\ GoIdle(w)
    /\ UNCHANGED <<push, record, older, queue, hidden, attempts, ran, ended>>

CompletePut(w) ==
    /\ pc[w] = "completePut"
    /\ PutCur(w)
    /\ GoTo(w, "delete")
    /\ UNCHANGED <<push, queue, hidden, lock, cur, spent, faults, attempts, ran>>

\* Transport delete, for complete and for error.  SQS accepts the deletion of
\* a message that is gone; InMemoryQueue throws, in pullJob's try block or out.
Delete(w) ==
    LET j == cur[w].job
    IN  /\ pc[w] = "delete"
        /\ queue' = queue \ {j}
        /\ hidden' = [hidden EXCEPT ![j] = 0]
        /\ IF InMemory /\ j \notin queue /\ cur[w].inTry
           THEN GoCatch(w) /\ UNCHANGED spent
           ELSE GoIdle(w)
        /\ UNCHANGED <<push, record, older, lock, faults, attempts, ran, ended>>

-----------------------------------------------------------------------------
(* Queue.error, called by pullJob's catch block                            *)

\* Mutant: only complete releases the key, error does not.
ErrorKeepsKey(w) ==
    LET st == cur[w].state
        legal == IF Retrying(w) THEN MayQueue(st) ELSE MayError(st)
    IN  /\ pc[w] = "error"
        /\ UNCHANGED <<lock, faults>>
        /\ \/ /\ legal
              /\ cur' = [cur EXCEPT ![w].state =
                            IF Retrying(w) THEN "Queued" ELSE "Error"]
              /\ GoTo(w, "errorPut")
              /\ UNCHANGED spent
           \/ /\ ~legal
              /\ GoIdle(w)
        /\ UNCHANGED <<push, record, older, queue, hidden, attempts, ran, ended>>

\* The key leaves the cache first; then toQueued or toError throws unless the
\* job is Processing: it is Complete when the try block failed in complete.
ErrorRelease(w) ==
    LET st == cur[w].state
        legal == IF Retrying(w) THEN MayQueue(st) ELSE MayError(st)
    IN  /\ pc[w] = "error"
        /\ Unlock(w)
        /\ \/ /\ legal
              /\ cur' = [cur EXCEPT ![w].state =
                            IF Retrying(w) THEN "Queued" ELSE "Error"]
              /\ GoTo(w, "errorPut")
              /\ UNCHANGED spent
           \/ /\ ~legal
              /\ GoIdle(w)
        /\ UNCHANGED <<push, record, older, queue, hidden, attempts, ran, ended>>

\* Mutant: the flag remove is taken the wrong way round.
ErrorPutInverted(w) ==
    /\ pc[w] = "errorPut"
    /\ PutCur(w)
    /\ \/ /\ cur[w].state = "Error"
          /\ GoIdle(w)
       \/ /\ cur[w].state = "Queued"
          /\ GoTo(w, "delete")
          /\ UNCHANGED <<cur, spent>>
    /\ UNCHANGED <<push, queue, hidden, lock, faults, attempts, ran>>

\* A job to retry stays in the transport, a job in Error is deleted from it.
ErrorPut(w) ==
    /\ pc[w] = "errorPut"
    /\ PutCur(w)
    /\ \/ /\ cur[w].state = "Queued"
          /\ GoIdle(w)
       \/ /\ cur[w].state = "Error"
          /\ GoTo(w, "delete")
          /\ UNCHANGED <<cur, spent>>
    /\ UNCHANGED <<push, queue, hidden, lock, faults, attempts, ran>>

-----------------------------------------------------------------------------
(* The environment                                                         *)

\* The worker dies, or a call made outside the try block throws.
Crash(w) ==
    /\ pc[w] # "idle"
    /\ Fault("crash")
    /\ GoIdle(w)
    /\ UNCHANGED <<push, record, older, queue, hidden, lock, attempts, ran, ended>>

\* A call that complete makes inside pullJob's try block throws.
CallThrows(w) ==
    /\ cur[w].inTry
    /\ pc[w] \in {"release", "completePut", "delete"}
    /\ Fault("throw")
    /\ GoCatch(w)
    /\ UNCHANGED <<push, record, older, queue, hidden, lock, spent, attempts, ran, ended>>

\* SQS delivers at least once: a message may be visible again at any time.
Redeliver(j) ==
    /\ hidden[j] > 0
    /\ Fault("redeliver")
    /\ hidden' = [hidden EXCEPT ![j] = 0]
    /\ UNCHANGED <<push, record, older, queue, lock, pc, cur, spent, attempts, ran, ended>>

\* S3 answers getJob with a document that was replaced (CONCURRENCY.md:142).
StaleGet(w) ==
    /\ pc[w] = "get"
    /\ Fault("staleRead")
    /\ Got(w, older[cur[w].job])
    /\ UNCHANGED <<push, record, older, queue, hidden, lock, attempts, ran, ended>>

Down(n) == IF n > 0 THEN n - 1 ELSE 0

\* Time passes: no worker exceeds WorkLimit, and no pusher is overtaken by it
\* unless pushes may be slow.  InMemoryCache entries never expire.
Tick ==
    /\ \A w \in Workers : pc[w] # "idle" => spent[w] < WorkLimit
    /\ "slowPush" \in Hazards \/ \A j \in Jobs : push[j] \in {"new", "done"}
    /\ record' = [j \in Jobs |-> [record[j] EXCEPT !.fresh = Down(@)]]
    /\ older' = [j \in Jobs |-> [older[j] EXCEPT !.fresh = Down(@)]]
    /\ hidden' = [j \in Jobs |-> Down(hidden[j])]
    /\ lock' = IF InMemory THEN lock ELSE [k \in Keys |-> Down(lock[k])]
    /\ spent' = [w \in Workers |->
                    IF pc[w] = "idle" THEN spent[w] ELSE spent[w] + 1]
    /\ UNCHANGED <<push, queue, pc, cur, faults, attempts, ran, ended>>

-----------------------------------------------------------------------------
PushStep(j) ==
    PushPutCreated(j) \/ PushWrite(j) \/ PushPutQueued(j)

\* What worker w does once it has read a message.
WorkerStep(w) ==
    \/ GetJob(w) \/ LockKey(w) \/ Start(w)
    \/ AccessMessage(w) \/ ProcessSucceeds(w) \/ ProcessFails(w)
    \/ CompleteRelease(w) \/ CompletePut(w) \/ Delete(w)
    \/ ErrorRelease(w) \/ ErrorPut(w)

FaultStep ==
    \/ \E w \in Workers :
        \/ Crash(w) \/ CallThrows(w) \/ StaleGet(w)
        \/ AccessRefused(w) \/ ErrorBehaviorFails(w)
    \/ \E j \in Jobs : PushCrash(j) \/ Redeliver(j)

Next ==
    \/ \E j \in Jobs : PushStep(j)
    \/ \E w \in Workers, j \in Jobs : Read(w, j)
    \/ \E w \in Workers : WorkerStep(w)
    \/ FaultStep
    \/ Tick

Spec == Init /\ [][Next]_vars

(***************************************************************************)
(* Fairness: a thread that has started goes on, time passes, and polls     *)
(* keep arriving, so that a message that is visible again and again is     *)
(* read in the end (InMemoryQueue rotates, SQS samples).                   *)
(***************************************************************************)
Fairness ==
    /\ \A j \in Jobs : WF_vars(PushStep(j))
    /\ \A w \in Workers : WF_vars(WorkerStep(w))
    /\ \A j \in Jobs : SF_vars(\E w \in Workers : Read(w, j))
    /\ WF_vars(Tick)

FairSpec == Spec /\ Fairness

-----------------------------------------------------------------------------
(* Properties that hold whatever goes wrong                                *)

\* The message of a job leaves the transport only after the job was stored as
\* Complete or Error: complete and error put before they delete.
DeletedOnlyOnceEnded ==
    [][\A j \in Jobs : j \in queue /\ j \notin queue' => ended[j]]_vars

\* A message in the transport, or in the hands of a worker, has a record for
\* getJob to find: push puts before it writes, and nothing deletes a record.
MessageHasRecord ==
    /\ \A j \in queue : record[j].state # "None"
    /\ \A w \in Workers :
          pc[w] # "idle" => record[cur[w].job].state # "None"

\* A job is stored as Error only after MaxTries attempts, as Complete only
\* after an attempt, however stale the instances are that workers put back.
FinalIsEarned ==
    \A j \in Jobs :
        /\ record[j].state = "Error" => attempts[j] >= MaxTries
        /\ record[j].state = "Complete" => attempts[j] >= 1

-----------------------------------------------------------------------------
(* Properties of undisturbed runs, and what breaks them                    *)

Working(w) == pc[w] \in {"start", "access", "process", "error"}

\* No two workers work on messages with the same key at the same time: the
\* purpose of alreadyProcessingKey.
KeyMutex ==
    \A v, w \in Workers :
        v # w /\ Working(v) /\ Working(w) => KeyOf[cur[v].job] # KeyOf[cur[w].job]

\* A job is reported Complete only if its behavior was applied: in instances where
\* every worker gets to the end of its job, and in less time than it takes until
\* another one that reads the job completes it (Queue.java:118).
CompleteMeansRun ==
    \A j \in Jobs : record[j].state = "Complete" => ran[j]

\* The tries that pullJob compares with maximumTries are the attempts made,
\* and they stop at the maximum.
TriesAreAttempts ==
    \A j \in Jobs : record[j].tries = attempts[j] /\ attempts[j] <= MaxTries

\* A job is tried no more than MaxTries times (Processor.java:38).
RetryBound == \A j \in Jobs : attempts[j] <= MaxTries

\* Once the behavior of a job was applied it is never started again, and the
\* final state a client has seen is never taken back.
DoneIsDone ==
    [][\A j \in Jobs :
          /\ ran[j] => attempts'[j] = attempts[j]
          /\ record[j].state \in Final => record'[j].state = record[j].state]_vars

\* A job whose message was written reaches a final state.
JobsSettle ==
    \A j \in Jobs : push[j] = "written" ~> record[j].state \in Final

\* ... and stays there.
JobsStaySettled ==
    \A j \in Jobs : push[j] = "written" ~> [](record[j].state \in Final)

\* The same of a cache whose entries never expire: only a fault that left the
\* key locked, and nobody to take it out again, keeps a job from its end.
SettledUnlessKeyLost ==
    \A j \in Jobs :
        push[j] = "written" ~>
            \/ record[j].state \in Final
            \/ faults > 0 /\ [](lock[KeyOf[j]] # 0)
=============================================================================
