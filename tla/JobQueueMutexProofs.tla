------------------------ MODULE JobQueueMutexProofs ------------------------
(***************************************************************************)
(* What JobQueue guarantees with SqsQueue and ElastiCache as long as       *)
(* nothing goes wrong and one call of pullJob takes less time than a       *)
(* message stays invisible and a key stays locked: keys are exclusive, and *)
(* Complete means that the behavior was applied.                           *)
(***************************************************************************)
EXTENDS JobQueueProofs

Undisturbed ==
    /\ ~InMemory
    /\ Hazards \subseteq {"earlyRead", "leak"}
    /\ WorkLimit < HiddenFor
    /\ WorkLimit < LockFor

-----------------------------------------------------------------------------
(* The inductive invariant, on top of IInv                                 *)

Busy(w) == pc[w] # "idle"

\* The worker has locked the key of its job and not released it yet.
Holding == {"start", "access", "process", "release", "error"}

\* The worker has stored its job as Processing.
Late == {"access", "process", "release", "completePut", "delete",
         "error", "errorPut"}

\* The message of a job in hand stays in the transport, and invisible as long
\* as the worker can be busy with it.
HiddenInv ==
    \A w \in Workers : Busy(w) =>
        /\ cur[w].job \in queue
        /\ hidden[cur[w].job] + spent[w] >= HiddenFor

\* So a job is in one pair of hands.
OneHandInv ==
    \A v, w \in Workers :
        v # w /\ Busy(v) /\ Busy(w) => cur[v].job # cur[w].job

\* The key of a job in work stays locked as long as the work can take.
LockInv ==
    \A w \in Workers : pc[w] \in Holding =>
        lock[KeyOf[cur[w].job]] + spent[w] >= LockFor

\* So a key is in one pair of hands.
OneKeyInv ==
    \A v, w \in Workers :
        v # w /\ pc[v] \in Holding /\ pc[w] \in Holding =>
            KeyOf[cur[v].job] # KeyOf[cur[w].job]

\* Until its push has written the message a job is untouched; a job is Created
\* only while its push is under way, in which time no time passes.
PushInv ==
    \A j \in Jobs :
        /\ push[j] \in {"new", "created"} =>
              j \notin queue /\ record[j].state \in {"None", "Created"}
        /\ record[j].state = "Created" =>
              push[j] \in {"created", "written"} /\ record[j].fresh = FreshFor

\* A message that can be read again is not that of a job in work or done.
TakenInv ==
    \A j \in queue :
        record[j].state \in {"Processing", "Complete", "Error"} =>
            \E w \in Workers : pc[w] \in Late /\ cur[w].job = j

\* In work the instance is Processing, and it gets Complete only when the
\* behavior was applied.
WorkInv ==
    /\ \A w \in Workers :
        /\ pc[w] \in {"access", "process", "release", "error"} =>
              cur[w].state = "Processing"
        /\ pc[w] = "errorPut" => cur[w].state # "Complete"
        /\ pc[w] \in {"release", "completePut"} => ran[cur[w].job]
    /\ \A j \in Jobs : record[j].state = "Complete" => ran[j]

MInv ==
    /\ IInv
    /\ HiddenInv /\ OneHandInv /\ LockInv /\ OneKeyInv
    /\ PushInv /\ TakenInv /\ WorkInv

-----------------------------------------------------------------------------
(* Lemmas                                                                  *)

Same(v) == pc'[v] = pc[v] /\ cur'[v] = cur[v] /\ spent'[v] = spent[v]

\* The types the invariant is about, in both states.
LEMMA Types ==
    ASSUME IInv
    PROVE  /\ \A w \in Workers : spent[w] \in 0 .. WorkLimit /\ pc[w] \in PC
           /\ \A j \in Jobs : hidden[j] \in 0 .. HiddenFor
           /\ \A k \in Keys : lock[k] \in 0 .. LockFor
           /\ \A w \in Workers : Busy(w) =>
                 cur[w].job \in Jobs /\ KeyOf[cur[w].job] \in Keys
BY ConstantsAssumption DEF IInv, TypeOK, Busy

\* A message in hand is invisible, a key in hand is locked.
LEMMA InHand ==
    ASSUME MInv, Undisturbed, NEW w \in Workers
    PROVE  /\ Busy(w) => hidden[cur[w].job] > 0
           /\ pc[w] \in Holding => lock[KeyOf[cur[w].job]] > 0
<1>1. /\ spent[w] \in 0 .. WorkLimit
      /\ Busy(w) => /\ hidden[cur[w].job] \in 0 .. HiddenFor
                    /\ lock[KeyOf[cur[w].job]] \in 0 .. LockFor
    BY Types DEF MInv
<1>2. pc[w] \in Holding => Busy(w)
    BY DEF Holding, Busy
<1> QED BY <1>1, <1>2, ConstantsAssumption
        DEF MInv, HiddenInv, LockInv, Undisturbed

\* A worker that does not hold its job as stored Processing reads a record
\* that nobody is at work on.
LEMMA NotTaken ==
    ASSUME MInv, NEW w \in Workers, Busy(w), pc[w] \notin Late
    PROVE  record[cur[w].job].state \in {"Created", "Queued"}
<1>1. cur[w].job \in queue /\ cur[w].job \in Jobs
    BY Types DEF MInv, HiddenInv
<1>2. ~\E v \in Workers : pc[v] \in Late /\ cur[v].job = cur[w].job
    BY DEF MInv, OneHandInv, Busy, Late
<1>3. record[cur[w].job].state \notin {"Processing", "Complete", "Error"}
    BY <1>1, <1>2 DEF MInv, TakenInv
<1>4. record[cur[w].job] \in Record /\ record[cur[w].job].state # "None"
    BY <1>1, BusyIsGood DEF MInv, Busy, Good
<1> QED BY <1>3, <1>4 DEF Record, JobState

\* A worker goes on without a call that stores, locks or deletes.
LEMMA AdvanceKeepsMInv ==
    ASSUME MInv, IInv', NEW w \in Workers, Busy(w), Busy(w)',
           cur'[w].job = cur[w].job, UNCHANGED spent,
           \A v \in Workers \ {w} : pc'[v] = pc[v] /\ cur'[v] = cur[v],
           UNCHANGED <<push, record, queue, hidden, lock>>,
           pc'[w] \in Holding => pc[w] \in Holding,
           pc[w] \in Late => pc'[w] \in Late,
           pc'[w] \in {"access", "process", "release", "error"} =>
              cur'[w].state = "Processing",
           pc'[w] # "errorPut",
           pc'[w] \in {"release", "completePut"} => ran'[cur[w].job],
           \A j \in Jobs : ran[j] => ran'[j]
    PROVE  MInv'
<1>1. HiddenInv'
    BY DEF MInv, HiddenInv, Busy
<1>2. OneHandInv'
    BY DEF MInv, OneHandInv, Busy
<1>3. LockInv'
    BY DEF MInv, LockInv
<1>4. OneKeyInv'
    BY DEF MInv, OneKeyInv
<1>5. PushInv'
    BY DEF MInv, PushInv
<1>6. TakenInv'
    BY DEF MInv, TakenInv
<1>7. WorkInv'
    <2>1. \A v \in Workers : Busy(v) => cur[v].job \in Jobs
        BY Types DEF MInv
    <2> QED BY <2>1 DEF MInv, WorkInv, Busy
<1> QED BY <1>1, <1>2, <1>3, <1>4, <1>5, <1>6, <1>7 DEF MInv

\* A worker returns, and its message is deleted or its job was not stored.
LEMMA LeaveKeepsMInv ==
    ASSUME MInv, IInv', NEW w \in Workers, pc'[w] = "idle",
           \A v \in Workers \ {w} : Same(v),
           UNCHANGED <<push, lock, ran>>,
           queue' \subseteq queue,
           \A j \in Jobs : \/ record'[j] = record[j]
                           \/ record'[j].state = "Queued" /\ j \in queue,
           \A j \in queue' : hidden'[j] = hidden[j],
           \A v \in Workers \ {w} : Busy(v) => cur[v].job \in queue',
           \A j \in queue' :
              cur[w].job = j => record'[j].state \in {"Created", "Queued"}
    PROVE  MInv'
<1>1. HiddenInv'
    BY DEF MInv, HiddenInv, Busy, Same
<1>2. OneHandInv'
    BY DEF MInv, OneHandInv, Busy, Same
<1>3. LockInv'
    BY DEF MInv, LockInv, Same, Holding
<1>4. OneKeyInv'
    BY DEF MInv, OneKeyInv, Same, Holding
<1>5. PushInv'
    BY DEF MInv, PushInv
<1>6. TakenInv'
    BY DEF MInv, TakenInv, Same, Late, IInv, TypeOK
<1>7. WorkInv'
    BY DEF MInv, WorkInv, Same
<1> QED BY <1>1, <1>2, <1>3, <1>4, <1>5, <1>6, <1>7 DEF MInv

\* A worker stores its job, which nobody else has in hand.
LEMMA StoreKeepsMInv ==
    ASSUME MInv, IInv', NEW w \in Workers, Busy(w),
           cur'[w].job = cur[w].job, UNCHANGED spent,
           \A v \in Workers \ {w} : pc'[v] = pc[v] /\ cur'[v] = cur[v],
           UNCHANGED <<push, queue, hidden, lock, ran>>,
           \A j \in Jobs : j # cur[w].job => record'[j] = record[j],
           record'[cur[w].job].state \in {"Processing", "Complete", "Error"},
           record'[cur[w].job].state = "Complete" => ran[cur[w].job],
           \/ pc[w] \in Holding /\ pc'[w] = "access"
           \/ pc'[w] = "delete",
           pc'[w] = "access" => cur'[w].state = "Processing"
    PROVE  MInv'
<1>1. HiddenInv'
    BY DEF MInv, HiddenInv, Busy
<1>2. OneHandInv'
    BY DEF MInv, OneHandInv, Busy
<1>3. LockInv'
    BY DEF MInv, LockInv, Holding
<1>4. OneKeyInv'
    BY DEF MInv, OneKeyInv, Holding
<1>5. PushInv'
    <2>1. cur[w].job \in queue
        BY DEF MInv, HiddenInv
    <2> QED BY <2>1 DEF MInv, PushInv
<1>6. TakenInv'
    <2>1. pc'[w] \in Late
        BY DEF Late
    <2>2. \A j \in queue : j \in Jobs
        BY DEF MInv, IInv, TypeOK
    <2> QED BY <2>1, <2>2 DEF MInv, TakenInv
<1>7. WorkInv'
    BY DEF MInv, WorkInv
<1> QED BY <1>1, <1>2, <1>3, <1>4, <1>5, <1>6, <1>7 DEF MInv

\* A worker releases the key of its job, which nobody else holds.
LEMMA ReleaseKeepsMInv ==
    ASSUME MInv, IInv', NEW w \in Workers, Busy(w), pc[w] \in Holding,
           pc[w] \in Late,
           cur'[w].job = cur[w].job, UNCHANGED spent,
           \A v \in Workers \ {w} : pc'[v] = pc[v] /\ cur'[v] = cur[v],
           UNCHANGED <<push, record, queue, hidden, ran>>, Unlock(w),
           \/ pc'[w] = "completePut" /\ ran[cur[w].job]
           \/ pc'[w] = "errorPut" /\ cur'[w].state # "Complete"
    PROVE  MInv'
<1>1. HiddenInv'
    BY DEF MInv, HiddenInv, Busy
<1>2. OneHandInv'
    BY DEF MInv, OneHandInv, Busy
<1>3. LockInv'
    <2> SUFFICES ASSUME NEW v \in Workers, pc'[v] \in Holding
                 PROVE  lock'[KeyOf[cur'[v].job]] + spent'[v] >= LockFor
        BY DEF LockInv
    <2>1. v # w /\ pc[v] \in Holding /\ cur'[v] = cur[v]
        BY DEF Holding
    <2>2. KeyOf[cur[v].job] # KeyOf[cur[w].job]
        BY <2>1 DEF MInv, OneKeyInv
    <2>3. Busy(v) /\ KeyOf[cur[v].job] \in Keys
        BY <2>1, Types DEF Busy, Holding, MInv
    <2>4. lock'[KeyOf[cur[v].job]] = lock[KeyOf[cur[v].job]]
        BY <2>2, <2>3 DEF Unlock, MInv, IInv, TypeOK
    <2> QED BY <2>1, <2>4 DEF MInv, LockInv
<1>4. OneKeyInv'
    BY DEF MInv, OneKeyInv, Holding
<1>5. PushInv'
    BY DEF MInv, PushInv
<1>6. TakenInv'
    BY DEF MInv, TakenInv, Late
<1>7. WorkInv'
    BY DEF MInv, WorkInv
<1> QED BY <1>1, <1>2, <1>3, <1>4, <1>5, <1>6, <1>7 DEF MInv

-----------------------------------------------------------------------------
(* The actions                                                             *)

LEMMA PushKeepsMInv ==
    ASSUME MInv, IInv', NEW j \in Jobs, PushStep(j)
    PROVE  MInv'
<1>1. UNCHANGED <<hidden, lock, pc, cur, spent, ran>>
    BY DEF PushStep, PushPutCreated, PushWrite, PushPutQueued
<1>2. queue \subseteq queue' /\ queue' \subseteq Jobs
    BY DEF PushStep, PushPutCreated, PushWrite, PushPutQueued, IInv, TypeOK, MInv
<1>3. HiddenInv' /\ OneHandInv' /\ LockInv' /\ OneKeyInv'
    BY <1>1, <1>2 DEF MInv, HiddenInv, OneHandInv, LockInv, OneKeyInv, Busy
<1>4. \A i \in Jobs \ {j} : push'[i] = push[i] /\ record'[i] = record[i]
                           /\ (i \in queue' <=> i \in queue)
    BY DEF PushStep, PushPutCreated, PushWrite, PushPutQueued, Put,
           MInv, IInv, TypeOK
<1>5. \/ /\ push'[j] = "created" /\ j \notin queue'
         /\ record'[j].state = "Created" /\ record'[j].fresh = FreshFor
      \/ /\ push'[j] = "written" /\ record'[j] = record[j]
         /\ record[j].state \in {"None", "Created"}
      \/ /\ push'[j] = "done" /\ record'[j].state = "Queued"
    BY DEF PushStep, PushPutCreated, PushWrite, PushPutQueued, Put,
           MInv, IInv, TypeOK, PushInv
<1>6. PushInv'
    BY <1>4, <1>5 DEF MInv, PushInv
<1>7. TakenInv'
    BY <1>1, <1>2, <1>4, <1>5 DEF MInv, TakenInv
<1>8. WorkInv'
    BY <1>1, <1>4, <1>5 DEF MInv, WorkInv
<1> QED BY <1>3, <1>6, <1>7, <1>8 DEF MInv

LEMMA ReadKeepsMInv ==
    ASSUME MInv, IInv', Undisturbed, NEW w \in Workers, NEW j \in Jobs, Read(w, j)
    PROVE  MInv'
<1>1. /\ pc[w] = "idle" /\ pc'[w] = "get" /\ cur'[w].job = j /\ spent[w] = 0
      /\ \A v \in Workers \ {w} : pc'[v] = pc[v] /\ cur'[v] = cur[v]
      /\ UNCHANGED <<push, record, queue, lock, spent, ran>>
      /\ j \in queue /\ hidden[j] = 0
    BY DEF Read, GoTo, MInv, IInv, TypeOK, WorkerInv, Copy
<1>2. /\ hidden'[j] = HiddenFor
      /\ \A i \in Jobs \ {j} : hidden'[i] = hidden[i]
    BY DEF Read, Hide, MInv, IInv, TypeOK
<1>3. \A v \in Workers : Busy(v) => cur[v].job # j
    BY <1>1, InHand
<1>4. \A v \in Workers : Busy(v) => cur[v].job \in Jobs
    BY Types DEF MInv
<1>5. HiddenInv'
    BY <1>1, <1>2, <1>3, <1>4, ConstantsAssumption DEF MInv, HiddenInv, Busy
<1>6. OneHandInv'
    BY <1>1, <1>3 DEF MInv, OneHandInv, Busy
<1>7. LockInv' /\ OneKeyInv'
    BY <1>1 DEF MInv, LockInv, OneKeyInv, Holding
<1>8. PushInv'
    BY <1>1 DEF MInv, PushInv
<1>9. TakenInv'
    BY <1>1 DEF MInv, TakenInv, Late
<1>10. WorkInv'
    BY <1>1 DEF MInv, WorkInv
<1> QED BY <1>5, <1>6, <1>7, <1>8, <1>9, <1>10 DEF MInv

LEMMA LockKeyKeepsMInv ==
    ASSUME MInv, IInv', Undisturbed, NEW w \in Workers, LockKey(w)
    PROVE  MInv'
<1> DEFINE k == KeyOf[cur[w].job]
<1>1. Busy(w) /\ k \in Keys /\ cur[w].job \in queue /\ pc[w] = "lock"
    BY Types DEF LockKey, Busy, MInv, HiddenInv
<1>2. CASE ~alreadyProcessingKey(k) /\ ~GoIdle(w)
    <2>1. /\ lock[k] = 0
          /\ pc'[w] = "start"
          /\ \A v \in Workers \ {w} : pc'[v] = pc[v]
          /\ lock'[k] = LockFor
          /\ \A i \in Keys \ {k} : lock'[i] = lock[i]
          /\ UNCHANGED <<push, record, queue, hidden, cur, spent, ran>>
        BY <1>1, <1>2
        DEF LockKey, alreadyProcessingKey, GoTo, MInv, IInv, TypeOK
    <2>2. \A v \in Workers : pc[v] \in Holding => KeyOf[cur[v].job] # k
        BY <2>1, InHand
    <2>3. \A v \in Workers : pc[v] \in Holding => KeyOf[cur[v].job] \in Keys
        BY Types DEF MInv, Busy, Holding
    <2>4. spent[w] \in Nat
        BY DEF MInv, IInv, TypeOK
    <2> HIDE DEF k
    <2>5. HiddenInv' /\ OneHandInv'
        BY <1>1, <2>1 DEF MInv, HiddenInv, OneHandInv, Busy
    <2>6. LockInv'
        BY <1>1, <2>1, <2>2, <2>3, <2>4, ConstantsAssumption DEF MInv, LockInv, k
    <2>7. OneKeyInv'
        BY <1>1, <2>1, <2>2 DEF MInv, OneKeyInv, k
    <2>8. PushInv'
        BY <2>1 DEF MInv, PushInv
    <2>9. TakenInv'
        BY <1>1, <2>1 DEF MInv, TakenInv, Late
    <2>10. WorkInv'
        BY <2>1 DEF MInv, WorkInv
    <2> QED BY <2>5, <2>6, <2>7, <2>8, <2>9, <2>10 DEF MInv
<1>3. CASE GoIdle(w) /\ UNCHANGED lock
    <2>1. /\ pc'[w] = "idle"
          /\ \A v \in Workers \ {w} : Same(v)
        BY <1>3, GoIdleUpdate DEF Same, MInv, IInv
    <2>2. UNCHANGED <<push, record, queue, hidden, ran>>
        BY DEF LockKey
    <2>3. record[cur[w].job].state \in {"Created", "Queued"}
        BY <1>1, NotTaken DEF Late
    <2>4. \A v \in Workers \ {w} : Busy(v) => cur[v].job \in queue'
        BY <2>2 DEF MInv, HiddenInv
    <2>5. UNCHANGED <<push, lock, ran>> /\ queue' \subseteq queue
        BY <1>3, <2>2, <2>3
    <2>6. \A j \in Jobs : \/ record'[j] = record[j]
                          \/ record'[j].state = "Queued" /\ j \in queue
        BY <1>3, <2>2, <2>3
    <2>7. \A j \in queue' : hidden'[j] = hidden[j]
        BY <1>3, <2>2, <2>3
    <2>8. \A j \in queue' :
             cur[w].job = j => record'[j].state \in {"Created", "Queued"}
        BY <1>3, <2>2, <2>3
    <2> QED BY <2>1, <2>4, <2>5, <2>6, <2>7, <2>8, LeaveKeepsMInv
<1>4. ~alreadyProcessingKey(k) /\ GoTo(w, "start") => ~GoIdle(w)
    BY DEF GoTo, GoIdle, MInv, IInv, TypeOK
<1>5. \/ ~alreadyProcessingKey(k) /\ GoTo(w, "start")
      \/ GoIdle(w) /\ UNCHANGED lock
    BY DEF LockKey
<1> QED BY <1>2, <1>3, <1>4, <1>5

LEMMA GetJobKeepsMInv ==
    ASSUME MInv, IInv', NEW w \in Workers, GetJob(w)
    PROVE  MInv'
<1>1. Busy(w) /\ pc[w] \notin Late /\ pc[w] = "get"
    BY DEF GetJob, Busy, Late
<1>2. record[cur[w].job].state \in {"Created", "Queued"} /\ cur[w].job \in Jobs
    BY <1>1, NotTaken, Types DEF MInv
<1>3. record[cur[w].job].state = "Created" => record[cur[w].job].fresh > 0
    BY <1>2, ConstantsAssumption DEF MInv, PushInv
<1>4. readyToProcess(record[cur[w].job]) /\ ~fallsThrough(record[cur[w].job])
    BY <1>2, <1>3 DEF readyToProcess, fallsThrough, MayQueue
<1>5. /\ cur' = [cur EXCEPT ![w].state = "Queued",
                            ![w].tries = record[cur[w].job].tries]
      /\ GoTo(w, "lock") /\ UNCHANGED spent
    BY <1>2, <1>4 DEF GetJob, Got
<1>6. /\ cur'[w].job = cur[w].job
      /\ \A v \in Workers \ {w} : cur'[v] = cur[v]
    BY <1>5 DEF MInv, IInv, TypeOK, Copy
<1>7. /\ pc'[w] = "lock"
      /\ \A v \in Workers \ {w} : pc'[v] = pc[v]
    BY <1>5 DEF GoTo, MInv, IInv, TypeOK
<1>8. UNCHANGED <<push, record, queue, hidden, lock, ran>>
    BY DEF GetJob
<1> QED BY <1>1, <1>5, <1>6, <1>7, <1>8, AdvanceKeepsMInv DEF Busy, Holding

LEMMA StartKeepsMInv ==
    ASSUME MInv, IInv', NEW w \in Workers, Start(w)
    PROVE  MInv'
<1>1. /\ pc[w] = "start" /\ Busy(w) /\ cur[w].job \in Jobs
      /\ cur[w] \in Copy
    BY BusyIsGood DEF Start, Busy, MInv
<1>2. /\ cur'[w].job = cur[w].job /\ cur'[w].state = "Processing"
      /\ \A v \in Workers \ {w} : cur'[v] = cur[v]
    BY <1>1 DEF Start, MInv, IInv, TypeOK, Copy
<1>3. /\ pc'[w] = "access"
      /\ \A v \in Workers \ {w} : pc'[v] = pc[v]
    BY DEF Start, GoTo, MInv, IInv, TypeOK
<1>4. /\ record'[cur[w].job].state = "Processing"
      /\ \A j \in Jobs : j # cur[w].job => record'[j] = record[j]
    BY <1>1 DEF Start, Put, MInv, IInv, TypeOK
<1>5. UNCHANGED <<push, queue, hidden, lock, spent, ran>>
    BY DEF Start
<1>6. pc[w] \in Holding
    BY <1>1 DEF Holding
<1> QED BY <1>1, <1>2, <1>3, <1>4, <1>5, <1>6, StoreKeepsMInv

\* The steps of pullJob's try block up to complete.
LEMMA PullJobKeepsMInv ==
    ASSUME MInv, IInv', NEW w \in Workers,
           AccessMessage(w) \/ ProcessSucceeds(w) \/ ProcessFails(w)
    PROVE  MInv'
<1>1. /\ Busy(w) /\ pc[w] \in {"access", "process"} /\ cur[w] \in Copy
      /\ cur[w].job \in Jobs
    BY BusyIsGood DEF AccessMessage, ProcessSucceeds, ProcessFails, Busy, MInv
<1>2. cur[w].state = "Processing"
    BY <1>1 DEF MInv, WorkInv
<1>3. /\ cur'[w].job = cur[w].job /\ cur'[w].state = cur[w].state
      /\ \A v \in Workers \ {w} : cur'[v] = cur[v]
    BY <1>1 DEF AccessMessage, ProcessSucceeds, ProcessFails, GoCatch,
                MInv, IInv, TypeOK, Copy
<1>4. /\ pc'[w] \in {"process", "release", "error"}
      /\ \A v \in Workers \ {w} : pc'[v] = pc[v]
    BY DEF AccessMessage, ProcessSucceeds, ProcessFails, GoCatch, GoTo,
           MInv, IInv, TypeOK
<1>5. UNCHANGED <<push, record, queue, hidden, lock, spent>>
    BY DEF AccessMessage, ProcessSucceeds, ProcessFails
<1>6. /\ pc'[w] = "release" => ran'[cur[w].job]
      /\ \A j \in Jobs : ran[j] => ran'[j]
    BY <1>1, <1>4 DEF AccessMessage, ProcessSucceeds, ProcessFails, GoCatch, GoTo,
           MInv, IInv, TypeOK
<1>7. pc[w] \in Holding /\ pc'[w] \in Late /\ Busy(w)'
    BY <1>1, <1>4 DEF Holding, Late, Busy
<1>8. pc'[w] # "errorPut" /\ pc'[w] # "completePut"
    BY <1>4
<1> QED BY <1>1, <1>2, <1>3, <1>4, <1>5, <1>6, <1>7, <1>8, AdvanceKeepsMInv

LEMMA CompleteErrorKeepsMInv ==
    ASSUME MInv, IInv', NEW w \in Workers, CompleteRelease(w) \/ ErrorRelease(w)
    PROVE  MInv'
<1>1. /\ Busy(w) /\ pc[w] \in {"release", "error"} /\ cur[w] \in Copy
      /\ pc[w] \in Holding /\ pc[w] \in Late
    BY BusyIsGood DEF CompleteRelease, ErrorRelease, Busy, Holding, Late, MInv
<1>2. cur[w].state = "Processing"
    BY <1>1 DEF MInv, WorkInv
<1>3. \/ /\ pc[w] = "release" /\ GoTo(w, "completePut")
         /\ cur' = [cur EXCEPT ![w].state = "Complete"]
      \/ /\ pc[w] = "error" /\ GoTo(w, "errorPut")
         /\ cur' = [cur EXCEPT ![w].state =
                       IF Retrying(w) THEN "Queued" ELSE "Error"]
    BY <1>2 DEF CompleteRelease, ErrorRelease, MayComplete, MayQueue, MayError
<1>4. UNCHANGED <<push, record, queue, hidden, ran, spent>> /\ Unlock(w)
    BY <1>2 DEF CompleteRelease, ErrorRelease, MayComplete, MayQueue, MayError
<1>5. \/ pc'[w] = "completePut" /\ ran[cur[w].job]
      \/ pc'[w] = "errorPut" /\ cur'[w].state # "Complete"
    BY <1>1, <1>3 DEF GoTo, MInv, IInv, TypeOK, Copy, WorkInv
<1>6. \A v \in Workers \ {w} : pc'[v] = pc[v] /\ cur'[v] = cur[v]
    BY <1>3 DEF GoTo, MInv, IInv, TypeOK
<1>7. cur'[w].job = cur[w].job
    BY <1>1, <1>3 DEF MInv, IInv, TypeOK, Copy
<1> QED BY <1>1, <1>4, <1>5, <1>6, <1>7, ReleaseKeepsMInv

LEMMA PutDeleteKeepsMInv ==
    ASSUME MInv, IInv', Undisturbed, NEW w \in Workers,
           CompletePut(w) \/ ErrorPut(w) \/ Delete(w)
    PROVE  MInv'
<1>1. /\ Busy(w) /\ cur[w] \in Copy /\ cur[w].job \in Jobs
      /\ cur[w].job \in queue /\ Good(pc[w], cur[w])
    BY BusyIsGood DEF CompletePut, ErrorPut, Delete, Busy, MInv, HiddenInv
<1>2. \A v \in Workers : Busy(v) /\ v # w => cur[v].job # cur[w].job
    BY <1>1 DEF MInv, OneHandInv
<1>3. \A v \in Workers : Busy(v) => cur[v].job \in queue
    BY DEF MInv, HiddenInv
<1>4. CASE (CompletePut(w) \/ ErrorPut(w)) /\ ~GoIdle(w)
    <2>1. /\ GoTo(w, "delete") /\ PutCur(w) /\ cur[w].state \in Final
          /\ cur[w].state = "Complete" => ran[cur[w].job]
          /\ UNCHANGED <<push, queue, hidden, lock, ran, cur, spent>>
        BY <1>1, <1>4 DEF CompletePut, ErrorPut, Good, Final, MInv, WorkInv
    <2>2. pc'[w] = "delete" /\ \A v \in Workers \ {w} : pc'[v] = pc[v]
        BY <2>1 DEF GoTo, MInv, IInv, TypeOK
    <2>3. /\ record'[cur[w].job].state = cur[w].state
          /\ \A j \in Jobs : j # cur[w].job => record'[j] = record[j]
        BY <1>1, <2>1 DEF PutCur, Put, MInv, IInv, TypeOK
    <2> QED BY <1>1, <2>1, <2>2, <2>3, StoreKeepsMInv DEF Final
<1>5. CASE ErrorPut(w) /\ GoIdle(w)
    <2>1. /\ pc'[w] = "idle"
          /\ \A v \in Workers \ {w} : Same(v)
        BY <1>5, GoIdleUpdate DEF Same, MInv, IInv
    <2>2. PutCur(w) /\ UNCHANGED <<push, queue, hidden, lock, ran>>
        BY <1>5 DEF ErrorPut
    <2>3. cur[w].state = "Queued"
        <3>1. ~GoTo(w, "delete")
            BY <2>1 DEF GoTo, MInv, IInv, TypeOK
        <3> QED BY <1>5, <3>1 DEF ErrorPut
    <2>4. /\ record'[cur[w].job].state = "Queued"
          /\ \A j \in Jobs : j # cur[w].job => record'[j] = record[j]
        BY <1>1, <2>2, <2>3 DEF PutCur, Put, MInv, IInv, TypeOK
    <2>5. \A v \in Workers \ {w} : Busy(v) => cur[v].job \in queue'
        BY <2>2 DEF MInv, HiddenInv
    <2>6. cur[w].job \in queue
        BY <1>1 DEF MInv, HiddenInv
    <2>7. UNCHANGED <<push, lock, ran>> /\ queue' \subseteq queue
        BY <2>2, <2>4, <2>6
    <2>8. \A j \in Jobs : \/ record'[j] = record[j]
                          \/ record'[j].state = "Queued" /\ j \in queue
        BY <2>2, <2>4, <2>6
    <2>9. \A j \in queue' : hidden'[j] = hidden[j]
        BY <2>2, <2>4, <2>6
    <2>10. \A j \in queue' :
             cur[w].job = j => record'[j].state \in {"Created", "Queued"}
        BY <2>2, <2>4, <2>6
    <2> QED BY <2>1, <2>5, <2>7, <2>8, <2>9, <2>10, LeaveKeepsMInv
<1>6. CASE Delete(w)
    <2>1. GoIdle(w)
        BY <1>6 DEF Delete, Undisturbed
    <2>2. /\ pc'[w] = "idle"
          /\ \A v \in Workers \ {w} : Same(v)
        BY <2>1, GoIdleUpdate DEF Same, MInv, IInv
    <2>3. /\ queue' = queue \ {cur[w].job}
          /\ \A j \in queue' : hidden'[j] = hidden[j]
          /\ UNCHANGED <<push, record, lock, ran>>
        BY <1>6 DEF Delete, MInv, IInv, TypeOK
    <2>4. \A v \in Workers \ {w} : Busy(v) => cur[v].job \in queue'
        BY <1>2, <1>3, <2>3
    <2>5. UNCHANGED <<push, lock, ran>> /\ queue' \subseteq queue
        BY <2>3
    <2>6. \A j \in Jobs : \/ record'[j] = record[j]
                          \/ record'[j].state = "Queued" /\ j \in queue
        BY <2>3
    <2>7. \A j \in queue' : hidden'[j] = hidden[j]
        BY <2>3
    <2>8. \A j \in queue' :
             cur[w].job = j => record'[j].state \in {"Created", "Queued"}
        BY <2>3
    <2> QED BY <2>2, <2>4, <2>5, <2>6, <2>7, <2>8, LeaveKeepsMInv
<1>7. ~(CompletePut(w) /\ GoIdle(w))
    <2>1. SUFFICES ASSUME CompletePut(w), GoIdle(w) PROVE FALSE
        OBVIOUS
    <2>2. pc'[w] = "delete" /\ pc'[w] = "idle"
        BY <2>1 DEF CompletePut, GoTo, GoIdle, MInv, IInv, TypeOK
    <2> QED BY <2>2
<1> QED BY <1>4, <1>5, <1>6, <1>7

\* A tick takes one from every timer and adds one to what busy workers spent.
LEMMA TickKeepsMInv ==
    ASSUME MInv, IInv', Undisturbed, Tick
    PROVE  MInv'
<1>1. /\ \A w \in Workers : Busy(w) => spent'[w] = spent[w] + 1
      /\ \A w \in Workers : spent[w] \in Nat
      /\ UNCHANGED <<push, queue, pc, cur, ran>>
    BY DEF Tick, Busy, MInv, IInv, TypeOK
<1>2. \A j \in Jobs : hidden[j] \in Nat /\ hidden'[j] >= hidden[j] - 1
    BY ConstantsAssumption DEF Tick, Down, MInv, IInv, TypeOK
<1>3. \A k \in Keys : lock[k] \in Nat /\ lock'[k] >= lock[k] - 1
    <2>1. lock' = [k \in Keys |-> Down(lock[k])]
        BY DEF Tick, Undisturbed
    <2>2. \A k \in Keys : lock[k] \in 0 .. LockFor
        BY DEF MInv, IInv, TypeOK
    <2> QED BY <2>1, <2>2, ConstantsAssumption DEF Down
<1>4. \A j \in Jobs : record'[j].state = record[j].state
    BY TickAges DEF MInv, IInv
<1>5. \A w \in Workers : Busy(w) =>
        cur[w].job \in Jobs /\ KeyOf[cur[w].job] \in Keys
    BY Types DEF MInv
<1>6. \A j \in Jobs : /\ hidden'[j] \in Nat
                      /\ KeyOf[j] \in Keys
    BY ConstantsAssumption DEF IInv, TypeOK
<1>7. \A k \in Keys : lock'[k] \in Nat
    BY ConstantsAssumption DEF IInv, TypeOK
<1>8. HiddenInv'
    <2> SUFFICES ASSUME NEW w \in Workers, Busy(w)
                 PROVE  /\ cur[w].job \in queue
                        /\ hidden'[cur[w].job] + spent'[w] >= HiddenFor
        BY <1>1 DEF HiddenInv, Busy
    <2>1. cur[w].job \in queue /\ hidden[cur[w].job] + spent[w] >= HiddenFor
        BY DEF MInv, HiddenInv
    <2> QED BY <1>1, <1>2, <1>5, <1>6, <2>1, ConstantsAssumption
<1>9. LockInv'
    <2> SUFFICES ASSUME NEW w \in Workers, pc[w] \in Holding
                 PROVE  lock'[KeyOf[cur[w].job]] + spent'[w] >= LockFor
        BY <1>1 DEF LockInv
    <2>1. Busy(w)
        BY DEF Busy, Holding
    <2>2. lock[KeyOf[cur[w].job]] + spent[w] >= LockFor
        BY DEF MInv, LockInv
    <2> QED BY <1>1, <1>3, <1>5, <1>7, <2>1, <2>2, ConstantsAssumption
<1>10. OneHandInv' /\ OneKeyInv'
    BY <1>1 DEF MInv, OneHandInv, OneKeyInv, Busy
<1>11. PushInv'
    <2>1. \A j \in Jobs : push[j] \in {"new", "done"}
        BY DEF Tick, Undisturbed
    <2> QED BY <1>1, <1>4, <2>1 DEF MInv, PushInv
<1>12. TakenInv'
    BY <1>1, <1>4 DEF MInv, TakenInv, IInv, TypeOK
<1>13. WorkInv'
    BY <1>1, <1>4 DEF MInv, WorkInv
<1> QED BY <1>8, <1>9, <1>10, <1>11, <1>12, <1>13 DEF MInv

LEMMA InitMInv == Init => MInv
<1> SUFFICES ASSUME Init PROVE MInv
    OBVIOUS
<1>1. IInv
    BY InitIInv
<1>2. HiddenInv /\ OneHandInv /\ LockInv /\ OneKeyInv
    BY DEF Init, HiddenInv, OneHandInv, LockInv, OneKeyInv, Busy, Holding
<1>3. PushInv /\ TakenInv /\ WorkInv
    BY DEF Init, PushInv, TakenInv, WorkInv
<1> QED BY <1>1, <1>2, <1>3 DEF MInv

LEMMA NextKeepsMInv ==
    ASSUME Undisturbed, MInv, [Next]_vars
    PROVE  MInv'
<1>1. IInv'
    BY NextKeepsIInv DEF MInv
<1>2. CASE UNCHANGED vars
    BY <1>1, <1>2 DEF vars, MInv, HiddenInv, OneHandInv, LockInv, OneKeyInv,
                      PushInv, TakenInv, WorkInv, Busy
<1>3. CASE \E j \in Jobs : PushStep(j)
    BY <1>1, <1>3, PushKeepsMInv
<1>4. CASE \E w \in Workers, j \in Jobs : Read(w, j)
    BY <1>1, <1>4, ReadKeepsMInv
<1>5. CASE \E w \in Workers : WorkerStep(w)
    BY <1>1, <1>5, GetJobKeepsMInv, LockKeyKeepsMInv, StartKeepsMInv,
       PullJobKeepsMInv, CompleteErrorKeepsMInv, PutDeleteKeepsMInv DEF WorkerStep
<1>6. CASE FaultStep
    BY <1>6 DEF FaultStep, Crash, CallThrows, StaleGet, AccessRefused, ErrorBehaviorFails,
                PushCrash, Redeliver, Fault, Undisturbed
<1>7. CASE Tick
    BY <1>1, <1>7, TickKeepsMInv
<1> QED BY <1>2, <1>3, <1>4, <1>5, <1>6, <1>7 DEF Next

-----------------------------------------------------------------------------
(* The theorems                                                            *)

(* Undisturbed, a job in work has one worker, its key one lock and its       *)
(* message is invisible for as long as pullJob may still take.               *)
THEOREM UndisturbedInvariant == ASSUME Undisturbed PROVE Spec => []MInv
<1>1. MInv /\ [Next]_vars => MInv'
    BY NextKeepsMInv
<1> QED BY <1>1, InitMInv, PTL DEF Spec

\* No two workers work on messages with the same key at the same time, for any
\* number of jobs, keys and workers and any timeouts longer than the work.
THEOREM KeysAreExclusive == ASSUME Undisturbed PROVE Spec => []KeyMutex
<1>1. MInv => KeyMutex
    BY DEF MInv, OneKeyInv, KeyMutex, Working, Holding
<1> QED BY <1>1, UndisturbedInvariant, PTL

\* A job is reported Complete only if its behavior was applied.
THEOREM CompleteJobsRan == ASSUME Undisturbed PROVE Spec => []CompleteMeansRun
<1>1. MInv => CompleteMeansRun
    BY DEF MInv, WorkInv, CompleteMeansRun
<1> QED BY <1>1, UndisturbedInvariant, PTL
=============================================================================
