----------------------- MODULE JobQueueServiceProofs -----------------------
(***************************************************************************)
(* What the job queue promises to its callers when nothing disturbs it and *)
(* no poll reads a message whose push is still under way: it implements    *)
(* JobService, counts the attempts it makes and never takes back an end.   *)
(***************************************************************************)
EXTENDS JobQueueMutexProofs, JobQueueRefinement

Orderly == Undisturbed /\ "earlyRead" \notin Hazards

-----------------------------------------------------------------------------
(* The inductive invariant, on top of MInv                                 *)

\* The life of a job: unknown until its push is done, Processing only in the
\* hands of a worker, its tries counted, its behavior applied at most once.
JobStory(j) ==
    /\ push[j] # "done" =>
          /\ record[j].state \in {"None", "Created"}
          /\ attempts[j] = 0 /\ ~ran[j]
    /\ push[j] = "done" => record[j].state \notin {"None", "Created"}
    /\ record[j].tries = attempts[j]
    /\ attempts[j] <= MaxTries
    /\ record[j].state = "Queued" => attempts[j] < MaxTries
    /\ ran[j] => record[j].state \in {"Processing", "Complete"}
    /\ record[j].state = "Processing" =>
          \E w \in Workers : pc[w] \in Late /\ cur[w].job = j

\* The instance of a busy worker agrees with the stored job, or is ahead of it
\* by the put the worker makes next.
HandStory(w) ==
    LET j == cur[w].job
    IN  /\ push[j] = "done"
        /\ pc[w] \in {"lock", "start"} => cur[w].state = "Queued"
        /\ pc[w] # "get" => cur[w].tries = attempts[j]
        /\ pc[w] \in Late \ {"delete"} => record[j].state = "Processing"
        /\ pc[w] = "delete" =>
              record[j].state = cur[w].state /\ cur[w].state \in Final
        /\ pc[w] \in {"access", "process", "error", "errorPut"} => ~ran[j]
        /\ pc[w] = "errorPut" =>
              cur[w].state = IF attempts[j] < MaxTries THEN "Queued" ELSE "Error"

SInv ==
    /\ MInv
    /\ \A j \in Jobs : JobStory(j)
    /\ \A w \in Workers : Busy(w) => HandStory(w)

-----------------------------------------------------------------------------
(* What each action does to the worker that takes it and to its job        *)

Others(w) == \A v \in Workers \ {w} : pc'[v] = pc[v] /\ cur'[v] = cur[v]

\* The worker goes on with its job, to the call l.
Moved(w, l, st, t) ==
    /\ pc'[w] = l
    /\ cur'[w].job = cur[w].job /\ cur'[w].state = st /\ cur'[w].tries = t
    /\ Others(w)

\* The worker is done with its job.
Left(w) == pc'[w] = "idle" /\ Others(w)

\* Job j is stored, and no other.
Stored(j, st, t) ==
    /\ record'[j].state = st /\ record'[j].tries = t
    /\ \A i \in Jobs \ {j} : record'[i] = record[i]

\* The types the effects are computed from.
LEMMA BusyTypes ==
    ASSUME SInv, NEW w \in Workers, Busy(w)
    PROVE  /\ IInv /\ TypeOK /\ MInv
           /\ cur[w] \in Copy /\ cur[w].job \in Jobs /\ cur[w].tries \in Nat
           /\ cur[w].state \in JobState
           /\ record[cur[w].job] \in Record
           /\ attempts[cur[w].job] \in Nat
           /\ HandStory(w) /\ JobStory(cur[w].job)
           /\ Good(pc[w], cur[w])
<1>1. IInv /\ TypeOK /\ MInv
    BY DEF SInv, MInv, IInv
<1>2. /\ Good(pc[w], cur[w]) /\ cur[w] \in Copy /\ cur[w].job \in Jobs
      /\ cur[w].tries \in Nat /\ cur[w].state \in JobState
      /\ record[cur[w].job] \in Record
    BY <1>1, BusyIsGood DEF Busy
<1>3. attempts[cur[w].job] \in Nat
    BY <1>1, <1>2 DEF TypeOK
<1> QED BY <1>1, <1>2, <1>3 DEF SInv

\* The message of a job whose push is done leads to a job that is Queued.
LEMMA GetJobEffect ==
    ASSUME SInv, NEW w \in Workers, GetJob(w)
    PROVE  /\ Moved(w, "lock", "Queued", attempts[cur[w].job])
           /\ record[cur[w].job].state = "Queued"
           /\ UNCHANGED <<push, record, attempts, ran>>
<1>1. Busy(w) /\ pc[w] = "get" /\ pc[w] \notin Late
    BY DEF GetJob, Busy, Late
<1>2. record[cur[w].job].state = "Queued"
    BY <1>1, NotTaken, BusyTypes DEF JobStory, HandStory
<1>3. /\ cur' = [cur EXCEPT ![w].state = "Queued",
                            ![w].tries = record[cur[w].job].tries]
      /\ GoTo(w, "lock")
    BY <1>2 DEF GetJob, Got, readyToProcess, fallsThrough
<1>4. record[cur[w].job].tries = attempts[cur[w].job]
    BY <1>1, BusyTypes DEF JobStory
<1> QED BY <1>1, <1>2, <1>3, <1>4, BusyTypes
        DEF GetJob, GoTo, Moved, Others, TypeOK, Copy

LEMMA LockKeyEffect ==
    ASSUME SInv, NEW w \in Workers, LockKey(w)
    PROVE  /\ \/ Moved(w, "start", cur[w].state, cur[w].tries)
              \/ Left(w)
           /\ pc[w] = "lock"
           /\ UNCHANGED <<push, record, attempts, ran>>
<1>1. Busy(w) /\ pc[w] = "lock"
    BY DEF LockKey, Busy
<1>2. CASE GoTo(w, "start") /\ UNCHANGED cur
    BY <1>1, <1>2, BusyTypes DEF LockKey, GoTo, Moved, Others, TypeOK
<1>3. CASE GoIdle(w)
    BY <1>1, <1>3, BusyTypes, GoIdleUpdate DEF LockKey, Left, Others
<1> QED BY <1>2, <1>3 DEF LockKey

LEMMA StartEffect ==
    ASSUME SInv, NEW w \in Workers, Start(w)
    PROVE  /\ pc[w] = "start"
           /\ Moved(w, "access", "Processing", cur[w].tries + 1)
           /\ Stored(cur[w].job, "Processing", cur[w].tries + 1)
           /\ attempts'[cur[w].job] = attempts[cur[w].job] + 1
           /\ \A i \in Jobs \ {cur[w].job} : attempts'[i] = attempts[i]
           /\ UNCHANGED <<push, ran>>
<1>1. Busy(w) /\ pc[w] = "start"
    BY DEF Start, Busy
<1>2. Moved(w, "access", "Processing", cur[w].tries + 1)
    BY <1>1, BusyTypes DEF Start, GoTo, Moved, Others, TypeOK, Copy
<1>3. Stored(cur[w].job, "Processing", cur[w].tries + 1)
    BY <1>1, BusyTypes DEF Start, Put, Stored, TypeOK
<1>4. /\ attempts'[cur[w].job] = attempts[cur[w].job] + 1
      /\ \A i \in Jobs \ {cur[w].job} : attempts'[i] = attempts[i]
    BY <1>1, BusyTypes DEF Start, TypeOK
<1> QED BY <1>1, <1>2, <1>3, <1>4 DEF Start

LEMMA PullJobEffect ==
    ASSUME SInv, NEW w \in Workers,
           AccessMessage(w) \/ ProcessSucceeds(w) \/ ProcessFails(w)
    PROVE  /\ pc[w] \in {"access", "process"}
           /\ \/ /\ Moved(w, "process", cur[w].state, cur[w].tries)
                 /\ UNCHANGED ran
              \/ /\ Moved(w, "error", cur[w].state, cur[w].tries)
                 /\ UNCHANGED ran
              \/ /\ Moved(w, "release", cur[w].state, cur[w].tries)
                 /\ ran' = [ran EXCEPT ![cur[w].job] = TRUE]
           /\ UNCHANGED <<push, record, attempts>>
<1>1. Busy(w) /\ pc[w] \in {"access", "process"}
    BY DEF AccessMessage, ProcessSucceeds, ProcessFails, Busy
<1>2. CASE AccessMessage(w)
    BY <1>1, <1>2, BusyTypes DEF AccessMessage, GoTo, Moved, Others, TypeOK, Copy
<1>3. CASE ProcessSucceeds(w)
    BY <1>1, <1>3, BusyTypes DEF ProcessSucceeds, GoTo, Moved, Others, TypeOK, Copy
<1>4. CASE ProcessFails(w)
    BY <1>1, <1>4, BusyTypes
    DEF ProcessFails, GoCatch, GoTo, Moved, Others, TypeOK, Copy
<1> QED BY <1>2, <1>3, <1>4

LEMMA ReleaseEffect ==
    ASSUME SInv, NEW w \in Workers, CompleteRelease(w) \/ ErrorRelease(w)
    PROVE  /\ cur[w].state = "Processing"
           /\ \/ /\ pc[w] = "release"
                 /\ Moved(w, "completePut", "Complete", cur[w].tries)
              \/ /\ pc[w] = "error"
                 /\ Moved(w, "errorPut",
                          IF cur[w].tries < MaxTries THEN "Queued" ELSE "Error",
                          cur[w].tries)
           /\ UNCHANGED <<push, record, attempts, ran>>
<1>1. Busy(w) /\ pc[w] \in {"release", "error"}
    BY DEF CompleteRelease, ErrorRelease, Busy
<1>2. cur[w].state = "Processing"
    BY <1>1 DEF SInv, MInv, WorkInv
<1>3. CASE CompleteRelease(w)
    <2>1. /\ pc[w] = "release" /\ GoTo(w, "completePut")
          /\ cur' = [cur EXCEPT ![w].state = "Complete"]
        BY <1>2, <1>3 DEF CompleteRelease, MayComplete
    <2> QED BY <1>1, <1>2, <1>3, <2>1, BusyTypes
            DEF CompleteRelease, GoTo, Moved, Others, TypeOK, Copy
<1>4. CASE ErrorRelease(w)
    <2>1. /\ pc[w] = "error" /\ GoTo(w, "errorPut")
          /\ cur' = [cur EXCEPT ![w].state =
                        IF cur[w].tries < MaxTries THEN "Queued" ELSE "Error"]
        BY <1>2, <1>4 DEF ErrorRelease, MayQueue, MayError, Retrying
    <2> QED BY <1>1, <1>2, <1>4, <2>1, BusyTypes
            DEF ErrorRelease, GoTo, Moved, Others, TypeOK, Copy
<1> QED BY <1>3, <1>4

LEMMA PutEffect ==
    ASSUME SInv, NEW w \in Workers, CompletePut(w) \/ ErrorPut(w)
    PROVE  /\ Stored(cur[w].job, cur[w].state, cur[w].tries)
           /\ \/ /\ pc[w] = "completePut" /\ cur[w].state = "Complete"
                 /\ Moved(w, "delete", cur[w].state, cur[w].tries)
              \/ /\ pc[w] = "errorPut" /\ cur[w].state = "Error"
                 /\ Moved(w, "delete", cur[w].state, cur[w].tries)
              \/ /\ pc[w] = "errorPut" /\ cur[w].state = "Queued"
                 /\ Left(w)
           /\ UNCHANGED <<push, attempts, ran>>
<1>1. Busy(w) /\ pc[w] \in {"completePut", "errorPut"}
    BY DEF CompletePut, ErrorPut, Busy
<1>2. Stored(cur[w].job, cur[w].state, cur[w].tries)
    BY <1>1, BusyTypes DEF CompletePut, ErrorPut, PutCur, Put, Stored, TypeOK
<1>3. CASE CompletePut(w)
    BY <1>1, <1>2, <1>3, BusyTypes
    DEF CompletePut, GoTo, Moved, Others, TypeOK, Copy, Good
<1>4. CASE ErrorPut(w)
    <2>1. CASE cur[w].state = "Queued" /\ GoIdle(w)
        BY <1>1, <1>2, <1>4, <2>1, BusyTypes, GoIdleUpdate DEF ErrorPut, Left, Others
    <2>2. CASE cur[w].state = "Error" /\ GoTo(w, "delete") /\ UNCHANGED cur
        BY <1>1, <1>2, <1>4, <2>2, BusyTypes
        DEF ErrorPut, GoTo, Moved, Others, TypeOK
    <2> QED BY <1>4, <2>1, <2>2 DEF ErrorPut
<1> QED BY <1>3, <1>4

LEMMA DeleteEffect ==
    ASSUME SInv, Orderly, NEW w \in Workers, Delete(w)
    PROVE  /\ pc[w] = "delete" /\ Left(w)
           /\ UNCHANGED <<push, record, attempts, ran>>
<1>1. GoIdle(w) /\ Busy(w)
    BY DEF Delete, Orderly, Undisturbed, Busy
<1> QED BY <1>1, BusyTypes, GoIdleUpdate DEF Delete, Left, Others

-----------------------------------------------------------------------------
(* The invariant is inductive                                              *)

\* A step of a worker leaves alone every job but its own and every other
\* worker, which has another job in hand.
LEMMA StepKeepsSInv ==
    ASSUME SInv, MInv', NEW w \in Workers, Busy(w), Others(w),
           NEW j \in Jobs, j = cur[w].job, UNCHANGED push,
           \A i \in Jobs \ {j} :
              record'[i] = record[i] /\ attempts'[i] = attempts[i] /\ ran'[i] = ran[i],
           JobStory(j)',
           Busy(w)' => HandStory(w)' /\ cur'[w].job = j
    PROVE  SInv'
<1>1. \A v \in Workers \ {w} : Busy(v) => cur[v].job \in Jobs \ {j}
    <2> SUFFICES ASSUME NEW v \in Workers \ {w}, Busy(v)
                 PROVE  cur[v].job \in Jobs /\ cur[v].job # j
        OBVIOUS
    <2> QED BY BusyTypes DEF SInv, MInv, OneHandInv
<1>2. ASSUME NEW i \in Jobs PROVE JobStory(i)'
    <2>1. CASE i = j
        BY <2>1
    <2>2. CASE i # j
        <3>1. \A v \in Workers : pc[v] \in Late /\ cur[v].job = i =>
                  v # w /\ pc'[v] = pc[v] /\ cur'[v] = cur[v]
            BY <2>2 DEF Others
        <3> QED BY <2>2, <3>1 DEF SInv, JobStory
    <2> QED BY <2>1, <2>2
<1>3. ASSUME NEW v \in Workers, Busy(v)' PROVE HandStory(v)'
    <2>1. CASE v = w
        BY <1>3, <2>1
    <2>2. CASE v # w
        <3>1. /\ Busy(v) /\ pc'[v] = pc[v] /\ cur'[v] = cur[v]
              /\ cur[v].job \in Jobs \ {j}
            BY <1>1, <1>3, <2>2 DEF Others, Busy
        <3> QED BY <3>1 DEF SInv, HandStory
    <2> QED BY <2>1, <2>2
<1> QED BY <1>2, <1>3 DEF SInv

LEMMA WorkerIsBusy ==
    ASSUME NEW w \in Workers, WorkerStep(w)
    PROVE  Busy(w)
BY DEF WorkerStep, GetJob, LockKey, Start, AccessMessage, ProcessSucceeds,
       ProcessFails, CompleteRelease, CompletePut, Delete, ErrorRelease,
       ErrorPut, Busy

LEMMA WorkerKeepsSInv ==
    ASSUME SInv, MInv', Orderly, NEW w \in Workers, WorkerStep(w)
    PROVE  SInv'
<1>0. Busy(w)
    BY WorkerIsBusy
<1>j. PICK j \in Jobs : j = cur[w].job
    BY <1>0, BusyTypes
<1>1. /\ Busy(w) /\ j = cur[w].job /\ attempts[j] \in Nat
      /\ HandStory(w) /\ JobStory(j) /\ TypeOK
    BY <1>0, <1>j, BusyTypes
<1>2. CASE GetJob(w)
    <2>1. /\ Moved(w, "lock", "Queued", attempts[j])
          /\ UNCHANGED <<push, record, attempts, ran>>
          /\ record[j].state = "Queued"
        BY <1>1, <1>2, GetJobEffect
    <2>2. JobStory(j)'
        BY <1>1, <2>1 DEF JobStory
    <2>3. HandStory(w)'
        BY <1>1, <2>1 DEF Moved, HandStory, Late
    <2> QED BY <1>1, <2>1, <2>2, <2>3, StepKeepsSInv DEF Moved
<1>3. CASE LockKey(w)
    <2>1. /\ pc[w] = "lock"
          /\ \/ Moved(w, "start", cur[w].state, cur[w].tries)
             \/ Left(w)
          /\ UNCHANGED <<push, record, attempts, ran>>
        BY <1>1, <1>3, LockKeyEffect
    <2>2. JobStory(j)'
        <3>1. record[j].state # "Processing"
            BY <1>1, <2>1, NotTaken DEF SInv, Late
        <3> QED BY <1>1, <2>1, <3>1 DEF JobStory
    <2>3. Busy(w)' => HandStory(w)' /\ cur'[w].job = j
        BY <1>1, <2>1 DEF Moved, Left, Busy, HandStory, Late
    <2> QED BY <1>1, <2>1, <2>2, <2>3, StepKeepsSInv DEF Moved, Left
<1>4. CASE Start(w)
    <2>1. /\ pc[w] = "start"
          /\ Moved(w, "access", "Processing", cur[w].tries + 1)
          /\ Stored(j, "Processing", cur[w].tries + 1)
          /\ attempts'[j] = attempts[j] + 1
          /\ \A i \in Jobs \ {j} : attempts'[i] = attempts[i]
          /\ UNCHANGED <<push, ran>>
        BY <1>1, <1>4, StartEffect
    <2>2. record[j].state = "Queued"
        BY <1>1, <2>1, NotTaken DEF SInv, Late, JobStory, HandStory
    <2>3. JobStory(j)'
        BY <1>1, <2>1, <2>2, ConstantsAssumption
        DEF Moved, Stored, JobStory, HandStory, Late
    <2>4. HandStory(w)'
        BY <1>1, <2>1, <2>2 DEF Moved, Stored, JobStory, HandStory, Late
    <2> QED BY <1>1, <2>1, <2>3, <2>4, StepKeepsSInv DEF Moved, Stored
<1>5. CASE AccessMessage(w) \/ ProcessSucceeds(w) \/ ProcessFails(w)
    <2>1. /\ pc[w] \in {"access", "process"}
          /\ \/ /\ Moved(w, "process", cur[w].state, cur[w].tries)
                /\ UNCHANGED ran
             \/ /\ Moved(w, "error", cur[w].state, cur[w].tries)
                /\ UNCHANGED ran
             \/ /\ Moved(w, "release", cur[w].state, cur[w].tries)
                /\ ran' = [ran EXCEPT ![j] = TRUE]
          /\ UNCHANGED <<push, record, attempts>>
        BY <1>1, <1>5, PullJobEffect
    <2>2. record[j].state = "Processing"
        BY <1>1, <2>1 DEF HandStory, Late
    <2>3. JobStory(j)'
        BY <1>1, <2>1, <2>2 DEF Moved, JobStory, HandStory, Late
    <2>4. HandStory(w)'
        BY <1>1, <2>1, <2>2 DEF Moved, HandStory, Late
    <2>5. \A i \in Jobs \ {j} : ran'[i] = ran[i]
        BY <1>1, <2>1 DEF TypeOK
    <2> QED BY <1>1, <2>1, <2>3, <2>4, <2>5, StepKeepsSInv DEF Moved
<1>6. CASE CompleteRelease(w) \/ ErrorRelease(w)
    <2>1. /\ \/ /\ pc[w] = "release"
                /\ Moved(w, "completePut", "Complete", cur[w].tries)
             \/ /\ pc[w] = "error"
                /\ Moved(w, "errorPut",
                         IF cur[w].tries < MaxTries THEN "Queued" ELSE "Error",
                         cur[w].tries)
          /\ UNCHANGED <<push, record, attempts, ran>>
        BY <1>1, <1>6, ReleaseEffect
    <2>2. JobStory(j)'
        BY <1>1, <2>1 DEF Moved, JobStory, HandStory, Late
    <2>3. HandStory(w)'
        BY <1>1, <2>1 DEF Moved, HandStory, Late
    <2> QED BY <1>1, <2>1, <2>2, <2>3, StepKeepsSInv DEF Moved
<1>7. CASE CompletePut(w) \/ ErrorPut(w)
    <2>1. /\ Stored(j, cur[w].state, cur[w].tries)
          /\ \/ /\ pc[w] = "completePut" /\ cur[w].state = "Complete"
                /\ Moved(w, "delete", cur[w].state, cur[w].tries)
             \/ /\ pc[w] = "errorPut" /\ cur[w].state = "Error"
                /\ Moved(w, "delete", cur[w].state, cur[w].tries)
             \/ /\ pc[w] = "errorPut" /\ cur[w].state = "Queued"
                /\ Left(w)
          /\ UNCHANGED <<push, attempts, ran>>
        BY <1>1, <1>7, PutEffect
    <2>2. JobStory(j)'
        BY <1>1, <2>1 DEF Stored, JobStory, HandStory, Late
    <2>3. Busy(w)' => HandStory(w)' /\ cur'[w].job = j
        BY <1>1, <2>1 DEF Moved, Left, Stored, Busy, HandStory, Late, Final
    <2> QED BY <1>1, <2>1, <2>2, <2>3, StepKeepsSInv DEF Moved, Left, Stored
<1>8. CASE Delete(w)
    <2>1. /\ pc[w] = "delete" /\ Left(w)
          /\ UNCHANGED <<push, record, attempts, ran>>
        BY <1>1, <1>8, DeleteEffect
    <2>2. record[j].state # "Processing"
        BY <1>1, <2>1 DEF HandStory, Final
    <2>3. JobStory(j)'
        BY <1>1, <2>1, <2>2 DEF JobStory
    <2> QED BY <1>1, <2>1, <2>3, StepKeepsSInv DEF Left, Busy
<1> QED BY <1>2, <1>3, <1>4, <1>5, <1>6, <1>7, <1>8 DEF WorkerStep

\* A job whose push is under way is in nobody's hands.
LEMMA PushKeepsSInv ==
    ASSUME SInv, MInv', NEW j \in Jobs, PushStep(j)
    PROVE  SInv'
<1>1. /\ push[j] # "done" /\ TypeOK
      /\ UNCHANGED <<pc, cur, attempts, ran>>
    BY DEF PushStep, PushPutCreated, PushWrite, PushPutQueued, SInv, MInv, IInv
<1>2. \A i \in Jobs \ {j} : push'[i] = push[i] /\ record'[i] = record[i]
    BY <1>1 DEF PushStep, PushPutCreated, PushWrite, PushPutQueued, Put, TypeOK
<1>3. \/ push'[j] # "done" /\ record'[j].state \in {"None", "Created"}
      \/ push'[j] = "done" /\ record'[j].state = "Queued"
    <2>1. CASE PushPutCreated(j)
        BY <1>1, <2>1 DEF PushPutCreated, Put, TypeOK
    <2>2. CASE PushWrite(j)
        BY <1>1, <2>2 DEF PushWrite, TypeOK, SInv, JobStory
    <2>3. CASE PushPutQueued(j)
        BY <1>1, <2>3 DEF PushPutQueued, Put, TypeOK
    <2> QED BY <2>1, <2>2, <2>3 DEF PushStep
<1>4. record'[j].tries = 0
    <2>1. record[j].tries = 0
        BY <1>1 DEF SInv, JobStory
    <2> QED BY <1>1, <2>1
            DEF PushStep, PushPutCreated, PushWrite, PushPutQueued, Put, TypeOK
<1>5. ASSUME NEW i \in Jobs PROVE JobStory(i)'
    <2>1. CASE i = j
        BY <1>1, <1>3, <1>4, <2>1, ConstantsAssumption DEF SInv, JobStory
    <2>2. CASE i # j
        BY <1>1, <1>2, <2>2 DEF SInv, JobStory
    <2> QED BY <2>1, <2>2
<1>6. ASSUME NEW w \in Workers, Busy(w)' PROVE HandStory(w)'
    <2>1. Busy(w) /\ HandStory(w) /\ cur[w].job \in Jobs
        BY <1>1, <1>6, BusyTypes DEF Busy
    <2>2. cur[w].job # j
        BY <1>1, <2>1 DEF HandStory
    <2> QED BY <1>1, <1>2, <2>1, <2>2 DEF HandStory
<1> QED BY <1>5, <1>6 DEF SInv

LEMMA ReadKeepsSInv ==
    ASSUME SInv, MInv', Orderly, NEW w \in Workers, NEW j \in Jobs, Read(w, j)
    PROVE  SInv'
<1>1. /\ push[j] = "done" /\ TypeOK /\ ~Busy(w)
      /\ UNCHANGED <<push, record, attempts, ran>>
    BY DEF Read, Orderly, Busy, SInv, MInv, IInv
<1>2. Others(w) /\ pc'[w] = "get" /\ cur'[w].job = j
    BY <1>1 DEF Read, GoTo, Others, TypeOK, Copy
<1>3. ASSUME NEW i \in Jobs PROVE JobStory(i)'
    <2>1. \A v \in Workers : pc[v] \in Late =>
              v # w /\ pc'[v] = pc[v] /\ cur'[v] = cur[v]
        BY <1>1, <1>2 DEF Others, Busy, Late
    <2> QED BY <1>1, <2>1 DEF SInv, JobStory
<1>4. ASSUME NEW v \in Workers, Busy(v)' PROVE HandStory(v)'
    <2>1. CASE v = w
        BY <1>1, <1>2, <2>1 DEF HandStory, Late
    <2>2. CASE v # w
        <3>1. pc'[v] = pc[v] /\ cur'[v] = cur[v]
            BY <1>2, <2>2 DEF Others
        <3> QED BY <1>1, <1>4, <3>1 DEF SInv, HandStory, Busy
    <2> QED BY <2>1, <2>2
<1> QED BY <1>3, <1>4 DEF SInv

\* Time does not touch what the invariant is about.
LEMMA TickKeepsSInv ==
    ASSUME SInv, MInv', Tick
    PROVE  SInv'
<1>1. /\ UNCHANGED <<push, pc, cur, attempts, ran>> /\ TypeOK
    BY DEF Tick, SInv, MInv, IInv
<1>2. \A j \in Jobs : /\ record'[j].state = record[j].state
                      /\ record'[j].tries = record[j].tries
    BY <1>1, TickAges
<1>3. \A j \in Jobs : JobStory(j)'
    BY <1>1, <1>2 DEF SInv, JobStory
<1>4. ASSUME NEW w \in Workers, Busy(w)' PROVE HandStory(w)'
    <2>1. Busy(w) /\ HandStory(w) /\ cur[w].job \in Jobs
        BY <1>1, <1>4, BusyTypes DEF Busy
    <2> QED BY <1>1, <1>2, <2>1 DEF HandStory
<1> QED BY <1>3, <1>4 DEF SInv

LEMMA InitSInv == Init => SInv
<1> SUFFICES ASSUME Init PROVE SInv
    OBVIOUS
<1>1. \A j \in Jobs : JobStory(j)
    BY ConstantsAssumption DEF Init, JobStory
<1>2. \A w \in Workers : ~Busy(w)
    BY DEF Init, Busy
<1> QED BY <1>1, <1>2, InitMInv DEF SInv

LEMMA NoFaults == ASSUME Orderly, FaultStep PROVE FALSE
BY DEF FaultStep, Crash, CallThrows, StaleGet, AccessRefused, ErrorBehaviorFails,
       PushCrash, Redeliver, Fault, Orderly, Undisturbed

LEMMA NextKeepsSInv ==
    ASSUME Orderly, SInv, [Next]_vars
    PROVE  SInv'
<1>1. MInv'
    BY NextKeepsMInv DEF SInv, Orderly
<1>2. CASE UNCHANGED vars
    BY <1>1, <1>2 DEF vars, SInv, JobStory, HandStory, Busy
<1>3. CASE \E j \in Jobs : PushStep(j)
    BY <1>1, <1>3, PushKeepsSInv
<1>4. CASE \E w \in Workers, j \in Jobs : Read(w, j)
    BY <1>1, <1>4, ReadKeepsSInv
<1>5. CASE \E w \in Workers : WorkerStep(w)
    BY <1>1, <1>5, WorkerKeepsSInv
<1>6. CASE Tick
    BY <1>1, <1>6, TickKeepsSInv
<1> QED BY <1>2, <1>3, <1>4, <1>5, <1>6, NoFaults DEF Next

\* The inductive invariant: where a job stands is in its record, or in the hands
\* of the one worker that has it, and its tries are its attempts.
THEOREM OrderlyInvariant == ASSUME Orderly PROVE Spec => []SInv
<1>1. SInv /\ [Next]_vars => SInv'
    BY NextKeepsSInv
<1> QED BY <1>1, InitSInv, PTL DEF Spec

-----------------------------------------------------------------------------
(* The refinement mapping                                                  *)

Outside == {"idle", "get", "lock", "start"}

\* StatusOf as a function of the variables it depends on, so that what is said
\* of it can be said of both states of a step.
HandsIn(p, c, j) == {w \in Workers : c[w].job = j /\ p[w] \notin Outside}

StatusIn(p, c, r, j) ==
    IF HandsIn(p, c, j) = {} THEN Stage(r[j].state)
    ELSE Stage(c[CHOOSE w \in HandsIn(p, c, j) : TRUE].state)

LEMMA StatusIsIn ==
    ASSUME NEW j \in Jobs
    PROVE  /\ StatusOf(j) = StatusIn(pc, cur, record, j)
           /\ StatusOf(j)' = StatusIn(pc', cur', record', j)
BY DEF StatusOf, Hands, StatusIn, HandsIn, Outside

LEMMA InNoHand ==
    ASSUME NEW p, NEW c, NEW r, NEW j,
           \A v \in Workers : c[v].job = j => p[v] \in Outside
    PROVE  StatusIn(p, c, r, j) = Stage(r[j].state)
BY DEF StatusIn, HandsIn

\* The worker that has a job in hand is the only one, so the job stands where
\* the worker's instance is, before the step and after it.
LEMMA StatusBefore ==
    ASSUME SInv, NEW w \in Workers, Busy(w), NEW j \in Jobs, j = cur[w].job
    PROVE  /\ pc[w] \in Late => StatusOf(j) = Stage(cur[w].state)
           /\ pc[w] \notin Late => StatusOf(j) = Stage(record[j].state)
<1>1. \A v \in Workers \ {w} : cur[v].job = j => pc[v] = "idle"
    BY DEF SInv, MInv, OneHandInv, Busy
<1>2. pc[w] \in PC
    BY BusyTypes DEF TypeOK
<1>3. ASSUME pc[w] \in Late
      PROVE  StatusOf(j) = Stage(cur[w].state)
    <2>1. HandsIn(pc, cur, j) = {w}
        BY <1>1, <1>3 DEF HandsIn, Late, Outside
    <2>2. StatusIn(pc, cur, record, j) = Stage(cur[w].state)
        BY <2>1 DEF StatusIn
    <2> QED BY <2>2, StatusIsIn
<1>4. ASSUME pc[w] \notin Late
      PROVE  StatusOf(j) = Stage(record[j].state)
    <2>1. \A v \in Workers : cur[v].job = j => pc[v] \in Outside
        BY <1>1, <1>2, <1>4 DEF Late, Outside, PC
    <2>2. StatusIn(pc, cur, record, j) = Stage(record[j].state)
        BY <2>1, InNoHand
    <2> QED BY <2>2, StatusIsIn
<1> QED BY <1>3, <1>4

LEMMA StatusAfter ==
    ASSUME SInv, NEW w \in Workers, Busy(w), NEW j \in Jobs, j = cur[w].job,
           Others(w)
    PROVE  /\ pc'[w] \in Late /\ cur'[w].job = j =>
                 StatusOf(j)' = Stage(cur'[w].state)
           /\ pc'[w] \in Outside => StatusOf(j)' = Stage(record'[j].state)
<1>1. \A v \in Workers \ {w} : cur'[v].job = j => pc'[v] = "idle"
    BY DEF Others, SInv, MInv, OneHandInv, Busy
<1>2. ASSUME pc'[w] \in Late, cur'[w].job = j
      PROVE  StatusOf(j)' = Stage(cur'[w].state)
    <2>1. HandsIn(pc', cur', j) = {w}
        BY <1>1, <1>2 DEF HandsIn, Late, Outside
    <2>2. StatusIn(pc', cur', record', j) = Stage(cur'[w].state)
        BY <2>1 DEF StatusIn
    <2> QED BY <2>2, StatusIsIn
<1>3. ASSUME pc'[w] \in Outside
      PROVE  StatusOf(j)' = Stage(record'[j].state)
    <2>1. \A v \in Workers : cur'[v].job = j => pc'[v] \in Outside
        BY <1>1, <1>3 DEF Outside
    <2>2. StatusIn(pc', cur', record', j) = Stage(record'[j].state)
        BY <2>1, InNoHand
    <2> QED BY <2>2, StatusIsIn
<1> QED BY <1>2, <1>3

LEMMA StageIs ==
    /\ Stage("None") = "absent" /\ Stage("Created") = "absent"
    /\ Stage("Queued") = "queued" /\ Stage("Processing") = "processing"
    /\ Stage("Complete") = "complete" /\ Stage("Error") = "error"
BY DEF Stage

\* A job nobody acts on stands where it stood.
LEMMA StatusElsewhere ==
    ASSUME NEW i \in Jobs, record'[i].state = record[i].state,
           \A v \in Workers :
              \/ cur'[v] = cur[v] /\ pc'[v] = pc[v]
              \/ /\ cur[v].job = i => pc[v] \in Outside
                 /\ cur'[v].job = i => pc'[v] \in Outside
    PROVE  StatusOf(i)' = StatusOf(i)
<1>1. HandsIn(pc', cur', i) = HandsIn(pc, cur, i)
    BY DEF HandsIn
<1>2. \A v \in HandsIn(pc, cur, i) : cur'[v].state = cur[v].state
    BY DEF HandsIn
<1>3. HandsIn(pc, cur, i) # {} =>
         (CHOOSE w \in HandsIn(pc, cur, i) : TRUE) \in HandsIn(pc, cur, i)
    OBVIOUS
<1> QED BY <1>1, <1>2, <1>3, StatusIsIn DEF StatusIn

-----------------------------------------------------------------------------
(* Every step is a step of the service or none                             *)

Elsewhere(j) ==
    \A i \in Jobs \ {j} :
        StatusOf(i)' = StatusOf(i) /\ record'[i].tries = record[i].tries

ServiceVars == <<[j \in Jobs |-> StatusOf(j)], [j \in Jobs |-> record[j].tries]>>

LEMMA StutterStep ==
    ASSUME NEW j \in Jobs, Elsewhere(j), StatusOf(j)' = StatusOf(j),
           record'[j].tries = record[j].tries
    PROVE  UNCHANGED ServiceVars
BY DEF Elsewhere, ServiceVars

LEMMA SubmitStep ==
    ASSUME NEW j \in Jobs, Elsewhere(j), record'[j].tries = record[j].tries,
           StatusOf(j) = "absent", StatusOf(j)' = "queued"
    PROVE  Service!Submit(j)
BY DEF Elsewhere, Service!Submit

LEMMA TakeStep ==
    ASSUME NEW j \in Jobs, Elsewhere(j), record'[j].tries = record[j].tries + 1,
           StatusOf(j) = "queued", StatusOf(j)' = "processing",
           \A i \in Jobs : StatusOf(i) = "processing" => KeyOf[i] # KeyOf[j]
    PROVE  Service!Take(j)
BY DEF Elsewhere, Service!Take, Service!KeyBusy, Service!StartWork

LEMMA FinishStep ==
    ASSUME NEW j \in Jobs, Elsewhere(j), record'[j].tries = record[j].tries,
           StatusOf(j) = "processing", StatusOf(j)' = "complete"
    PROVE  Service!Finish(j)
BY DEF Elsewhere, Service!Finish

LEMMA FailStep ==
    ASSUME NEW j \in Jobs, Elsewhere(j), record'[j].tries = record[j].tries,
           StatusOf(j) = "processing",
           StatusOf(j)' = IF record[j].tries < MaxTries THEN "queued" ELSE "error"
    PROVE  Service!Fail(j)
BY DEF Elsewhere, Service!Fail

\* A job in work is in the hands of a worker that holds its key.
LEMMA InWorkHoldsKey ==
    ASSUME SInv, NEW i \in Jobs, StatusOf(i) = "processing"
    PROVE  \E v \in Workers : pc[v] \in Holding \cap Late /\ cur[v].job = i
<1>1. PICK v \in Workers : pc[v] \in Late /\ cur[v].job = i
    <2>1. SUFFICES ASSUME \A v \in Workers : cur[v].job = i => pc[v] \notin Late
                   PROVE  FALSE
        OBVIOUS
    <2>2. \A v \in Workers : cur[v].job = i => pc[v] \in Outside
        BY <2>1 DEF Late, Outside, PC, SInv, MInv, IInv, TypeOK
    <2>3. StatusOf(i) = Stage(record[i].state)
        BY <2>2, InNoHand, StatusIsIn
    <2>4. record[i].state \in JobState \cup {"None"}
        BY DEF SInv, MInv, IInv, TypeOK, Record
    <2>5. record[i].state = "Processing"
        BY <2>3, <2>4, StageIs DEF JobState
    <2> QED BY <2>1, <2>5 DEF SInv, JobStory
<1>2. /\ Busy(v) /\ HandStory(v) /\ Good(pc[v], cur[v])
      /\ cur[v].state \in JobState
    BY <1>1, BusyTypes DEF Busy, Late
<1>3. cur[v].state = "Processing"
    <2>1. Stage(cur[v].state) = "processing"
        BY <1>1, <1>2, StatusBefore
    <2> QED BY <1>2, <2>1, StageIs DEF JobState
<1>4. pc[v] \notin {"completePut", "delete", "errorPut"}
    BY <1>2, <1>3 DEF Good, HandStory, Final
<1> QED BY <1>1, <1>4 DEF Late, Holding

\* A worker's step leaves every job but its own where it stood.
LEMMA WorkerElsewhere ==
    ASSUME NEW w \in Workers, NEW j \in Jobs, j = cur[w].job, Others(w),
           cur'[w].job = j \/ pc'[w] = "idle",
           \A i \in Jobs \ {j} : record'[i] = record[i]
    PROVE  Elsewhere(j)
<1> SUFFICES ASSUME NEW i \in Jobs \ {j}
             PROVE  StatusOf(i)' = StatusOf(i)
    BY DEF Elsewhere
<1>1. \A v \in Workers :
          \/ cur'[v] = cur[v] /\ pc'[v] = pc[v]
          \/ /\ cur[v].job = i => pc[v] \in Outside
             /\ cur'[v].job = i => pc'[v] \in Outside
    BY DEF Others, Outside
<1> QED BY <1>1, StatusElsewhere

LEMMA WorkerImplements ==
    ASSUME SInv, Orderly, NEW w \in Workers, WorkerStep(w)
    PROVE  [Service!ServiceNext]_ServiceVars
<1>0. Busy(w)
    BY WorkerIsBusy
<1>j. PICK j \in Jobs : j = cur[w].job
    BY <1>0, BusyTypes
<1>1. /\ Busy(w) /\ j = cur[w].job /\ attempts[j] \in Nat
      /\ HandStory(w) /\ JobStory(j) /\ Good(pc[w], cur[w])
    BY <1>0, <1>j, BusyTypes
<1>2. CASE GetJob(w)
    <2>1. /\ Moved(w, "lock", "Queued", attempts[j])
          /\ record[j].state = "Queued" /\ UNCHANGED record
          /\ pc[w] \notin Late
        BY <1>1, <1>2, GetJobEffect DEF GetJob, Late
    <2>2. Elsewhere(j)
        BY <1>1, <2>1, WorkerElsewhere DEF Moved
    <2>3. StatusOf(j)' = StatusOf(j)
        BY <1>1, <2>1, StatusBefore, StatusAfter DEF Moved, Outside
    <2> QED BY <2>1, <2>2, <2>3, StutterStep
<1>3. CASE LockKey(w)
    <2>1. /\ pc[w] \notin Late /\ pc'[w] \in Outside /\ Others(w)
          /\ cur'[w].job = j \/ pc'[w] = "idle"
          /\ UNCHANGED record
        BY <1>1, <1>3, LockKeyEffect DEF Moved, Left, Late, Outside
    <2>2. Elsewhere(j)
        BY <1>1, <2>1, WorkerElsewhere
    <2>3. StatusOf(j)' = StatusOf(j)
        BY <1>1, <2>1, StatusBefore, StatusAfter
    <2> QED BY <2>1, <2>2, <2>3, StutterStep
<1>4. CASE Start(w)
    <2>1. /\ pc[w] = "start" /\ pc[w] \notin Late
          /\ Moved(w, "access", "Processing", cur[w].tries + 1)
          /\ Stored(j, "Processing", cur[w].tries + 1)
        BY <1>1, <1>4, StartEffect DEF Late
    <2>2. Elsewhere(j)
        BY <1>1, <2>1, WorkerElsewhere DEF Moved, Stored
    <2>3. record[j].state = "Queued" /\ cur[w].tries = record[j].tries
        BY <1>1, <2>1, NotTaken DEF SInv, JobStory, HandStory
    <2>4. StatusOf(j) = "queued" /\ StatusOf(j)' = "processing"
        <3>1. pc'[w] \in Late /\ cur'[w].job = j /\ cur'[w].state = "Processing"
            BY <1>1, <2>1 DEF Moved, Late
        <3>2. StatusOf(j) = Stage("Queued") /\ StatusOf(j)' = Stage("Processing")
            BY <1>1, <2>1, <2>3, <3>1, StatusBefore, StatusAfter DEF Moved
        <3> QED BY <3>2, StageIs
    <2>5. ASSUME NEW i \in Jobs, StatusOf(i) = "processing"
          PROVE  KeyOf[i] # KeyOf[j]
        <3>1. PICK v \in Workers : pc[v] \in Holding \cap Late /\ cur[v].job = i
            BY <2>5, InWorkHoldsKey
        <3>2. v # w /\ pc[w] \in Holding
            BY <2>1, <3>1 DEF Holding
        <3> QED BY <1>1, <3>1, <3>2 DEF SInv, MInv, OneKeyInv
    <2>6. record'[j].tries = record[j].tries + 1
        BY <2>1, <2>3 DEF Stored
    <2>7. Service!Take(j)
        BY <2>2, <2>4, <2>5, <2>6, TakeStep
    <2> QED BY <2>7 DEF Service!ServiceNext
<1>5. CASE AccessMessage(w) \/ ProcessSucceeds(w) \/ ProcessFails(w)
    <2>1. /\ pc[w] \in Late /\ pc'[w] \in Late /\ Others(w)
          /\ cur'[w].job = j /\ cur'[w].state = cur[w].state
          /\ UNCHANGED record
        BY <1>1, <1>5, PullJobEffect DEF Moved, Late
    <2>2. Elsewhere(j)
        BY <1>1, <2>1, WorkerElsewhere
    <2>3. StatusOf(j)' = StatusOf(j)
        BY <1>1, <2>1, StatusBefore, StatusAfter
    <2> QED BY <2>1, <2>2, <2>3, StutterStep
<1>6. CASE CompleteRelease(w) \/ ErrorRelease(w)
    <2>1. /\ cur[w].state = "Processing" /\ pc[w] \in Late /\ pc'[w] \in Late
          /\ Others(w) /\ cur'[w].job = j
          /\ cur'[w].state \in
                {"Complete", IF cur[w].tries < MaxTries THEN "Queued" ELSE "Error"}
          /\ pc[w] # "get" /\ UNCHANGED record
        BY <1>1, <1>6, ReleaseEffect DEF Moved, Late
    <2>2. Elsewhere(j)
        BY <1>1, <2>1, WorkerElsewhere
    <2>3. /\ StatusOf(j) = Stage("Processing")
          /\ StatusOf(j)' = Stage(cur'[w].state)
        BY <1>1, <2>1, StatusBefore, StatusAfter
    <2>4. cur[w].tries = record[j].tries
        BY <1>1, <2>1 DEF HandStory, JobStory
    <2>5. CASE cur'[w].state = "Complete"
        <3>1. Service!Finish(j)
            BY <2>1, <2>2, <2>3, <2>5, StageIs, FinishStep
        <3> QED BY <3>1 DEF Service!ServiceNext
    <2>6. CASE cur'[w].state = IF cur[w].tries < MaxTries THEN "Queued" ELSE "Error"
        <3>1. StatusOf(j)' = IF record[j].tries < MaxTries THEN "queued" ELSE "error"
            BY <2>3, <2>4, <2>6, StageIs
        <3>2. Service!Fail(j)
            BY <2>1, <2>2, <2>3, <3>1, StageIs, FailStep
        <3> QED BY <3>2 DEF Service!ServiceNext
    <2> QED BY <2>1, <2>5, <2>6
<1>7. CASE CompletePut(w) \/ ErrorPut(w)
    <2>1. /\ Stored(j, cur[w].state, cur[w].tries)
          /\ pc[w] \in Late /\ pc[w] # "get" /\ Others(w)
          /\ \/ /\ pc'[w] \in Late /\ cur'[w].job = j
                /\ cur'[w].state = cur[w].state
             \/ pc'[w] = "idle"
        BY <1>1, <1>7, PutEffect DEF Moved, Left, Late
    <2>2. Elsewhere(j)
        BY <1>1, <2>1, WorkerElsewhere DEF Stored
    <2>3. StatusOf(j)' = StatusOf(j)
        BY <1>1, <2>1, StatusBefore, StatusAfter DEF Stored, Outside
    <2>4. record'[j].tries = record[j].tries
        BY <1>1, <2>1 DEF Stored, HandStory, JobStory
    <2> QED BY <2>2, <2>3, <2>4, StutterStep
<1>8. CASE Delete(w)
    <2>1. /\ pc[w] = "delete" /\ pc[w] \in Late /\ Left(w) /\ UNCHANGED record
        BY <1>8, DeleteEffect DEF Late
    <2>2. Elsewhere(j)
        BY <1>1, <2>1, WorkerElsewhere DEF Left
    <2>3. StatusOf(j)' = StatusOf(j)
        BY <1>1, <2>1, StatusBefore, StatusAfter DEF Left, Outside, HandStory
    <2> QED BY <2>1, <2>2, <2>3, StutterStep
<1> QED BY <1>2, <1>3, <1>4, <1>5, <1>6, <1>7, <1>8 DEF WorkerStep

LEMMA PushImplements ==
    ASSUME SInv, NEW j \in Jobs, PushStep(j)
    PROVE  [Service!ServiceNext]_ServiceVars
<1>1. /\ push[j] # "done" /\ JobStory(j) /\ TypeOK
      /\ UNCHANGED <<pc, cur>>
    BY DEF PushStep, PushPutCreated, PushWrite, PushPutQueued, SInv, MInv, IInv
<1>2. \A i \in Jobs \ {j} : record'[i] = record[i]
    BY <1>1 DEF PushStep, PushPutCreated, PushWrite, PushPutQueued, Put, TypeOK
<1>3. Elsewhere(j)
    BY <1>1, <1>2, StatusElsewhere DEF Elsewhere
<1>4. \A v \in Workers : cur[v].job = j => pc[v] \in Outside
    BY <1>1 DEF SInv, HandStory, Busy, Outside
<1>5. StatusOf(j) = "absent"
    <2>1. StatusOf(j) = Stage(record[j].state)
        BY <1>4, InNoHand, StatusIsIn
    <2> QED BY <1>1, <2>1, StageIs DEF JobStory
<1>6. StatusOf(j)' = Stage(record'[j].state)
    <2>1. \A v \in Workers : cur'[v].job = j => pc'[v] \in Outside
        BY <1>1, <1>4
    <2>2. StatusIn(pc', cur', record', j) = Stage(record'[j].state)
        BY <2>1, InNoHand
    <2> QED BY <2>2, StatusIsIn
<1>7. record[j].tries = 0
    BY <1>1 DEF JobStory
<1>8. CASE PushPutCreated(j) \/ PushWrite(j)
    <2>1. record'[j].state \in {"None", "Created"} /\ record'[j].tries = 0
        BY <1>1, <1>7, <1>8 DEF PushPutCreated, PushWrite, Put, TypeOK, JobStory
    <2> QED BY <1>3, <1>5, <1>6, <1>7, <2>1, StageIs, StutterStep
<1>9. CASE PushPutQueued(j)
    <2>1. record'[j].state = "Queued" /\ record'[j].tries = 0
        BY <1>1, <1>9 DEF PushPutQueued, Put, TypeOK
    <2>2. Service!Submit(j)
        BY <1>3, <1>5, <1>6, <1>7, <2>1, StageIs, SubmitStep
    <2> QED BY <2>2 DEF Service!ServiceNext
<1> QED BY <1>8, <1>9 DEF PushStep

\* A read and a tick change nothing the service knows of.
LEMMA ReadTickImplement ==
    ASSUME SInv, Tick \/ \E w \in Workers, j \in Jobs : Read(w, j)
    PROVE  UNCHANGED ServiceVars
<1> SUFFICES ASSUME NEW i \in Jobs
             PROVE  StatusOf(i)' = StatusOf(i) /\ record'[i].tries = record[i].tries
    BY DEF ServiceVars
<1>1. record'[i].state = record[i].state /\ record'[i].tries = record[i].tries
    BY TickAges DEF Read, SInv, MInv, IInv
<1>2. \A v \in Workers :
          \/ cur'[v] = cur[v] /\ pc'[v] = pc[v]
          \/ /\ cur[v].job = i => pc[v] \in Outside
             /\ cur'[v].job = i => pc'[v] \in Outside
    <2>1. CASE Tick
        BY <2>1 DEF Tick
    <2>2. CASE \E w \in Workers, j \in Jobs : Read(w, j)
        BY <2>2 DEF Read, GoTo, Outside, SInv, MInv, IInv, TypeOK
    <2> QED BY <2>1, <2>2
<1> QED BY <1>1, <1>2, StatusElsewhere

LEMMA NextImplements ==
    ASSUME Orderly, SInv, [Next]_vars
    PROVE  [Service!ServiceNext]_ServiceVars
<1>1. CASE UNCHANGED vars
    BY <1>1 DEF vars, ServiceVars, StatusOf, Hands
<1>2. CASE \E j \in Jobs : PushStep(j)
    BY <1>2, PushImplements
<1>3. CASE Tick \/ \E w \in Workers, j \in Jobs : Read(w, j)
    BY <1>3, ReadTickImplement
<1>4. CASE \E w \in Workers : WorkerStep(w)
    BY <1>4, WorkerImplements
<1> QED BY <1>1, <1>2, <1>3, <1>4, NoFaults DEF Next

LEMMA InitImplements == Init => Service!ServiceInit
<1> SUFFICES ASSUME Init PROVE Service!ServiceInit
    OBVIOUS
<1>1. \A j \in Jobs : StatusOf(j) = "absent"
    <2> SUFFICES ASSUME NEW j \in Jobs PROVE StatusOf(j) = "absent"
        OBVIOUS
    <2>1. \A v \in Workers : cur[v].job = j => pc[v] \in Outside
        BY DEF Init, Outside
    <2>2. StatusOf(j) = Stage("None")
        BY <2>1, InNoHand, StatusIsIn DEF Init
    <2> QED BY <2>2, StageIs
<1>2. \A j \in Jobs : record[j].tries = 0
    BY DEF Init
<1> QED BY <1>1, <1>2 DEF Service!ServiceInit

-----------------------------------------------------------------------------
(* The theorems                                                            *)

\* The tries stored with a job, by which pullJob gives up, are the attempts
\* that were made, and there are never more than MaxTries of them.
THEOREM TriesCountAttempts == ASSUME Orderly PROVE Spec => []TriesAreAttempts
<1>1. SInv => TriesAreAttempts
    BY DEF SInv, JobStory, TriesAreAttempts
<1> QED BY <1>1, OrderlyInvariant, PTL

\* A job whose behavior was applied is not started again, and a job that was
\* stored as Complete or Error stays so.
THEOREM EndsAreKept == ASSUME Orderly PROVE Spec => DoneIsDone
<1> DEFINE Step == \A j \in Jobs :
              /\ ran[j] => attempts'[j] = attempts[j]
              /\ record[j].state \in Final => record'[j].state = record[j].state
<1>1. SInv /\ [Next]_vars => [Step]_vars
    <2> SUFFICES ASSUME SInv, [Next]_vars, NEW j \in Jobs
                 PROVE  /\ ran[j] => attempts'[j] = attempts[j]
                        /\ record[j].state \in Final =>
                              record'[j].state = record[j].state
        OBVIOUS
    <2>0. JobStory(j) /\ TypeOK
        BY DEF SInv, MInv, IInv
    <2>1. CASE UNCHANGED vars
        BY <2>1 DEF vars
    <2>2. CASE \E i \in Jobs : PushStep(i)
        <3>1. PICK i \in Jobs : PushStep(i)
            BY <2>2
        <3>2. push[i] # "done" /\ UNCHANGED attempts
            BY <3>1 DEF PushStep, PushPutCreated, PushWrite, PushPutQueued
        <3>3. i # j => record'[j] = record[j]
            BY <3>1, <2>0
            DEF PushStep, PushPutCreated, PushWrite, PushPutQueued, Put, TypeOK
        <3> QED BY <2>0, <3>2, <3>3 DEF JobStory, Final
    <2>3. CASE \E w \in Workers, i \in Jobs : Read(w, i)
        BY <2>3 DEF Read
    <2>4. CASE \E w \in Workers : WorkerStep(w)
        <3>1. PICK w \in Workers : WorkerStep(w)
            BY <2>4
        <3>2. /\ Busy(w) /\ HandStory(w) /\ JobStory(cur[w].job)
              /\ cur[w].job \in Jobs
            BY <3>1, WorkerIsBusy, BusyTypes
        <3>3. CASE Start(w)
            <4>1. record[cur[w].job].state = "Queued"
                BY <3>2, <3>3, NotTaken DEF Start, SInv, Late, JobStory, HandStory
            <4> QED BY <2>0, <3>3, <4>1, StartEffect DEF Stored, JobStory, Final
        <3>4. CASE CompletePut(w) \/ ErrorPut(w)
            <4>1. record[cur[w].job].state = "Processing"
                BY <3>2, <3>4, PutEffect DEF HandStory, Late
            <4> QED BY <3>4, <4>1, PutEffect DEF Stored, Final
        <3>5. CASE ~(Start(w) \/ CompletePut(w) \/ ErrorPut(w))
            BY <3>1, <3>5 DEF WorkerStep, GetJob, LockKey, AccessMessage,
               ProcessSucceeds, ProcessFails, CompleteRelease, ErrorRelease, Delete
        <3> QED BY <3>3, <3>4, <3>5
    <2>5. CASE Tick
        BY <2>0, <2>5, TickAges DEF Tick
    <2> QED BY <2>1, <2>2, <2>3, <2>4, <2>5, NoFaults DEF Next
<1> QED BY <1>1, OrderlyInvariant, PTL DEF Spec, DoneIsDone

\* The queue implements the service it promises to its callers.
THEOREM QueueImplementsService == ASSUME Orderly PROVE Spec => ImplementsService
<1>1. SInv /\ [Next]_vars => [Service!ServiceNext]_ServiceVars
    BY NextImplements
<1> QED BY <1>1, InitImplements, OrderlyInvariant, PTL
        DEF Spec, ImplementsService, Service!ServiceSpec, ServiceVars
=============================================================================
