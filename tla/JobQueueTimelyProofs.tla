------------------------ MODULE JobQueueTimelyProofs ------------------------
(***************************************************************************)
(* What JobQueue guarantees, with either transport and either cache, as    *)
(* long as one call of pullJob takes less than the five seconds in which a *)
(* job counts as recently modified (Queue.java:118) and every worker gets  *)
(* to the end of its job: Complete means that the behavior was applied,    *)
(* however many workers have read the job.                                 *)
(***************************************************************************)
EXTENDS JobQueueProofs

\* Messages may be delivered again, read early or late, calls in the try block
\* may throw and keys may stay locked.  No worker dies or returns early, and no
\* read is stale.
Timely ==
    /\ WorkLimit < FreshFor
    /\ Hazards \subseteq {"slowPush", "earlyRead", "redeliver", "throw", "leak"}

-----------------------------------------------------------------------------
(* The inductive invariant, on top of IInv                                 *)

\* From the put of Processing to the put that ends the attempt.
Trying == {"access", "process", "error", "errorPut"}

\* Worker w is about to end the attempt for which j was last put, or an older
\* one.
InTime(w, j) ==
    /\ pc[w] \in Trying
    /\ cur[w].job = j
    /\ record[j].fresh + spent[w] >= FreshFor

\* The instance of worker w is Processing while it tries, and is not taken to
\* Complete unless its behavior was applied.
Sound(w) ==
    /\ pc[w] \in {"get", "lock", "start", "access", "error", "errorPut"} => ~cur[w].inTry
    /\ pc[w] \in {"access", "process"} => cur[w].state = "Processing"
    /\ pc[w] = "error" => cur[w].state = "Processing" \/ ran[cur[w].job]
    /\ pc[w] = "errorPut" => cur[w].state \in {"Queued", "Error"}
    /\ pc[w] = "release" /\ (cur[w].state = "Processing" \/ cur[w].inTry)
          => ran[cur[w].job]
    /\ pc[w] = "completePut" => ran[cur[w].job]
    /\ pc[w] = "delete" /\ cur[w].inTry => ran[cur[w].job]

\* A job that is Processing was applied, or a worker is still trying it.
Tried(j) ==
    /\ record[j].state = "Complete" => ran[j]
    /\ record[j].state = "Processing" /\ ~ran[j] => \E w \in Workers : InTime(w, j)

TInv ==
    /\ IInv
    /\ \A w \in Workers : Sound(w)
    /\ \A j \in Jobs : Tried(j)

-----------------------------------------------------------------------------
(* Lemmas                                                                  *)

\* The worker that moves, and the others, which stay.
LEMMA OneMoves ==
    ASSUME IInv, NEW w \in Workers,
           GoIdle(w)
           \/ \E l \in PC : /\ GoTo(w, l) /\ UNCHANGED spent
                            /\ \/ UNCHANGED cur
                               \/ \E c : cur' = [cur EXCEPT ![w] = c]
    PROVE  \A v \in Workers \ {w} :
              pc'[v] = pc[v] /\ cur'[v] = cur[v] /\ spent'[v] = spent[v]
BY GoIdleUpdate, GoToUpdate DEF IInv, TypeOK

\* A step of worker w, which may put its own job: whatever it stores, and the
\* attempt it is in if it leaves that, has to be accounted for.
LEMMA StepKeepsTInv ==
    ASSUME TInv, IInv', NEW w \in Workers, NEW j, j = cur[w].job,
           \A v \in Workers \ {w} :
              pc'[v] = pc[v] /\ cur'[v] = cur[v] /\ spent'[v] = spent[v],
           \A i \in Jobs : ran[i] => ran'[i],
           Sound(w)',
           \A i \in Jobs \ {j} : record'[i] = record[i],
           j \in Jobs =>
              \/ record'[j] = record[j] /\ (InTime(w, j) /\ ~ran'[j] => InTime(w, j)')
              \/ record'[j].state \in {"Queued", "Error"}
              \/ record'[j].state = "Processing" /\ InTime(w, j)'
              \/ record'[j].state = "Complete" /\ ran'[j]
    PROVE  TInv'
<1>1. ASSUME NEW v \in Workers \ {w} PROVE Sound(v)'
    <2>1. /\ Sound(v) /\ pc'[v] = pc[v] /\ cur'[v] = cur[v]
          /\ pc[v] # "idle" => cur[v].job \in Jobs
        BY DEF TInv, IInv, TypeOK
    <2>2. pc[v] # "idle" /\ ran[cur[v].job] => ran'[cur[v].job]
        BY <2>1
    <2> QED BY <2>1, <2>2 DEF Sound
<1>2. \A v \in Workers \ {w}, i \in Jobs :
         InTime(v, i) /\ record'[i] = record[i] => InTime(v, i)'
    BY DEF InTime
<1>3. ASSUME NEW i \in Jobs PROVE Tried(i)'
    <2>1. Tried(i)
        BY DEF TInv
    <2>2. CASE record'[i] = record[i] /\ (i = j /\ InTime(w, i) /\ ~ran'[i] => InTime(w, i)')
        <3>1. record'[i].state = "Complete" => ran'[i]
            BY <2>1, <2>2 DEF Tried
        <3>2. ASSUME record'[i].state = "Processing", ~ran'[i]
              PROVE  \E v \in Workers : InTime(v, i)'
            <4>1. PICK v \in Workers : InTime(v, i)
                BY <2>1, <2>2, <3>2 DEF Tried
            <4>2. CASE v = w
                BY <2>2, <3>2, <4>1, <4>2 DEF InTime
            <4>3. CASE v # w
                BY <1>2, <2>2, <4>1, <4>3
            <4> QED BY <4>2, <4>3
        <3> QED BY <3>1, <3>2 DEF Tried
    <2>3. CASE record'[i].state \in {"Queued", "Error"}
        BY <2>3 DEF Tried
    <2>4. CASE record'[i].state = "Processing" /\ InTime(w, i)'
        BY <2>4 DEF Tried
    <2>5. CASE record'[i].state = "Complete" /\ ran'[i]
        BY <2>5 DEF Tried
    <2> QED BY <2>2, <2>3, <2>4, <2>5
<1> QED BY <1>1, <1>3 DEF TInv

\* A record that is too old to be taken as Queued is not one a worker is trying.
LEMMA OldIsTried ==
    ASSUME Timely, TInv, NEW j \in Jobs, record[j].state = "Processing",
           ~(record[j].fresh > 0)
    PROVE  ran[j]
<1>1. SUFFICES ASSUME NEW w \in Workers, InTime(w, j) PROVE FALSE
    BY DEF TInv, Tried
<1>2. /\ record[j].fresh \in Nat /\ spent[w] \in 0 .. WorkLimit
    BY ConstantsAssumption DEF TInv, IInv, TypeOK, Record
<1> QED BY <1>1, <1>2, ConstantsAssumption DEF InTime, Timely

\* The record that a put leaves.
LEMMA PutRecord ==
    ASSUME IInv, NEW j \in Jobs, NEW st \in JobState, NEW t, Put(j, st, t)
    PROVE  /\ record'[j].state = st /\ record'[j].fresh = FreshFor
           /\ \A i \in Jobs \ {j} : record'[i] = record[i]
BY DEF Put, IInv, TypeOK

-----------------------------------------------------------------------------
(* The steps                                                               *)

\* A step of push puts a job that is not Processing.
LEMMA PushKeepsTInv ==
    ASSUME TInv, IInv', NEW j \in Jobs, PushStep(j)
    PROVE  TInv'
<1>1. UNCHANGED <<pc, cur, spent, ran>>
    BY DEF PushStep, PushPutCreated, PushWrite, PushPutQueued
<1>2. /\ \A i \in Jobs \ {j} : record'[i] = record[i]
      /\ record'[j] = record[j] \/ record'[j].state \in {"Created", "Queued"}
    BY PutRecord DEF PushStep, PushPutCreated, PushWrite, PushPutQueued, TInv, JobState
<1>3. \A w \in Workers : Sound(w)'
    BY <1>1 DEF TInv, Sound
<1>4. ASSUME NEW i \in Jobs PROVE Tried(i)'
    <2>1. Tried(i)
        BY DEF TInv
    <2>2. CASE record'[i] = record[i]
        BY <1>1, <2>1, <2>2 DEF Tried, InTime
    <2>3. CASE record'[i].state \in {"Created", "Queued"}
        BY <2>3 DEF Tried
    <2> QED BY <1>2, <2>2, <2>3
<1> QED BY <1>3, <1>4 DEF TInv

LEMMA ReadKeepsTInv ==
    ASSUME TInv, IInv', NEW w \in Workers, NEW j \in Jobs, Read(w, j)
    PROVE  TInv'
<1> DEFINE c == [cur[w] EXCEPT !.job = j]
<1>1. pc[w] = "idle" /\ cur[w] = Blank
    BY DEF Read, TInv, IInv, WorkerInv
<1>2. c.job = j /\ ~c.inTry /\ cur' = [cur EXCEPT ![w] = c]
    <2>1. cur' = [cur EXCEPT ![w] = c]
        BY DEF Read, TInv, IInv, TypeOK
    <2> QED BY <1>1, <2>1 DEF Blank
<1> HIDE DEF c
<1>3. GoTo(w, "get") /\ UNCHANGED <<spent, record, ran>> /\ "get" \in PC
    BY DEF Read, PC
<1>4. \A v \in Workers \ {w} :
         pc'[v] = pc[v] /\ cur'[v] = cur[v] /\ spent'[v] = spent[v]
    BY <1>2, <1>3, OneMoves DEF TInv
<1>5. pc'[w] = "get" /\ cur'[w] = c
    BY <1>2, <1>3 DEF GoTo, TInv, IInv, TypeOK
<1>6. Sound(w)'
    BY <1>2, <1>5 DEF Sound
<1>7. \A i : ~InTime(w, i)
    BY <1>1 DEF InTime, Trying
<1> QED BY <1>3, <1>4, <1>6, <1>7, StepKeepsTInv

\* A step of w, which is busy, that puts nothing.
LEMMA MoveKeepsTInv ==
    ASSUME TInv, IInv', NEW w \in Workers, pc[w] # "idle", UNCHANGED record,
           \A i \in Jobs : ran[i] => ran'[i],
           \/ GoIdle(w)
           \/ \E l \in PC : /\ GoTo(w, l) /\ UNCHANGED spent
                            /\ \/ UNCHANGED cur
                               \/ \E c : cur' = [cur EXCEPT ![w] = c],
           pc'[w] # "idle" => cur'[w].job = cur[w].job,
           Sound(w)',
           pc[w] \in Trying => pc'[w] \in Trying \/ ran'[cur[w].job]
    PROVE  TInv'
<1>1. \A v \in Workers \ {w} :
         pc'[v] = pc[v] /\ cur'[v] = cur[v] /\ spent'[v] = spent[v]
    BY OneMoves DEF TInv
<1>2. pc'[w] # "idle" => spent'[w] = spent[w]
    BY GoIdleUpdate DEF TInv, IInv
<1>3. PICK j : j = cur[w].job
    OBVIOUS
<1>4. InTime(w, j) /\ ~ran'[j] => InTime(w, j)'
    BY <1>2, <1>3 DEF InTime, Trying
<1> QED BY <1>1, <1>3, <1>4, StepKeepsTInv

\* The worker that moves, after the step.
LEMMA WhereTo ==
    ASSUME TInv, NEW w \in Workers
    PROVE  /\ \A l : GoTo(w, l) => pc'[w] = l
           /\ GoIdle(w) => pc'[w] = "idle" /\ cur'[w] = Blank
           /\ \A c : cur' = [cur EXCEPT ![w] = c] => cur'[w] = c
           /\ cur[w] \in Copy /\ (pc[w] # "idle" => cur[w].job \in Jobs)
           /\ Sound(w)
BY GoIdleUpdate DEF GoTo, TInv, IInv, TypeOK

\* Whatever getJob answers, what is handed to complete was applied.
LEMMA GetJobKeepsTInv ==
    ASSUME Timely, TInv, IInv', NEW w \in Workers, GetJob(w)
    PROVE  TInv'
<1> DEFINE r == record[cur[w].job]
           c == [cur[w] EXCEPT !.state = "Queued", !.tries = r.tries]
           d == [cur[w] EXCEPT !.state = r.state, !.tries = r.tries]
<1>1. /\ pc[w] = "get" /\ Got(w, r) /\ UNCHANGED <<record, ran>>
      /\ cur[w] \in Copy /\ cur[w].job \in Jobs /\ ~cur[w].inTry
    BY WhereTo DEF GetJob, Sound
<1>2. /\ c.job = cur[w].job /\ ~c.inTry
      /\ d.job = cur[w].job /\ ~d.inTry /\ d.state = r.state
    BY <1>1 DEF Copy
<1>3. CASE readyToProcess(r) /\ GoTo(w, "lock") /\ UNCHANGED spent
           /\ cur' = [cur EXCEPT ![w] = c]
    <2> HIDE DEF c, d
    <2>1. pc'[w] = "lock" /\ cur'[w] = c
        BY <1>3, WhereTo
    <2>2. Sound(w)'
        BY <1>2, <2>1 DEF Sound
    <2>3. "lock" \in PC /\ pc[w] \notin Trying
        BY <1>1 DEF PC, Trying
    <2> QED BY <1>1, <1>2, <1>3, <2>1, <2>2, <2>3, MoveKeepsTInv
<1>4. CASE fallsThrough(r) /\ GoTo(w, "release") /\ UNCHANGED spent
           /\ cur' = [cur EXCEPT ![w] = d]
    <2> HIDE DEF c, d
    <2>1. pc'[w] = "release" /\ cur'[w] = d
        BY <1>4, WhereTo
    <2>2. r.state = "Processing" => ~(r.fresh > 0)
        BY <1>4 DEF fallsThrough, readyToProcess, MayQueue
    <2>3. r.state = "Processing" => ran[cur[w].job]
        BY <1>1, <2>2, OldIsTried
    <2>4. Sound(w)'
        BY <1>1, <1>2, <2>1, <2>3 DEF Sound
    <2>5. "release" \in PC /\ pc[w] \notin Trying
        BY <1>1 DEF PC, Trying
    <2> QED BY <1>1, <1>2, <1>4, <2>1, <2>4, <2>5, MoveKeepsTInv
<1>5. CASE GoIdle(w)
    <2>1. pc'[w] = "idle"
        BY <1>5, WhereTo
    <2>2. Sound(w)'
        BY <2>1 DEF Sound
    <2> QED BY <1>1, <1>5, <2>1, <2>2, MoveKeepsTInv DEF Trying
<1>6. \A x \in Copy : /\ [cur EXCEPT ![w].state = "Queued", ![w].tries = r.tries]
                            = [cur EXCEPT ![w] = c]
                      /\ [cur EXCEPT ![w].state = r.state, ![w].tries = r.tries]
                            = [cur EXCEPT ![w] = d]
    BY DEF TInv, IInv, TypeOK
<1>7. \/ /\ readyToProcess(r)
         /\ cur' = [cur EXCEPT ![w] = c]
         /\ GoTo(w, "lock") /\ UNCHANGED spent
      \/ /\ fallsThrough(r)
         /\ cur' = [cur EXCEPT ![w] = d]
         /\ GoTo(w, "release") /\ UNCHANGED spent
      \/ GoIdle(w)
    BY <1>1, <1>6 DEF Got
<1> QED BY <1>3, <1>4, <1>5, <1>7

LEMMA LockKeyKeepsTInv ==
    ASSUME TInv, IInv', NEW w \in Workers, LockKey(w)
    PROVE  TInv'
<1>1. /\ pc[w] = "lock" /\ UNCHANGED <<record, ran>> /\ Sound(w)
      /\ GoIdle(w) \/ (GoTo(w, "start") /\ UNCHANGED <<cur, spent>>)
    BY WhereTo DEF LockKey
<1>2. Sound(w)' /\ pc'[w] \in {"idle", "start"}
    BY <1>1, WhereTo DEF Sound
<1>3. pc'[w] # "idle" => cur'[w].job = cur[w].job
    BY <1>1, WhereTo
<1>4. "start" \in PC /\ pc[w] \notin Trying
    BY <1>1 DEF PC, Trying
<1> QED BY <1>1, <1>2, <1>3, <1>4, MoveKeepsTInv

\* The job is Processing from now on, and w tries it.
LEMMA StartKeepsTInv ==
    ASSUME TInv, IInv', NEW w \in Workers, Start(w)
    PROVE  TInv'
<1>0. PICK j : j = cur[w].job
    OBVIOUS
<1> DEFINE t == cur[w].tries + 1
           c == [cur[w] EXCEPT !.state = "Processing", !.tries = t]
<1>1. /\ pc[w] = "start" /\ GoTo(w, "access") /\ UNCHANGED <<spent, ran>>
      /\ cur[w] \in Copy /\ j \in Jobs /\ ~cur[w].inTry
      /\ Put(j, "Processing", t)
    BY <1>0, WhereTo DEF Start, Sound
<1>2. cur' = [cur EXCEPT ![w] = c]
    BY DEF Start, TInv, IInv, TypeOK
<1>3. c.job = j /\ c.state = "Processing" /\ ~c.inTry
    BY <1>0, <1>1 DEF Copy
<1> HIDE DEF c, t
<1>4. pc'[w] = "access" /\ cur'[w] = c /\ "access" \in PC
    BY <1>1, <1>2, WhereTo DEF PC
<1>5. \A v \in Workers \ {w} :
         pc'[v] = pc[v] /\ cur'[v] = cur[v] /\ spent'[v] = spent[v]
    BY <1>1, <1>2, <1>4, OneMoves DEF TInv
<1>6. /\ record'[j].state = "Processing" /\ record'[j].fresh = FreshFor
      /\ \A i \in Jobs \ {j} : record'[i] = record[i]
    BY <1>1, PutRecord DEF TInv, JobState
<1>7. Sound(w)'
    BY <1>3, <1>4 DEF Sound
<1>8. InTime(w, j)'
    <2>1. spent'[w] \in Nat
        BY <1>1, ConstantsAssumption DEF TInv, IInv, TypeOK
    <2> QED BY <1>3, <1>4, <1>6, <2>1, ConstantsAssumption DEF InTime, Trying
<1> QED BY <1>0, <1>1, <1>5, <1>6, <1>7, <1>8, StepKeepsTInv

\* The calls of pullJob up to the end of the attempt.
LEMMA PullJobKeepsTInv ==
    ASSUME TInv, IInv', NEW w \in Workers,
           AccessMessage(w) \/ ProcessSucceeds(w) \/ ProcessFails(w)
    PROVE  TInv'
<1>1. cur[w] \in Copy /\ Sound(w)
    BY WhereTo
<1>2. CASE AccessMessage(w)
    <2> DEFINE c == [cur[w] EXCEPT !.inTry = TRUE]
    <2>1. /\ pc[w] = "access" /\ GoTo(w, "process") /\ UNCHANGED <<record, spent, ran>>
          /\ cur[w].state = "Processing"
        BY <1>1, <1>2 DEF AccessMessage, Sound
    <2>2. cur' = [cur EXCEPT ![w] = c]
        BY <1>2 DEF AccessMessage, TInv, IInv, TypeOK
    <2>3. c.job = cur[w].job /\ c.state = "Processing"
        BY <1>1, <2>1 DEF Copy
    <2> HIDE DEF c
    <2>4. pc'[w] = "process" /\ cur'[w] = c /\ "process" \in PC
        BY <2>1, <2>2, WhereTo DEF PC
    <2>5. Sound(w)'
        BY <2>3, <2>4 DEF Sound
    <2> QED BY <2>1, <2>2, <2>3, <2>4, <2>5, MoveKeepsTInv DEF Trying
<1>3. CASE ProcessSucceeds(w)
    <2>1. /\ pc[w] = "process" /\ GoTo(w, "release") /\ UNCHANGED <<record, cur, spent>>
          /\ ran' = [ran EXCEPT ![cur[w].job] = TRUE]
        BY <1>3 DEF ProcessSucceeds
    <2>2. pc'[w] = "release" /\ cur'[w] = cur[w] /\ "release" \in PC
        BY <2>1, WhereTo DEF PC
    <2>3. ran'[cur[w].job] /\ \A i \in Jobs : ran[i] => ran'[i]
        BY <2>1, WhereTo DEF TInv, IInv, TypeOK
    <2>4. Sound(w)'
        BY <2>2, <2>3 DEF Sound
    <2> QED BY <2>1, <2>2, <2>3, <2>4, MoveKeepsTInv
<1>4. CASE ProcessFails(w)
    <2> DEFINE c == [cur[w] EXCEPT !.inTry = FALSE]
    <2>1. /\ pc[w] = "process" /\ GoTo(w, "error") /\ UNCHANGED <<record, spent, ran>>
          /\ cur[w].state = "Processing"
        BY <1>1, <1>4 DEF ProcessFails, GoCatch, Sound
    <2>2. cur' = [cur EXCEPT ![w] = c]
        BY <1>4 DEF ProcessFails, GoCatch, TInv, IInv, TypeOK
    <2>3. c.job = cur[w].job /\ c.state = "Processing" /\ ~c.inTry
        BY <1>1, <2>1 DEF Copy
    <2> HIDE DEF c
    <2>4. pc'[w] = "error" /\ cur'[w] = c /\ "error" \in PC
        BY <2>1, <2>2, WhereTo DEF PC
    <2>5. Sound(w)'
        BY <2>3, <2>4 DEF Sound
    <2> QED BY <2>1, <2>2, <2>3, <2>4, <2>5, MoveKeepsTInv DEF Trying
<1> QED BY <1>2, <1>3, <1>4

\* A call of complete throws after the behavior was applied.
LEMMA CallThrowsKeepsTInv ==
    ASSUME TInv, IInv', NEW w \in Workers, CallThrows(w)
    PROVE  TInv'
<1> DEFINE c == [cur[w] EXCEPT !.inTry = FALSE]
<1>1. /\ pc[w] \in {"release", "completePut", "delete"} /\ cur[w].inTry
      /\ GoTo(w, "error") /\ UNCHANGED <<record, spent, ran>>
      /\ cur[w] \in Copy /\ Sound(w)
    BY WhereTo DEF CallThrows, GoCatch
<1>2. ran[cur[w].job]
    BY <1>1 DEF Sound
<1>3. cur' = [cur EXCEPT ![w] = c]
    BY DEF CallThrows, GoCatch, TInv, IInv, TypeOK
<1>4. c.job = cur[w].job /\ ~c.inTry
    BY <1>1 DEF Copy
<1> HIDE DEF c
<1>5. pc'[w] = "error" /\ cur'[w] = c /\ "error" \in PC
    BY <1>1, <1>3, WhereTo DEF PC
<1>6. Sound(w)'
    BY <1>1, <1>2, <1>4, <1>5 DEF Sound
<1> QED BY <1>1, <1>3, <1>4, <1>5, <1>6, MoveKeepsTInv DEF Trying

\* The release of the key in complete: a job that goes on to Complete was
\* Processing in the worker's hands, and so it was applied.
LEMMA CompleteReleaseKeepsTInv ==
    ASSUME TInv, IInv', NEW w \in Workers, CompleteRelease(w)
    PROVE  TInv'
<1> DEFINE c == [cur[w] EXCEPT !.state = "Complete"]
<1>1. /\ pc[w] = "release" /\ UNCHANGED <<record, ran>> /\ cur[w] \in Copy /\ Sound(w)
      /\ pc[w] \notin Trying
    BY WhereTo DEF CompleteRelease, Trying
<1>2. CASE MayComplete(cur[w].state) /\ GoTo(w, "completePut") /\ UNCHANGED spent
           /\ cur' = [cur EXCEPT ![w].state = "Complete"]
    <2>1. cur' = [cur EXCEPT ![w] = c]
        BY <1>2 DEF TInv, IInv, TypeOK
    <2>2. c.job = cur[w].job
        BY <1>1 DEF Copy
    <2> HIDE DEF c
    <2>3. pc'[w] = "completePut" /\ cur'[w] = c /\ "completePut" \in PC
        BY <1>2, <2>1, WhereTo DEF PC
    <2>4. ran[cur[w].job]
        BY <1>1, <1>2 DEF Sound, MayComplete
    <2>5. Sound(w)'
        BY <1>1, <2>2, <2>3, <2>4 DEF Sound
    <2> QED BY <1>1, <1>2, <2>1, <2>2, <2>3, <2>5, MoveKeepsTInv
<1>3. CASE GoIdle(w)
    <2>1. pc'[w] = "idle" /\ Sound(w)'
        BY <1>3, WhereTo DEF Sound
    <2> QED BY <1>1, <1>3, <2>1, MoveKeepsTInv
<1> QED BY <1>2, <1>3 DEF CompleteRelease

\* The release of the key in error: an attempt that goes on to its put is still
\* in time; one that ends here has nothing left to put.
LEMMA ErrorReleaseKeepsTInv ==
    ASSUME TInv, IInv', NEW w \in Workers, ErrorRelease(w)
    PROVE  TInv'
<1> DEFINE st == IF Retrying(w) THEN "Queued" ELSE "Error"
           c == [cur[w] EXCEPT !.state = st]
<1>1. /\ pc[w] = "error" /\ UNCHANGED <<record, ran>> /\ cur[w] \in Copy /\ Sound(w)
      /\ ~cur[w].inTry
    BY WhereTo DEF ErrorRelease, Sound
<1>2. CASE GoTo(w, "errorPut") /\ UNCHANGED spent
           /\ cur' = [cur EXCEPT ![w].state = st]
    <2>1. cur' = [cur EXCEPT ![w] = c]
        BY <1>2 DEF TInv, IInv, TypeOK
    <2>2. c.job = cur[w].job /\ c.state \in {"Queued", "Error"} /\ ~c.inTry
        BY <1>1 DEF Copy
    <2> HIDE DEF c
    <2>3. pc'[w] = "errorPut" /\ cur'[w] = c /\ "errorPut" \in PC
        BY <1>2, <2>1, WhereTo DEF PC
    <2>4. Sound(w)'
        BY <2>2, <2>3 DEF Sound
    <2> QED BY <1>1, <1>2, <2>1, <2>2, <2>3, <2>4, MoveKeepsTInv DEF Trying
<1>3. CASE GoIdle(w) /\ cur[w].state # "Processing"
    <2>1. pc'[w] = "idle" /\ Sound(w)'
        BY <1>3, WhereTo DEF Sound
    <2>2. ran[cur[w].job]
        BY <1>1, <1>3 DEF Sound
    <2> QED BY <1>1, <1>3, <2>1, <2>2, MoveKeepsTInv
<1> QED BY <1>2, <1>3 DEF ErrorRelease, MayQueue, MayError

\* The puts that end an attempt, and the deletion of the message.
LEMMA FinishKeepsTInv ==
    ASSUME TInv, IInv', NEW w \in Workers, CompletePut(w) \/ ErrorPut(w) \/ Delete(w)
    PROVE  TInv'
<1>0. PICK j : j = cur[w].job
    OBVIOUS
<1>1. cur[w] \in Copy /\ cur[w].state \in JobState /\ Sound(w) /\ pc[w] # "idle" /\ j \in Jobs
    BY <1>0, WhereTo DEF CompletePut, ErrorPut, Delete, Copy
<1>2. CASE CompletePut(w)
    <2>1. /\ pc[w] = "completePut" /\ GoTo(w, "delete") /\ UNCHANGED <<cur, spent, ran>>
          /\ Put(j, cur[w].state, cur[w].tries)
        BY <1>0, <1>2 DEF CompletePut, PutCur
    <2>2. ran[j] /\ cur[w].state = "Complete"
        BY <1>0, <1>1, <2>1 DEF Sound, TInv, IInv, WorkerInv, Good
    <2>3. record'[j].state = "Complete" /\ \A i \in Jobs \ {j} : record'[i] = record[i]
        BY <1>1, <2>1, <2>2, PutRecord DEF TInv
    <2>4. pc'[w] = "delete" /\ "delete" \in PC
        BY <2>1, WhereTo DEF PC
    <2>5. Sound(w)'
        BY <1>0, <2>1, <2>2, <2>4 DEF Sound
    <2>6. \A v \in Workers \ {w} :
             pc'[v] = pc[v] /\ cur'[v] = cur[v] /\ spent'[v] = spent[v]
        BY <2>1, <2>4, OneMoves DEF TInv
    <2> QED BY <1>0, <2>1, <2>2, <2>3, <2>5, <2>6, StepKeepsTInv
<1>3. CASE ErrorPut(w)
    <2>1. /\ pc[w] = "errorPut" /\ UNCHANGED ran
          /\ GoIdle(w) \/ (GoTo(w, "delete") /\ UNCHANGED <<cur, spent>>)
          /\ Put(j, cur[w].state, cur[w].tries)
        BY <1>0, <1>3 DEF ErrorPut, PutCur
    <2>2. cur[w].state \in {"Queued", "Error"} /\ ~cur[w].inTry
        BY <1>1, <2>1 DEF Sound
    <2>3. /\ record'[j].state \in {"Queued", "Error"}
          /\ \A i \in Jobs \ {j} : record'[i] = record[i]
        BY <1>1, <2>1, <2>2, PutRecord DEF TInv
    <2>4. Sound(w)'
        BY <2>1, <2>2, WhereTo DEF Sound
    <2>5. "delete" \in PC
        BY DEF PC
    <2>6. \A v \in Workers \ {w} :
             pc'[v] = pc[v] /\ cur'[v] = cur[v] /\ spent'[v] = spent[v]
        BY <2>1, <2>5, OneMoves DEF TInv
    <2> QED BY <1>0, <2>1, <2>3, <2>4, <2>6, StepKeepsTInv
<1>4. CASE Delete(w) /\ GoIdle(w)
    <2>1. pc[w] = "delete" /\ UNCHANGED <<record, ran>>
        BY <1>4 DEF Delete
    <2>2. pc'[w] = "idle" /\ Sound(w)'
        BY <1>4, WhereTo DEF Sound
    <2> QED BY <1>4, <2>1, <2>2, MoveKeepsTInv DEF Trying
<1>5. CASE Delete(w) /\ GoCatch(w) /\ cur[w].inTry /\ UNCHANGED spent
    <2> DEFINE c == [cur[w] EXCEPT !.inTry = FALSE]
    <2>1. pc[w] = "delete" /\ UNCHANGED <<record, ran>> /\ GoTo(w, "error")
        BY <1>5 DEF Delete, GoCatch
    <2>2. cur' = [cur EXCEPT ![w] = c]
        BY <1>5 DEF GoCatch, TInv, IInv, TypeOK
    <2>3. c.job = cur[w].job /\ ~c.inTry
        BY <1>1 DEF Copy
    <2> HIDE DEF c
    <2>4. pc'[w] = "error" /\ cur'[w] = c /\ "error" \in PC
        BY <2>1, <2>2, WhereTo DEF PC
    <2>5. ran[cur[w].job]
        BY <1>1, <1>5, <2>1 DEF Sound
    <2>6. Sound(w)'
        BY <2>1, <2>3, <2>4, <2>5 DEF Sound
    <2> QED BY <1>5, <2>1, <2>2, <2>3, <2>4, <2>6, MoveKeepsTInv DEF Trying
<1> QED BY <1>2, <1>3, <1>4, <1>5 DEF Delete

\* While time passes the attempt gets older as the record does.
LEMMA TickKeepsTInv ==
    ASSUME TInv, IInv', Tick
    PROVE  TInv'
<1>1. /\ UNCHANGED <<pc, cur, ran>>
      /\ \A j \in Jobs : record'[j].state = record[j].state
    BY TickAges DEF Tick, TInv, IInv
<1>2. \A w \in Workers : Sound(w)'
    BY <1>1 DEF TInv, Sound
<1>3. ASSUME NEW w \in Workers, NEW j \in Jobs, InTime(w, j) PROVE InTime(w, j)'
    <2>1. pc[w] # "idle" => spent'[w] = spent[w] + 1
        BY DEF Tick
    <2>2. record'[j].fresh = Down(record[j].fresh)
        BY DEF Tick, TInv, IInv, TypeOK, Record
    <2>3. record[j].fresh \in Nat /\ spent[w] \in Nat
        BY ConstantsAssumption DEF TInv, IInv, TypeOK, Record
    <2>4. record'[j].fresh + spent'[w] >= FreshFor
        BY <1>3, <2>1, <2>2, <2>3, ConstantsAssumption DEF InTime, Trying, Down
    <2> QED BY <1>1, <1>3, <2>4 DEF InTime
<1>4. \A j \in Jobs : Tried(j)'
    BY <1>1, <1>3 DEF TInv, Tried
<1> QED BY <1>2, <1>4 DEF TInv

LEMMA InitTInv == Init => TInv
BY InitIInv DEF Init, TInv, Sound, Tried

LEMMA NextKeepsTInv ==
    ASSUME Timely
    PROVE  TInv /\ [Next]_vars => TInv'
<1> SUFFICES ASSUME TInv, [Next]_vars PROVE TInv'
    OBVIOUS
<1>1. IInv'
    BY NextKeepsIInv DEF TInv
<1>2. CASE UNCHANGED <<record, pc, cur, spent, ran>>
    BY <1>1, <1>2 DEF TInv, Sound, Tried, InTime
<1>3. CASE \E j \in Jobs : PushStep(j)
    BY <1>1, <1>3, PushKeepsTInv
<1>4. CASE \E w \in Workers, j \in Jobs : Read(w, j)
    BY <1>1, <1>4, ReadKeepsTInv
<1>5. CASE \E w \in Workers : WorkerStep(w)
    BY <1>1, <1>5, GetJobKeepsTInv, LockKeyKeepsTInv, StartKeepsTInv, PullJobKeepsTInv,
       CompleteReleaseKeepsTInv, ErrorReleaseKeepsTInv, FinishKeepsTInv DEF WorkerStep
<1>6. CASE \E w \in Workers : CallThrows(w)
    BY <1>1, <1>6, CallThrowsKeepsTInv
<1>7. CASE \E j \in Jobs : Redeliver(j)
    BY <1>1, <1>2, <1>7 DEF Redeliver
<1>8. CASE Tick
    BY <1>1, <1>8, TickKeepsTInv
<1>9. ~Fault("crash") /\ ~Fault("staleRead") /\ ~Fault("refuse") /\ ~Fault("handler")
    BY DEF Fault, Timely
<1>10. CASE FaultStep
    BY <1>6, <1>7, <1>9, <1>10
       DEF FaultStep, Crash, StaleGet, AccessRefused, ErrorBehaviorFails, PushCrash
<1> QED BY <1>2, <1>3, <1>4, <1>5, <1>8, <1>10 DEF Next, vars

-----------------------------------------------------------------------------
(* The theorem                                                             *)

\* A job is stored as Complete only after its behavior was applied
\* (Queue.java:117-125), with InMemoryQueue too, where any number of workers
\* read one job at the same time: one that finds it Processing and no longer
\* recent may complete it, for the worker that put it was done before.
THEOREM TimelyJobsRan == ASSUME Timely PROVE Spec => []CompleteMeansRun
<1>1. TInv /\ [Next]_vars => TInv'
    BY NextKeepsTInv
<1>2. TInv => CompleteMeansRun
    BY DEF TInv, Tried, CompleteMeansRun
<1> QED BY <1>1, <1>2, InitTInv, PTL DEF Spec
=============================================================================
