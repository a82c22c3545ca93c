--------------------------- MODULE JobQueueProofs ---------------------------
(***************************************************************************)
(* What JobQueue guarantees for every value of its constants, whatever     *)
(* goes wrong: the theorems about Spec at the end of the module.           *)
(***************************************************************************)
EXTENDS JobQueue, TLAPS

-----------------------------------------------------------------------------
(* The inductive invariant                                                 *)

\* A job got past Queued by an attempt and into Error by MaxTries of them.
Earned(st, tries, n) ==
    /\ st \in {"Processing", "Complete", "Error"} => n >= 1
    /\ st = "Error" => tries >= MaxTries

\* A document r of job j, the stored one or an older one, counts no more tries
\* than there were attempts.
Honest(r, j) ==
    /\ r.tries <= attempts[j]
    /\ Earned(r.state, r.tries, attempts[j])

\* The stored job exists from the first put of push on.
JobInv(j) ==
    /\ j \in queue \/ push[j] \in {"created", "written"} =>
          record[j].state # "None"
    /\ Honest(record[j], j)
    /\ Honest(older[j], j)

\* The same of the instance c of a worker whose next call is l; and a worker
\* about to delete a message has stored its job in a final state.
Good(l, c) ==
    /\ c.job \in Jobs
    /\ record[c.job].state # "None"
    /\ c.tries <= attempts[c.job]
    /\ Earned(c.state, c.tries, attempts[c.job])
    /\ l = "delete" => ended[c.job]
    /\ l = "completePut" => c.state = "Complete"

\* A worker between two calls of pullJob holds nothing over from the last one.
WorkerInv(w) ==
    IF pc[w] = "idle" THEN cur[w] = Blank /\ spent[w] = 0
                      ELSE Good(pc[w], cur[w])

IInv ==
    /\ TypeOK
    /\ \A j \in Jobs : JobInv(j)
    /\ \A w \in Workers : WorkerInv(w)

-----------------------------------------------------------------------------
(* Lemmas about the helpers the actions are built from                     *)

\* Changing fields of a Copy gives a Copy, and no other field changes.
LEMMA CopyState ==
    ASSUME NEW c \in Copy, NEW st \in JobState
    PROVE  /\ [c EXCEPT !.state = st] \in Copy
           /\ [c EXCEPT !.state = st].job = c.job
           /\ [c EXCEPT !.state = st].tries = c.tries
           /\ [c EXCEPT !.state = st].state = st
           /\ [c EXCEPT !.state = st].inTry = c.inTry
BY DEF Copy

LEMMA CopyInTry ==
    ASSUME NEW c \in Copy, NEW b \in BOOLEAN
    PROVE  /\ [c EXCEPT !.inTry = b] \in Copy
           /\ [c EXCEPT !.inTry = b].job = c.job
           /\ [c EXCEPT !.inTry = b].tries = c.tries
           /\ [c EXCEPT !.inTry = b].state = c.state
           /\ [c EXCEPT !.inTry = b].inTry = b
BY DEF Copy

LEMMA CopyJob ==
    ASSUME NEW c \in Copy, NEW j \in Jobs
    PROVE  /\ [c EXCEPT !.job = j] \in Copy
           /\ [c EXCEPT !.job = j].job = j
           /\ [c EXCEPT !.job = j].tries = c.tries
           /\ [c EXCEPT !.job = j].state = c.state
           /\ [c EXCEPT !.job = j].inTry = c.inTry
BY DEF Copy

LEMMA BlankIsCopy == Blank \in Copy
BY DEF Blank, Copy, JobState

\* The worker that moves gets the new instance; the others keep theirs.
LEMMA CurUpdate ==
    ASSUME TypeOK, NEW w \in Workers, NEW c \in Copy,
           cur' = [cur EXCEPT ![w] = c]
    PROVE  /\ cur' \in [Workers -> Copy]
           /\ cur'[w] = c
           /\ \A v \in Workers \ {w} : cur'[v] = cur[v]
BY DEF TypeOK

LEMMA GoToUpdate ==
    ASSUME TypeOK, NEW w \in Workers, NEW l \in PC, GoTo(w, l)
    PROVE  /\ pc' \in [Workers -> PC]
           /\ pc'[w] = l
           /\ \A v \in Workers \ {w} : pc'[v] = pc[v]
BY DEF TypeOK, GoTo

LEMMA GoIdleUpdate ==
    ASSUME TypeOK, NEW w \in Workers, GoIdle(w)
    PROVE  /\ pc' \in [Workers -> PC] /\ pc'[w] = "idle"
           /\ cur' \in [Workers -> Copy] /\ cur'[w] = Blank
           /\ spent' \in [Workers -> 0 .. WorkLimit] /\ spent'[w] = 0
           /\ \A v \in Workers \ {w} :
                 pc'[v] = pc[v] /\ cur'[v] = cur[v] /\ spent'[v] = spent[v]
BY ConstantsAssumption, BlankIsCopy DEF TypeOK, PC, GoIdle

\* A put stores the instance it is given, and leaves no record or mark of an
\* ended job behind.
LEMMA PutUpdate ==
    ASSUME TypeOK, NEW j \in Jobs, NEW st \in JobState, NEW t \in Nat,
           Put(j, st, t)
    PROVE  /\ record' \in [Jobs -> Record]
           /\ record'[j].state = st
           /\ record'[j].tries = t
           /\ \A i \in Jobs \ {j} : record'[i] = record[i]
           /\ \A i \in Jobs : record[i].state # "None" => record'[i].state # "None"
           /\ older' \in [Jobs -> Record]
           /\ \A i \in Jobs : older'[i] \in {older[i], record[i]}
           /\ ended' \in [Jobs -> BOOLEAN]
           /\ st \in Final => ended'[j]
           /\ \A i \in Jobs : ended[i] => ended'[i]
<1>1. [state |-> st, tries |-> t, fresh |-> FreshFor] \in Record
    BY ConstantsAssumption DEF Record
<1>2. st # "None"
    BY DEF JobState
<1>3. /\ record' \in [Jobs -> Record]
      /\ record'[j] = [state |-> st, tries |-> t, fresh |-> FreshFor]
      /\ \A i \in Jobs \ {j} : record'[i] = record[i]
    BY <1>1 DEF Put, TypeOK
<1>4. /\ ended' \in [Jobs -> BOOLEAN]
      /\ ended'[j] = (ended[j] \/ st \in Final)
      /\ \A i \in Jobs \ {j} : ended'[i] = ended[i]
    BY DEF Put, TypeOK
<1>5. /\ older' \in [Jobs -> Record]
      /\ \A i \in Jobs : older'[i] \in {older[i], record[i]}
    BY DEF Put, TypeOK
<1> QED BY <1>2, <1>3, <1>4, <1>5

\* A document stays honest while attempts grow.
LEMMA StaysHonest ==
    ASSUME NEW r \in Record, NEW j \in Jobs, Honest(r, j),
           attempts[j] \in Nat, attempts'[j] \in Nat, attempts[j] <= attempts'[j]
    PROVE  /\ r.tries <= attempts'[j]
           /\ Earned(r.state, r.tries, attempts'[j])
BY DEF Honest, Earned, Record

\* An instance stays good while records, attempts and ended marks only grow.
LEMMA OthersStayGood ==
    ASSUME IInv, NEW w \in Workers,
           \A v \in Workers \ {w} :
              pc'[v] = pc[v] /\ cur'[v] = cur[v] /\ spent'[v] = spent[v],
           attempts' \in [Jobs -> Nat],
           \A j \in Jobs : /\ record[j].state # "None" => record'[j].state # "None"
                           /\ attempts[j] <= attempts'[j]
                           /\ ended[j] => ended'[j]
    PROVE  \A v \in Workers \ {w} : WorkerInv(v)'
<1> SUFFICES ASSUME NEW v \in Workers \ {w} PROVE WorkerInv(v)'
    OBVIOUS
<1>1. WorkerInv(v) /\ cur[v] \in Copy
    BY DEF IInv, TypeOK
<1>2. CASE pc[v] = "idle"
    BY <1>1, <1>2 DEF WorkerInv
<1>3. CASE pc[v] # "idle"
    <2>1. Good(pc[v], cur[v])
        BY <1>1, <1>3 DEF WorkerInv
    <2>2. cur[v].tries \in Nat /\ cur[v].job \in Jobs
        BY <1>1, <2>1 DEF Copy, Good
    <2>3. attempts[cur[v].job] \in Nat /\ attempts'[cur[v].job] \in Nat
        BY <2>2 DEF IInv, TypeOK
    <2>4. Good(pc[v], cur[v])'
        BY <2>1, <2>2, <2>3 DEF Good, Earned
    <2> QED BY <2>4, <1>3 DEF WorkerInv
<1> QED BY <1>2, <1>3

-----------------------------------------------------------------------------
(* Steps that change nothing stored                                        *)

Quiet ==
    /\ UNCHANGED <<push, record, older, attempts, ended>>
    /\ queue' \subseteq queue
    /\ hidden' \in [Jobs -> 0 .. HiddenFor]
    /\ lock' \in [Keys -> 0 .. LockFor]
    /\ faults' \in 0 .. MaxFaults
    /\ ran' \in [Jobs -> BOOLEAN]

LEMMA MoveKeepsIInv ==
    ASSUME IInv, Quiet, UNCHANGED spent,
           NEW w \in Workers, NEW c \in Copy, NEW l \in PC \ {"idle"},
           GoTo(w, l), cur' = [cur EXCEPT ![w] = c], Good(l, c)
    PROVE  IInv'
<1>1. /\ pc' \in [Workers -> PC] /\ pc'[w] = l
      /\ \A v \in Workers \ {w} : pc'[v] = pc[v]
    BY GoToUpdate DEF IInv
<1>2. /\ cur' \in [Workers -> Copy] /\ cur'[w] = c
      /\ \A v \in Workers \ {w} : cur'[v] = cur[v]
    BY CurUpdate DEF IInv
<1>3. TypeOK'
    BY <1>1, <1>2 DEF IInv, TypeOK, Quiet, Good
<1>4. \A v \in Workers \ {w} : WorkerInv(v)'
    BY <1>1, <1>2, OthersStayGood DEF Quiet, IInv, TypeOK
<1>5. WorkerInv(w)'
    BY <1>1, <1>2 DEF WorkerInv, Good, Quiet
<1>6. \A j \in Jobs : JobInv(j)'
    BY DEF IInv, JobInv, Honest, Quiet
<1> QED BY <1>3, <1>4, <1>5, <1>6 DEF IInv

LEMMA ReturnKeepsIInv ==
    ASSUME IInv, Quiet, NEW w \in Workers, GoIdle(w)
    PROVE  IInv'
<1>1. /\ pc' \in [Workers -> PC] /\ pc'[w] = "idle"
      /\ cur' \in [Workers -> Copy] /\ cur'[w] = Blank
      /\ spent' \in [Workers -> 0 .. WorkLimit] /\ spent'[w] = 0
      /\ \A v \in Workers \ {w} :
            pc'[v] = pc[v] /\ cur'[v] = cur[v] /\ spent'[v] = spent[v]
    BY GoIdleUpdate DEF IInv
<1>2. TypeOK'
    BY <1>1 DEF IInv, TypeOK, Quiet
<1>3. \A v \in Workers \ {w} : WorkerInv(v)'
    BY <1>1, OthersStayGood DEF Quiet, IInv, TypeOK
<1>4. WorkerInv(w)'
    BY <1>1 DEF WorkerInv
<1>5. \A j \in Jobs : JobInv(j)'
    BY DEF IInv, JobInv, Honest, Quiet
<1> QED BY <1>2, <1>3, <1>4, <1>5 DEF IInv

-----------------------------------------------------------------------------
(* The actions                                                             *)

LEMMA InitIInv == Init => IInv
<1> SUFFICES ASSUME Init PROVE IInv
    OBVIOUS
<1>1. TypeOK
    BY ConstantsAssumption, BlankIsCopy
    DEF Init, TypeOK, PushPC, Record, PC
<1>2. \A j \in Jobs : JobInv(j)
    BY DEF Init, JobInv, Honest, Earned
<1>3. \A w \in Workers : WorkerInv(w)
    BY DEF Init, WorkerInv
<1> QED BY <1>1, <1>2, <1>3 DEF IInv

\* A put by the pusher: any state it stores is earned, for it is not final.
LEMMA PushPutKeepsIInv ==
    ASSUME IInv, NEW j \in Jobs, NEW st \in {"Created", "Queued"},
           NEW l \in PushPC, push' = [push EXCEPT ![j] = l], Put(j, st, 0),
           UNCHANGED <<queue, hidden, lock, pc, cur, spent, faults, attempts, ran>>
    PROVE  IInv'
<1>1. /\ record' \in [Jobs -> Record]
      /\ record'[j].state = st
      /\ record'[j].tries = 0
      /\ \A i \in Jobs \ {j} : record'[i] = record[i]
      /\ \A i \in Jobs : record[i].state # "None" => record'[i].state # "None"
      /\ older' \in [Jobs -> Record]
      /\ \A i \in Jobs : older'[i] \in {older[i], record[i]}
      /\ ended' \in [Jobs -> BOOLEAN]
      /\ \A i \in Jobs : ended[i] => ended'[i]
    <2>1. st \in JobState /\ 0 \in Nat
        BY DEF JobState
    <2> QED BY <2>1, PutUpdate DEF IInv
<1>2. TypeOK'
    BY <1>1 DEF IInv, TypeOK
<1>3. \A i \in Jobs : JobInv(i)'
    BY <1>1 DEF IInv, TypeOK, JobInv, Honest, Earned
<1>4. \A w \in Workers : WorkerInv(w)'
    BY <1>1 DEF IInv, WorkerInv, Good
<1> QED BY <1>2, <1>3, <1>4 DEF IInv

LEMMA PushKeepsIInv ==
    ASSUME IInv, NEW j \in Jobs,
           PushStep(j) \/ PushCrash(j) \/ Redeliver(j)
    PROVE  IInv'
<1>1. CASE PushPutCreated(j)
    BY <1>1, PushPutKeepsIInv DEF PushPutCreated, PushPC
<1>2. CASE PushPutQueued(j)
    BY <1>2, PushPutKeepsIInv DEF PushPutQueued, PushPC
<1>3. CASE PushWrite(j)
    <2>1. TypeOK'
        BY <1>3 DEF PushWrite, IInv, TypeOK, PushPC
    <2>2. \A i \in Jobs : JobInv(i)'
        BY <1>3 DEF PushWrite, IInv, TypeOK, JobInv, Honest
    <2>3. \A w \in Workers : WorkerInv(w)'
        BY <1>3 DEF PushWrite, IInv, WorkerInv, Good
    <2> QED BY <2>1, <2>2, <2>3 DEF IInv
<1>4. CASE PushCrash(j)
    <2>1. TypeOK'
        BY <1>4, ConstantsAssumption DEF PushCrash, Fault, IInv, TypeOK, PushPC
    <2>2. \A i \in Jobs : JobInv(i)'
        BY <1>4 DEF PushCrash, IInv, TypeOK, JobInv, Honest
    <2>3. \A w \in Workers : WorkerInv(w)'
        BY <1>4 DEF PushCrash, IInv, WorkerInv, Good
    <2> QED BY <2>1, <2>2, <2>3 DEF IInv
<1>5. CASE Redeliver(j)
    <2>1. TypeOK'
        BY <1>5, ConstantsAssumption DEF Redeliver, Fault, IInv, TypeOK
    <2>2. \A i \in Jobs : JobInv(i)'
        BY <1>5 DEF Redeliver, IInv, JobInv, Honest
    <2>3. \A w \in Workers : WorkerInv(w)'
        BY <1>5 DEF Redeliver, IInv, WorkerInv, Good
    <2> QED BY <2>1, <2>2, <2>3 DEF IInv
<1> QED BY <1>1, <1>2, <1>3, <1>4, <1>5 DEF PushStep

\* A busy worker has a good instance.
LEMMA BusyIsGood ==
    ASSUME IInv, NEW w \in Workers, pc[w] # "idle"
    PROVE  /\ Good(pc[w], cur[w])
           /\ cur[w] \in Copy
           /\ cur[w].job \in Jobs
           /\ cur[w].tries \in Nat
           /\ cur[w].state \in JobState
           /\ record[cur[w].job] \in Record
           /\ JobInv(cur[w].job)
BY DEF IInv, WorkerInv, TypeOK, Good, Copy

LEMMA ReadKeepsIInv ==
    ASSUME IInv, NEW w \in Workers, NEW j \in Jobs, Read(w, j)
    PROVE  IInv'
<1> DEFINE c == [cur[w] EXCEPT !.job = j]
<1>1. cur[w] = Blank /\ cur[w] \in Copy
    BY DEF Read, IInv, WorkerInv, TypeOK
<1>2. /\ c \in Copy /\ c.job = j
      /\ c.tries = Blank.tries /\ c.state = Blank.state
    BY <1>1, CopyJob
<1>3. cur' = [cur EXCEPT ![w] = c]
    BY DEF Read, IInv, TypeOK
<1>4. record[j].state # "None" /\ attempts[j] \in Nat
    BY DEF Read, IInv, JobInv, TypeOK
<1>5. Good("get", c)
    <2> HIDE DEF c
    <2> QED BY <1>2, <1>4 DEF Good, Earned, Blank
<1>6. Quiet
    BY ConstantsAssumption DEF Read, Hide, Quiet, IInv, TypeOK
<1>7. GoTo(w, "get") /\ "get" \in PC \ {"idle"} /\ UNCHANGED spent
    BY DEF Read, PC
<1> HIDE DEF c
<1> QED BY <1>2, <1>3, <1>5, <1>6, <1>7, MoveKeepsIInv

\* Whichever document getJob answers, the stored one or one that was replaced,
\* what the worker takes from it is honest.
LEMMA GotKeepsIInv ==
    ASSUME IInv, Quiet, NEW w \in Workers, pc[w] # "idle",
           NEW r \in Record, Honest(r, cur[w].job), Got(w, r)
    PROVE  IInv'
<1>1. /\ Good(pc[w], cur[w]) /\ cur[w] \in Copy /\ cur[w].job \in Jobs
    BY BusyIsGood
<1>2. r.tries \in Nat /\ r.state \in JobState \cup {"None"}
    BY DEF Record
<1>3. Quiet
    OBVIOUS
<1> DEFINE Takes(st, t, l) ==
        /\ cur' = [cur EXCEPT ![w].state = st, ![w].tries = t]
        /\ GoTo(w, l)
        /\ UNCHANGED spent
<1>4. ASSUME NEW st \in JobState, NEW t \in Nat, NEW l \in {"lock", "release"},
             Takes(st, t, l), t <= attempts[cur[w].job],
             Earned(st, t, attempts[cur[w].job])
      PROVE  IInv'
    <2> DEFINE c == [cur[w] EXCEPT !.state = st, !.tries = t]
    <2>1. /\ c \in Copy /\ c.job = cur[w].job /\ c.tries = t /\ c.state = st
        BY <1>1 DEF Copy
    <2>2. cur' = [cur EXCEPT ![w] = c]
        BY <1>4 DEF IInv, TypeOK
    <2>3. l \in PC \ {"idle"} /\ l # "delete" /\ l # "completePut"
        BY DEF PC
    <2>4. Good(l, c)
        <3> HIDE DEF c
        <3> QED BY <1>1, <1>4, <2>1, <2>3 DEF Good
    <2> HIDE DEF c
    <2> QED BY <1>3, <1>4, <2>1, <2>2, <2>3, <2>4, MoveKeepsIInv
<1>5. CASE readyToProcess(r) /\ Takes("Queued", r.tries, "lock")
    BY <1>1, <1>2, <1>4, <1>5 DEF JobState, Honest, Earned
<1>6. CASE fallsThrough(r) /\ Takes(r.state, r.tries, "release")
    BY <1>1, <1>2, <1>4, <1>6 DEF Honest, fallsThrough
<1>7. CASE GoIdle(w)
    BY <1>3, <1>7, ReturnKeepsIInv
<1> QED BY <1>5, <1>6, <1>7 DEF Got

LEMMA GetJobKeepsIInv ==
    ASSUME IInv, NEW w \in Workers, GetJob(w) \/ StaleGet(w)
    PROVE  IInv'
<1>1. pc[w] # "idle" /\ Quiet
    BY ConstantsAssumption DEF GetJob, StaleGet, Fault, Quiet, IInv, TypeOK
<1>2. /\ record[cur[w].job] \in Record /\ older[cur[w].job] \in Record
      /\ JobInv(cur[w].job)
    BY <1>1, BusyIsGood DEF IInv, TypeOK
<1> QED BY <1>1, <1>2, GotKeepsIInv DEF GetJob, StaleGet, JobInv

LEMMA LockKeyKeepsIInv ==
    ASSUME IInv, NEW w \in Workers, LockKey(w)
    PROVE  IInv'
<1>1. /\ Good(pc[w], cur[w]) /\ cur[w] \in Copy
    BY BusyIsGood DEF LockKey
<1>2. Quiet
    BY ConstantsAssumption DEF LockKey, Quiet, IInv, TypeOK
<1>3. CASE GoTo(w, "start") /\ UNCHANGED <<cur, spent>>
    <2>1. cur' = [cur EXCEPT ![w] = cur[w]]
        BY <1>3 DEF IInv, TypeOK
    <2>2. "start" \in PC \ {"idle"} /\ Good("start", cur[w])
        BY <1>1 DEF PC, Good
    <2> QED BY <1>1, <1>2, <1>3, <2>1, <2>2, MoveKeepsIInv
<1>4. CASE GoIdle(w)
    BY <1>2, <1>4, ReturnKeepsIInv
<1> QED BY <1>3, <1>4 DEF LockKey

\* Start, CompletePut and ErrorPut: a worker stores the instance c it has.
LEMMA StoreKeepsIInv ==
    ASSUME IInv, NEW w \in Workers, pc[w] # "idle",
           NEW c \in Copy, c.job = cur[w].job, Put(c.job, c.state, c.tries),
           UNCHANGED <<push, queue, hidden, lock, faults, ran>>,
           attempts' \in [Jobs -> Nat],
           \A j \in Jobs : attempts[j] <= attempts'[j],
           c.tries <= attempts'[c.job],
           Earned(c.state, c.tries, attempts'[c.job]),
           \/ GoIdle(w)
           \/ \E l \in {"access", "delete"} :
                 /\ GoTo(w, l)
                 /\ cur' = [cur EXCEPT ![w] = c]
                 /\ l = "delete" => c.state \in Final
                 /\ UNCHANGED spent
    PROVE  IInv'
<1>1. c.job \in Jobs /\ c.state \in JobState /\ c.tries \in Nat
    BY BusyIsGood DEF Copy
<1>2. /\ record' \in [Jobs -> Record]
      /\ record'[c.job].state = c.state
      /\ record'[c.job].tries = c.tries
      /\ \A i \in Jobs \ {c.job} : record'[i] = record[i]
      /\ \A i \in Jobs : record[i].state # "None" => record'[i].state # "None"
      /\ older' \in [Jobs -> Record]
      /\ \A i \in Jobs : older'[i] \in {older[i], record[i]}
      /\ ended' \in [Jobs -> BOOLEAN]
      /\ c.state \in Final => ended'[c.job]
      /\ \A i \in Jobs : ended[i] => ended'[i]
    BY <1>1, PutUpdate DEF IInv
<1>3. \A i \in Jobs : JobInv(i)'
    <2> SUFFICES ASSUME NEW i \in Jobs PROVE JobInv(i)'
        OBVIOUS
    <2>1. /\ record[i] \in Record /\ older[i] \in Record
          /\ attempts[i] \in Nat /\ attempts'[i] \in Nat
          /\ attempts[i] <= attempts'[i] /\ JobInv(i)
        BY DEF IInv, TypeOK
    <2>2. Honest(older[i], i)'
        <3>1. Honest(record[i], i) /\ Honest(older[i], i)
            BY <2>1 DEF JobInv
        <3>2. CASE older'[i] = older[i]
            BY <2>1, <3>1, <3>2, StaysHonest DEF Honest
        <3>3. CASE older'[i] = record[i]
            BY <2>1, <3>1, <3>3, StaysHonest DEF Honest
        <3> QED BY <1>2, <3>2, <3>3
    <2>3. Honest(record[i], i)'
        <3>1. CASE i = c.job
            BY <1>2, <3>1 DEF Honest
        <3>2. CASE i # c.job
            BY <1>2, <2>1, <3>2, StaysHonest DEF Honest, JobInv
        <3> QED BY <3>1, <3>2
    <2>4. c.state # "None"
        BY <1>1 DEF JobState
    <2> QED BY <1>2, <2>1, <2>2, <2>3, <2>4 DEF JobInv
<1>4. CASE GoIdle(w)
    <2>1. /\ pc' \in [Workers -> PC] /\ pc'[w] = "idle"
          /\ cur' \in [Workers -> Copy] /\ cur'[w] = Blank
          /\ spent' \in [Workers -> 0 .. WorkLimit] /\ spent'[w] = 0
          /\ \A v \in Workers \ {w} :
                pc'[v] = pc[v] /\ cur'[v] = cur[v] /\ spent'[v] = spent[v]
        BY <1>4, GoIdleUpdate DEF IInv
    <2>2. TypeOK'
        BY <1>2, <2>1 DEF IInv, TypeOK
    <2>3. \A v \in Workers \ {w} : WorkerInv(v)'
        BY <1>2, <2>1, OthersStayGood
    <2>4. WorkerInv(w)'
        BY <2>1 DEF WorkerInv
    <2> QED BY <1>3, <2>2, <2>3, <2>4 DEF IInv
<1>5. ASSUME NEW l \in {"access", "delete"}, GoTo(w, l),
             cur' = [cur EXCEPT ![w] = c], l = "delete" => c.state \in Final,
             UNCHANGED spent
      PROVE  IInv'
    <2>1. /\ pc' \in [Workers -> PC] /\ pc'[w] = l
          /\ \A v \in Workers \ {w} : pc'[v] = pc[v]
        <3>1. l \in PC
            BY DEF PC
        <3> QED BY <1>5, <3>1, GoToUpdate DEF IInv
    <2>2. /\ cur' \in [Workers -> Copy] /\ cur'[w] = c
          /\ \A v \in Workers \ {w} : cur'[v] = cur[v]
        BY <1>5, CurUpdate DEF IInv
    <2>3. TypeOK'
        BY <1>1, <1>2, <1>5, <2>1, <2>2 DEF IInv, TypeOK
    <2>4. \A v \in Workers \ {w} : WorkerInv(v)'
        BY <1>2, <1>5, <2>1, <2>2, OthersStayGood
    <2>5. WorkerInv(w)'
        <3>1. c.state # "None"
            BY <1>1 DEF JobState
        <3>2. Good(l, c)'
            BY <1>1, <1>2, <1>5, <3>1 DEF Good
        <3> QED BY <2>1, <2>2, <3>2 DEF WorkerInv
    <2> QED BY <1>3, <2>3, <2>4, <2>5 DEF IInv
<1> QED BY <1>4, <1>5

LEMMA StartKeepsIInv ==
    ASSUME IInv, NEW w \in Workers, Start(w)
    PROVE  IInv'
<1> DEFINE j == cur[w].job
           t == cur[w].tries + 1
           c == [cur[w] EXCEPT !.state = "Processing", !.tries = t]
<1>1. /\ Good(pc[w], cur[w]) /\ cur[w] \in Copy /\ j \in Jobs
      /\ cur[w].tries \in Nat /\ pc[w] # "idle"
    BY BusyIsGood DEF Start
<1>2. t \in Nat /\ "Processing" \in JobState
    BY <1>1 DEF JobState
<1>3. c \in Copy /\ c.job = j /\ c.tries = t /\ c.state = "Processing"
    <2> HIDE DEF t
    <2> QED BY <1>1, <1>2 DEF Copy
<1>4. cur' = [cur EXCEPT ![w] = c]
    BY DEF Start, IInv, TypeOK
<1>5. attempts' = [attempts EXCEPT ![j] = @ + 1] /\ attempts \in [Jobs -> Nat]
    BY DEF Start, IInv, TypeOK
<1>6. /\ attempts' \in [Jobs -> Nat]
      /\ \A i \in Jobs : attempts[i] <= attempts'[i]
      /\ attempts'[j] = attempts[j] + 1
      /\ attempts[j] \in Nat
    BY <1>1, <1>5
<1>7. t <= attempts'[j] /\ attempts'[j] >= 1
    BY <1>1, <1>6 DEF Good
<1>8. Earned("Processing", t, attempts'[j])
    BY <1>7 DEF Earned
<1>9. /\ Put(j, "Processing", t)
      /\ GoTo(w, "access")
      /\ UNCHANGED <<push, queue, hidden, lock, spent, faults, ran>>
    BY DEF Start
<1> HIDE DEF c, t, j
<1>10. \E l \in {"access", "delete"} :
          /\ GoTo(w, l)
          /\ cur' = [cur EXCEPT ![w] = c]
          /\ l = "delete" => c.state \in Final
          /\ UNCHANGED spent
    <2>1. "access" \in {"access", "delete"} /\ "access" # "delete"
        OBVIOUS
    <2> QED BY <1>4, <1>9, <2>1
<1> QED BY <1>1, <1>3, <1>6, <1>7, <1>8, <1>9, <1>10, StoreKeepsIInv DEF j

\* Control enters the catch block with the instance that was in the try block.
LEMMA CatchKeepsIInv ==
    ASSUME IInv, Quiet, UNCHANGED spent, NEW w \in Workers, pc[w] # "idle",
           GoCatch(w)
    PROVE  IInv'
<1> DEFINE c == [cur[w] EXCEPT !.inTry = FALSE]
<1>1. Good(pc[w], cur[w]) /\ cur[w] \in Copy
    BY BusyIsGood
<1>2. /\ c \in Copy /\ c.job = cur[w].job
      /\ c.tries = cur[w].tries /\ c.state = cur[w].state
    BY <1>1, CopyInTry
<1>3. cur' = [cur EXCEPT ![w] = c]
    BY DEF GoCatch, IInv, TypeOK
<1>4. GoTo(w, "error") /\ "error" \in PC \ {"idle"}
    BY DEF GoCatch, PC
<1> HIDE DEF c
<1>5. Good("error", c)
    BY <1>1, <1>2 DEF Good
<1> QED BY <1>2, <1>3, <1>4, <1>5, MoveKeepsIInv

LEMMA PullJobKeepsIInv ==
    ASSUME IInv, NEW w \in Workers,
           \/ AccessMessage(w) \/ ProcessSucceeds(w) \/ ProcessFails(w)
           \/ AccessRefused(w) \/ ErrorBehaviorFails(w)
           \/ Crash(w) \/ CallThrows(w)
    PROVE  IInv'
<1>1. pc[w] # "idle" /\ Quiet
    <2>1. pc[w] # "idle"
        BY DEF AccessMessage, ProcessSucceeds, ProcessFails, AccessRefused,
               ErrorBehaviorFails, Crash, CallThrows
    <2>2. UNCHANGED <<push, record, older, queue, hidden, lock, attempts, ended>>
        BY DEF AccessMessage, ProcessSucceeds, ProcessFails, AccessRefused,
               ErrorBehaviorFails, Crash, CallThrows
    <2>3. faults' \in 0 .. MaxFaults
        BY ConstantsAssumption
        DEF AccessMessage, ProcessSucceeds, ProcessFails, AccessRefused,
            ErrorBehaviorFails, Crash, CallThrows, Fault, IInv, TypeOK
    <2>4. ran' \in [Jobs -> BOOLEAN]
        BY DEF AccessMessage, ProcessSucceeds, ProcessFails, AccessRefused,
               ErrorBehaviorFails, Crash, CallThrows, IInv, TypeOK
    <2> QED BY <2>1, <2>2, <2>3, <2>4 DEF Quiet, IInv, TypeOK
<1>2. Good(pc[w], cur[w]) /\ cur[w] \in Copy
    BY <1>1, BusyIsGood
<1>3. CASE AccessMessage(w)
    <2> DEFINE c == [cur[w] EXCEPT !.inTry = TRUE]
    <2>1. /\ c \in Copy /\ c.job = cur[w].job
          /\ c.tries = cur[w].tries /\ c.state = cur[w].state
        BY <1>2, CopyInTry
    <2>2. cur' = [cur EXCEPT ![w] = c]
        BY <1>3 DEF AccessMessage, IInv, TypeOK
    <2>3. GoTo(w, "process") /\ "process" \in PC \ {"idle"} /\ UNCHANGED spent
        BY <1>3 DEF AccessMessage, PC
    <2> HIDE DEF c
    <2>4. Good("process", c)
        BY <1>2, <2>1 DEF Good
    <2> QED BY <1>1, <2>1, <2>2, <2>3, <2>4, MoveKeepsIInv
<1>4. CASE ProcessSucceeds(w)
    <2>1. cur' = [cur EXCEPT ![w] = cur[w]]
        BY <1>4 DEF ProcessSucceeds, IInv, TypeOK
    <2>2. GoTo(w, "release") /\ "release" \in PC \ {"idle"} /\ UNCHANGED spent
        BY <1>4 DEF ProcessSucceeds, PC
    <2>3. Good("release", cur[w])
        BY <1>2 DEF Good
    <2> QED BY <1>1, <1>2, <2>1, <2>2, <2>3, MoveKeepsIInv
<1>5. CASE GoCatch(w) /\ UNCHANGED spent
    BY <1>1, <1>5, CatchKeepsIInv
<1>6. CASE GoIdle(w)
    BY <1>1, <1>6, ReturnKeepsIInv
<1> QED BY <1>3, <1>4, <1>5, <1>6
    DEF ProcessFails, AccessRefused, ErrorBehaviorFails, Crash, CallThrows

\* complete and error: the key is released and the instance moves on.
LEMMA ReleaseKeepsIInv ==
    ASSUME IInv, NEW w \in Workers, CompleteRelease(w) \/ ErrorRelease(w)
    PROVE  IInv'
<1>1. pc[w] # "idle" /\ Quiet
    BY ConstantsAssumption
    DEF CompleteRelease, ErrorRelease, Unlock, Fault, Quiet, IInv, TypeOK
<1>2. /\ Good(pc[w], cur[w]) /\ cur[w] \in Copy
      /\ cur[w].tries \in Nat /\ attempts[cur[w].job] \in Nat
    BY <1>1, BusyIsGood DEF IInv, TypeOK
<1>3. ASSUME NEW st \in JobState, NEW l \in {"completePut", "errorPut"},
             cur' = [cur EXCEPT ![w].state = st], GoTo(w, l), UNCHANGED spent,
             Earned(st, cur[w].tries, attempts[cur[w].job]),
             l = "completePut" => st = "Complete"
      PROVE  IInv'
    <2> DEFINE c == [cur[w] EXCEPT !.state = st]
    <2>1. /\ c \in Copy /\ c.job = cur[w].job
          /\ c.tries = cur[w].tries /\ c.state = st
        BY <1>2, CopyState
    <2>2. cur' = [cur EXCEPT ![w] = c]
        BY <1>3 DEF IInv, TypeOK
    <2>3. l \in PC \ {"idle"} /\ l # "delete"
        BY DEF PC
    <2> HIDE DEF c
    <2>4. Good(l, c)
        BY <1>2, <1>3, <2>1, <2>3 DEF Good
    <2> QED BY <1>1, <1>3, <2>1, <2>2, <2>3, <2>4, MoveKeepsIInv
<1>4. cur[w].state = "Processing" => attempts[cur[w].job] >= 1
    BY <1>2 DEF Good, Earned
<1>5. CASE CompleteRelease(w) /\ ~GoIdle(w)
    <2>1. /\ cur[w].state = "Processing"
          /\ cur' = [cur EXCEPT ![w].state = "Complete"]
          /\ GoTo(w, "completePut") /\ UNCHANGED spent
        BY <1>5 DEF CompleteRelease, MayComplete
    <2>2. Earned("Complete", cur[w].tries, attempts[cur[w].job])
        BY <1>4, <2>1 DEF Earned
    <2> QED BY <1>3, <2>1, <2>2 DEF JobState
<1>6. CASE ErrorRelease(w) /\ ~GoIdle(w)
    <2> DEFINE st == IF Retrying(w) THEN "Queued" ELSE "Error"
    <2>1. /\ Retrying(w) \/ cur[w].state = "Processing"
          /\ cur' = [cur EXCEPT ![w].state = st]
          /\ GoTo(w, "errorPut") /\ UNCHANGED spent
        BY <1>6 DEF ErrorRelease, MayError
    <2>2. st \in JobState /\ Earned(st, cur[w].tries, attempts[cur[w].job])
        BY <1>2, <1>4, <2>1, ConstantsAssumption DEF Earned, Retrying, JobState
    <2> QED BY <1>3, <2>1, <2>2
<1>7. CASE GoIdle(w)
    BY <1>1, <1>7, ReturnKeepsIInv
<1> QED BY <1>5, <1>6, <1>7

LEMMA FinishKeepsIInv ==
    ASSUME IInv, NEW w \in Workers, CompletePut(w) \/ ErrorPut(w) \/ Delete(w)
    PROVE  IInv'
<1>1. pc[w] # "idle"
    BY DEF CompletePut, ErrorPut, Delete
<1>2. /\ Good(pc[w], cur[w]) /\ cur[w] \in Copy
      /\ cur[w].job \in Jobs /\ attempts \in [Jobs -> Nat]
      /\ attempts[cur[w].job] \in Nat
    BY <1>1, BusyIsGood DEF IInv, TypeOK
<1>3. CASE CompletePut(w) \/ ErrorPut(w)
    <2>1. /\ Put(cur[w].job, cur[w].state, cur[w].tries)
          /\ UNCHANGED <<push, queue, hidden, lock, faults, attempts, ran>>
        BY <1>3 DEF CompletePut, ErrorPut, PutCur
    <2>2. \/ GoIdle(w)
          \/ /\ GoTo(w, "delete") /\ UNCHANGED <<cur, spent>>
             /\ cur[w].state \in Final
        BY <1>2, <1>3 DEF CompletePut, ErrorPut, Good, Final
    <2>3. cur = [cur EXCEPT ![w] = cur[w]]
        BY DEF IInv, TypeOK
    <2>4. \/ GoIdle(w)
          \/ \E l \in {"access", "delete"} :
                /\ GoTo(w, l)
                /\ cur' = [cur EXCEPT ![w] = cur[w]]
                /\ l = "delete" => cur[w].state \in Final
                /\ UNCHANGED spent
        BY <2>2, <2>3
    <2>5. \A j \in Jobs : attempts[j] <= attempts'[j]
        BY <1>2, <2>1
    <2>6. /\ attempts' \in [Jobs -> Nat]
          /\ cur[w].tries <= attempts'[cur[w].job]
          /\ Earned(cur[w].state, cur[w].tries, attempts'[cur[w].job])
        BY <1>2, <2>1 DEF Good
    <2> QED BY <1>1, <1>2, <2>1, <2>4, <2>5, <2>6, StoreKeepsIInv
<1>4. CASE Delete(w)
    <2>1. Quiet
        BY <1>4, ConstantsAssumption DEF Delete, Quiet, IInv, TypeOK
    <2>2. CASE GoCatch(w) /\ UNCHANGED spent
        BY <1>1, <2>1, <2>2, CatchKeepsIInv
    <2>3. CASE GoIdle(w)
        BY <2>1, <2>3, ReturnKeepsIInv
    <2> QED BY <1>4, <2>2, <2>3 DEF Delete
<1> QED BY <1>3, <1>4

\* A tick ages the documents and changes nothing else in them.
LEMMA Ages ==
    ASSUME NEW r \in Record
    PROVE  /\ [r EXCEPT !.fresh = Down(@)] \in Record
           /\ [r EXCEPT !.fresh = Down(@)].state = r.state
           /\ [r EXCEPT !.fresh = Down(@)].tries = r.tries
<1>1. Down(r.fresh) \in 0 .. FreshFor
    BY ConstantsAssumption DEF Record, Down
<1> QED BY <1>1 DEF Record

LEMMA TickAges ==
    ASSUME TypeOK, Tick, NEW j \in Jobs
    PROVE  /\ record'[j].state = record[j].state
           /\ record'[j].tries = record[j].tries
           /\ record'[j] \in Record
           /\ older'[j].state = older[j].state
           /\ older'[j].tries = older[j].tries
           /\ older'[j] \in Record
<1>1. record[j] \in Record /\ older[j] \in Record
    BY DEF TypeOK
<1>2. /\ record'[j] = [record[j] EXCEPT !.fresh = Down(@)]
      /\ older'[j] = [older[j] EXCEPT !.fresh = Down(@)]
    BY DEF Tick
<1> QED BY <1>1, <1>2, Ages

LEMMA TickKeepsIInv ==
    ASSUME IInv, Tick
    PROVE  IInv'
<1> USE ConstantsAssumption DEF IInv
<1>1. TypeOK'
    <2>1. record' \in [Jobs -> Record] /\ older' \in [Jobs -> Record]
        BY TickAges DEF Tick
    <2>2. hidden' \in [Jobs -> 0 .. HiddenFor]
        BY DEF Tick, TypeOK, Down
    <2>3. lock' \in [Keys -> 0 .. LockFor]
        <3>1. \A k \in Keys : Down(lock[k]) \in 0 .. LockFor
            BY DEF TypeOK, Down
        <3> QED BY <3>1 DEF Tick, TypeOK
    <2>4. spent' \in [Workers -> 0 .. WorkLimit]
        BY DEF Tick, TypeOK
    <2> QED BY <2>1, <2>2, <2>3, <2>4 DEF Tick, TypeOK
<1>2. \A j \in Jobs : /\ record'[j].state = record[j].state
                      /\ record'[j].tries = record[j].tries
                      /\ older'[j].state = older[j].state
                      /\ older'[j].tries = older[j].tries
    BY TickAges
<1>3. \A j \in Jobs : JobInv(j)'
    BY <1>2 DEF Tick, JobInv, Honest
<1>4. \A w \in Workers : WorkerInv(w)'
    BY <1>2 DEF Tick, TypeOK, WorkerInv, Good
<1> QED BY <1>1, <1>3, <1>4

LEMMA NextKeepsIInv == IInv /\ [Next]_vars => IInv'
<1> SUFFICES ASSUME IInv, [Next]_vars PROVE IInv'
    OBVIOUS
<1>1. CASE UNCHANGED vars
    BY <1>1 DEF vars, IInv, TypeOK, JobInv, Honest, WorkerInv, Good
<1>2. CASE \E j \in Jobs : PushStep(j)
    BY <1>2, PushKeepsIInv
<1>3. CASE \E w \in Workers, j \in Jobs : Read(w, j)
    BY <1>3, ReadKeepsIInv
<1>4. CASE \E w \in Workers : WorkerStep(w)
    BY <1>4, GetJobKeepsIInv, LockKeyKeepsIInv, StartKeepsIInv, PullJobKeepsIInv,
       ReleaseKeepsIInv, FinishKeepsIInv DEF WorkerStep
<1>5. CASE FaultStep
    BY <1>5, PullJobKeepsIInv, PushKeepsIInv, GetJobKeepsIInv DEF FaultStep
<1>6. CASE Tick
    BY <1>6, TickKeepsIInv
<1> QED BY <1>1, <1>2, <1>3, <1>4, <1>5, <1>6 DEF Next

(* The inductive invariant of the four theorems that follow holds whatever  *)
(* calls of the Resource, the transport or the Cache throw or come late.    *)
THEOREM InvariantHolds == Spec => []IInv
<1> QED BY InitIInv, NextKeepsIInv, PTL DEF Spec

-----------------------------------------------------------------------------
(* The theorems                                                            *)

\* Every variable keeps its type: in particular the state of an instance that
\* getJob returned is a JobState, because there always was a record to return.
THEOREM TypeCorrect == Spec => []TypeOK
<1>1. IInv => TypeOK
    BY DEF IInv
<1> QED BY <1>1, InvariantHolds, PTL

\* getJob never returns null to pop: whoever holds the identifier of a job
\* read from the transport finds a record of it.
THEOREM RecordsExist == Spec => []MessageHasRecord
<1>1. IInv => MessageHasRecord
    <2> SUFFICES ASSUME IInv PROVE MessageHasRecord
        OBVIOUS
    <2>1. \A j \in queue : record[j].state # "None"
        BY DEF IInv, TypeOK, JobInv
    <2>2. \A w \in Workers : pc[w] # "idle" => record[cur[w].job].state # "None"
        BY BusyIsGood DEF Good
    <2> QED BY <2>1, <2>2 DEF MessageHasRecord
<1> QED BY <1>1, InvariantHolds, PTL

\* No job is parked in Error before MaxTries attempts, or Complete before one,
\* whatever workers and pushers overwrite with stale instances.
THEOREM FinalStatesAreEarned == Spec => []FinalIsEarned
<1>1. IInv => FinalIsEarned
    <2> SUFFICES ASSUME IInv, NEW j \in Jobs
                 PROVE  /\ record[j].state = "Error" => attempts[j] >= MaxTries
                        /\ record[j].state = "Complete" => attempts[j] >= 1
        BY DEF FinalIsEarned
    <2>1. record[j] \in Record /\ attempts[j] \in Nat
        BY DEF IInv, TypeOK
    <2>2. record[j].tries \in Nat
        BY <2>1 DEF Record
    <2>3. JobInv(j)
        BY DEF IInv
    <2> QED BY <2>1, <2>2, <2>3, ConstantsAssumption DEF JobInv, Honest, Earned
<1> QED BY <1>1, InvariantHolds, PTL

\* A message leaves the transport only once its job was stored as Complete or
\* Error: only Delete removes messages, and a worker about to delete has put.
THEOREM DeletionsAreEarned == Spec => DeletedOnlyOnceEnded
<1> DEFINE Step == \A j \in Jobs : j \in queue /\ j \notin queue' => ended[j]
<1>1. IInv /\ [Next]_vars => [Step]_vars
    <2> SUFFICES ASSUME IInv, [Next]_vars, NEW j \in Jobs,
                        j \in queue, j \notin queue'
                 PROVE  ended[j]
        OBVIOUS
    <2>1. PICK w \in Workers : Delete(w)
        BY DEF Next, vars, PushStep, WorkerStep, FaultStep,
               PushPutCreated, PushWrite, PushPutQueued, PushCrash, Redeliver,
               Read, GetJob, StaleGet, LockKey, Start, AccessMessage, AccessRefused,
               ProcessSucceeds, ProcessFails, ErrorBehaviorFails,
               CompleteRelease, CompletePut, ErrorRelease, ErrorPut,
               Crash, CallThrows, Tick
    <2>2. pc[w] = "delete" /\ queue' = queue \ {cur[w].job}
        BY <2>1 DEF Delete
    <2>3. ended[cur[w].job]
        BY <2>2 DEF IInv, WorkerInv, Good
    <2> QED BY <2>2, <2>3
<1> QED BY <1>1, InvariantHolds, PTL DEF Spec, DeletedOnlyOnceEnded
=============================================================================
