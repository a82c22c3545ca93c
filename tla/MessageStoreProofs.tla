-------------------------- MODULE MessageStoreProofs --------------------------
(***************************************************************************)
(* What MessageStore guarantees for every set of keys, posts, behaviors,   *)
(* threads and jobs: its types, and what a complete and a repeated job     *)
(* have done.  MessageCopiesProofs is about the messages themselves.       *)
(***************************************************************************)
EXTENDS MessageStore, TLAPS, SequenceTheorems, FunctionTheorems, FiniteSetTheorems

-----------------------------------------------------------------------------
(* The inductive invariant                                                 *)

\* The items of the notes that new messages have.
NoteItems == {values["notes"].items[1] :
                 values \in {v \in NewValues : "notes" \in DOMAIN v}}

\* A message as the program makes it: a count is a number, notes are a list.
Formed(m) ==
    /\ DOMAIN m = {"there", "values", "behavior", "stems"}
    /\ m.there \in BOOLEAN /\ m.stems \in BOOLEAN
    /\ m.behavior \subseteq BehaviorType
    /\ DOMAIN m.values \subseteq Names
    /\ "count" \in DOMAIN m.values => \E n \in Nat : m.values["count"] = Number(n)
    /\ "notes" \in DOMAIN m.values =>
          \E s \in Seq(NoteItems) : m.values["notes"] = ListOf(s)

FormInv ==
    /\ DOMAIN message = Keys /\ DOMAIN held = Threads /\ DOMAIN own = Workers
    /\ \A k \in Keys : Formed(message[k])
    /\ \A t \in Threads : Formed(held[t])
    /\ \A w \in Workers : Formed(own[w])

ClientPC == {"new", "put", "push", "done"}
WorkerPC == {"idle", "access", "run", "effect", "store", "putNew", "pushNew",
             "finish", "catch", "fail", "over"}

\* What worker w has in hand fits where it is in pullJob.
Placed(w) ==
    /\ pc[w] \in WorkerPC
    /\ pc[w] = "idle" => work[w] = NoWork
    /\ pc[w] # "idle" => \/ status[work[w].job] = "processing"
                         \/ work[w].then = "over" /\ status[work[w].job] = "complete"
    /\ pc[w] \in {"access", "run"} => ~work[w].fresh
    /\ pc[w] \in {"store", "putNew", "pushNew"} => work[w].todo # <<>>
    /\ work[w].todo # <<>> =>
          /\ pc[w] \in {"effect", "store", "putNew", "pushNew"}
          /\ work[w].then = "finish"
    /\ pc[w] = "pushNew" => Head(work[w].todo).persist
    /\ work[w].then = "fail" => pc[w] \in {"effect", "fail"}
    /\ work[w].then = "over" => pc[w] \in {"catch", "effect", "over"}

\* A job that may be taken may be tried once more.
ServiceInv ==
    /\ ServiceTypeOK
    /\ \A j \in Jobs : status[j] \in {"absent", "queued"} => tries[j] < MaxTries

\* The types of all but the messages.
Types ==
    /\ ServiceInv
    /\ locked \subseteq Keys /\ robbed \subseteq Keys /\ recovered \subseteq Jobs
    /\ kind \in [Jobs -> BehaviorType]
    /\ pc \in [Threads -> PC]
    /\ work \in [Workers -> Work]
    /\ \A w \in Workers : pc[w] # "idle" <=> work[w].job \in Jobs
    /\ faults \in 0 .. MaxFaults
    /\ stale \subseteq Copies
    /\ overlapped \subseteq Keys /\ deleted \subseteq Keys
    /\ applied \in [Keys -> Nat] /\ noted \in [Keys -> Nat]
    /\ asked \in [Jobs -> Seq(NewMessage)]
    /\ stored \in [Jobs -> [Keys -> Nat]]
    /\ got \in [Jobs -> [Keys -> Nat]]

\* One worker per job; one worker per key, which is locked, unless it was
\* released from under a worker.
ApartInv ==
    /\ \A v, w \in Workers :
          pc[v] # "idle" /\ pc[w] # "idle" /\ work[v].job = work[w].job => v = w
    /\ \A v, w \in Workers :
          pc[v] # "idle" /\ pc[w] # "idle" /\ Key(v) = Key(w) /\ Key(v) \notin robbed
          => v = w
    /\ \A w \in Workers : pc[w] # "idle" /\ Key(w) \notin robbed => Key(w) \in locked

WorkInv ==
    /\ Types
    /\ FormInv
    /\ \A c \in Clients : pc[c] \in ClientPC
    /\ \A w \in Workers : Placed(w)
    /\ ApartInv

\* The new message n that job j asked for was stored, and its job submitted.
Done(j, n) == stored[j][n.key] >= 1 /\ (n.persist => got[j][n.key] >= 1)

\* Every new message of the run of w's job is done, or still to do.
Progress(w) ==
    /\ pc[w] \in {"effect", "store", "putNew", "pushNew", "finish"}
       /\ work[w].then = "finish" =>
          \A i \in DOMAIN asked[work[w].job] :
             \/ Done(work[w].job, asked[work[w].job][i])
             \/ \E n \in DOMAIN work[w].todo : work[w].todo[n] = asked[work[w].job][i]
    /\ pc[w] = "pushNew" => stored[work[w].job][Head(work[w].todo).key] >= 1

DoneInv ==
    /\ CompleteHasEffects
    /\ \A w \in Workers : Progress(w)

\* What worker w is still to store adds to what was stored for the job no more
\* than one try does.
Repeated(w) ==
    LET j == work[w].job
        todo == work[w].todo
        left == IF pc[w] = "pushNew" THEN Tail(todo) ELSE todo
        most(k) == tries[j] * HowMany(NewMessages[KeyOf[j]], k)
    IN  /\ pc[w] \in {"access", "run"} =>
              \A k \in Keys : stored[j][k] + HowMany(NewMessages[KeyOf[j]], k) <= most(k)
        /\ todo # <<>> => \A k \in Keys : stored[j][k] + HowMany(left, k) <= most(k)
        /\ pc[w] = "pushNew" => got[j][Head(todo).key] < stored[j][Head(todo).key]

RepeatInv ==
    /\ RepeatsAreTries
    /\ \A w \in Workers : Repeated(w)

-----------------------------------------------------------------------------
(* Messages and their values                                               *)

\* The values a message may come with: a result, maybe one note.
Incoming(v) ==
    /\ DOMAIN v \subseteq {"notes", "result"}
    /\ "notes" \in DOMAIN v =>
          \E item \in NoteItems : v["notes"] = ListOf(<<item>>)

LEMMA NoMessageFormed ==
    Formed(NoMessage) /\ Count(NoMessage) = 0 /\ Notes(NoMessage) = 0
BY DEF Formed, NoMessage, NoValues, Count, Notes

LEMMA CountsTyped ==
    ASSUME NEW m, Formed(m)
    PROVE  Count(m) \in Nat /\ Notes(m) \in Nat
<1>1. Count(m) \in Nat
    <2>1. CASE "count" \in DOMAIN m.values
        <3>1. PICK n \in Nat : m.values["count"] = Number(n)
            BY <2>1 DEF Formed
        <3>2. Count(m) = n
            BY <2>1, <3>1 DEF Count, Number
        <3> QED BY <3>2
    <2>2. CASE "count" \notin DOMAIN m.values
        BY <2>2 DEF Count
    <2> QED BY <2>1, <2>2
<1>2. Notes(m) \in Nat
    <2>1. CASE "notes" \in DOMAIN m.values
        <3>1. PICK s \in Seq(NoteItems) : m.values["notes"] = ListOf(s)
            BY <2>1 DEF Formed
        <3>2. Notes(m) = Len(s)
            BY <2>1, <3>1 DEF Notes, ListOf
        <3> QED BY <3>2, LenProperties
    <2>2. CASE "notes" \notin DOMAIN m.values
        BY <2>2 DEF Notes
    <2> QED BY <2>1, <2>2
<1> QED BY <1>1, <1>2

\* A merge keeps the count, adds the note that comes to those that are there,
\* and keeps the behaviors.
LEMMA MergedFormed ==
    ASSUME NEW m, Formed(m), NEW v, Incoming(v), NEW types \in SUBSET BehaviorType,
           NEW s \in BOOLEAN
    PROVE  /\ Formed(Merged(m, v, types, s))
           /\ Count(Merged(m, v, types, s)) = Count(m)
           /\ Notes(Merged(m, v, types, s)) =
                 IF "notes" \in DOMAIN v THEN Notes(m) + 1 ELSE Notes(m)
           /\ Merged(m, v, types, s).behavior = m.behavior \cup types
<1> DEFINE r == Merged(m, v, types, s)
           values == mergeValues(m.values, v)
<1>1. /\ DOMAIN r = {"there", "values", "behavior", "stems"}
      /\ r.there = TRUE /\ r.values = values
      /\ r.behavior = m.behavior \cup types
      /\ r.stems \in BOOLEAN
    BY DEF Merged, Formed
<1>2. /\ DOMAIN values = DOMAIN m.values \cup DOMAIN v
      /\ \A n \in DOMAIN m.values \ DOMAIN v : values[n] = m.values[n]
      /\ \A n \in DOMAIN v :
            values[n] = IF n \in DOMAIN m.values
                        THEN mergedValue(m.values[n], v[n]) ELSE v[n]
    BY DEF mergeValues, putAll
<1> HIDE DEF values, r
<1>3. DOMAIN values \subseteq Names
    BY <1>2 DEF Formed, Incoming, Names
<1>4. /\ "count" \in DOMAIN values <=> "count" \in DOMAIN m.values
      /\ "count" \in DOMAIN values => values["count"] = m.values["count"]
    BY <1>2 DEF Incoming
<1>5. /\ "notes" \in DOMAIN values => \E l \in Seq(NoteItems) : values["notes"] = ListOf(l)
      /\ Notes(r) = IF "notes" \in DOMAIN v THEN Notes(m) + 1 ELSE Notes(m)
    <2>1. CASE "notes" \notin DOMAIN v
        <3>1. /\ "notes" \in DOMAIN values <=> "notes" \in DOMAIN m.values
              /\ "notes" \in DOMAIN values => values["notes"] = m.values["notes"]
            BY <1>2, <2>1
        <3> QED BY <1>1, <2>1, <3>1 DEF Formed, Notes
    <2>2. CASE "notes" \in DOMAIN v
        <3>1. PICK item \in NoteItems : v["notes"] = ListOf(<<item>>)
            BY <2>2 DEF Incoming
        <3>2. <<item>> \in Seq(NoteItems) /\ Len(<<item>>) = 1
            OBVIOUS
        <3>3. CASE "notes" \in DOMAIN m.values
            <4>1. PICK l \in Seq(NoteItems) : m.values["notes"] = ListOf(l)
                BY <3>3 DEF Formed
            <4>2. mergedValue(ListOf(l), ListOf(<<item>>)) = ListOf(l \o <<item>>)
                BY DEF mergedValue, ListOf
            <4>3. values["notes"] = ListOf(l \o <<item>>) /\ "notes" \in DOMAIN values
                BY <1>2, <2>2, <3>1, <3>3, <4>1, <4>2
            <4>4. l \o <<item>> \in Seq(NoteItems) /\ Len(l \o <<item>>) = Len(l) + 1
                BY <3>2, ConcatProperties
            <4>5. Notes(r) = Len(l \o <<item>>) /\ Notes(m) = Len(l)
                BY <1>1, <3>3, <4>1, <4>3 DEF Notes, ListOf
            <4> QED BY <2>2, <4>3, <4>4, <4>5
        <3>4. CASE "notes" \notin DOMAIN m.values
            <4>1. values["notes"] = ListOf(<<item>>) /\ "notes" \in DOMAIN values
                BY <1>2, <2>2, <3>1, <3>4
            <4>2. Notes(r) = 1 /\ Notes(m) = 0
                BY <1>1, <3>2, <3>4, <4>1 DEF Notes, ListOf
            <4>3. \E l \in Seq(NoteItems) : values["notes"] = ListOf(l)
                BY <3>2, <4>1
            <4> QED BY <2>2, <4>2, <4>3
        <3> QED BY <3>3, <3>4
    <2> QED BY <2>1, <2>2
<1>6. Formed(r)
    BY <1>1, <1>3, <1>4, <1>5 DEF Formed
<1>7. Count(r) = Count(m)
    BY <1>1, <1>4 DEF Count
<1> QED BY <1>1, <1>5, <1>6, <1>7 DEF r

\* The message that a behavior leaves in the hands of worker w.
LEMMA LeftFormed ==
    ASSUME FormInv, NEW w \in Workers, NEW counts \in BOOLEAN, NEW result,
           Left(w, counts, result)
    PROVE  /\ DOMAIN own' = Workers
           /\ \A u \in Workers \ {w} : own'[u] = own[u]
           /\ Formed(own'[w])
           /\ Count(own'[w]) = IF counts THEN Count(own[w]) + 1 ELSE Count(own[w])
           /\ Notes(own'[w]) = Notes(own[w])
           /\ own'[w].behavior = own[w].behavior
<1> DEFINE meta == [n \in {"result"} \cup (IF counts THEN {"count"} ELSE {}) |->
                       IF n = "count" THEN Number(Count(own[w]) + 1) ELSE result]
           m == own[w]
           r == [m EXCEPT !.values = putAll(@, meta)]
           values == putAll(m.values, meta)
<1>1. own' = [own EXCEPT ![w] = r]
    BY DEF Left
<1>2. DOMAIN own = Workers /\ Formed(m)
    BY DEF FormInv
<1>3. /\ DOMAIN meta = IF counts THEN {"result", "count"} ELSE {"result"}
      /\ counts => meta["count"] = Number(Count(m) + 1)
    OBVIOUS
<1> HIDE DEF meta
<1>4. /\ DOMAIN values = DOMAIN m.values \cup DOMAIN meta
      /\ \A n \in DOMAIN meta : values[n] = meta[n]
      /\ \A n \in DOMAIN m.values \ DOMAIN meta : values[n] = m.values[n]
    BY DEF putAll
<1>5. /\ DOMAIN r = {"there", "values", "behavior", "stems"}
      /\ r.there = m.there /\ r.stems = m.stems /\ r.behavior = m.behavior
      /\ r.values = values
    BY <1>2 DEF Formed
<1> HIDE DEF values, r
<1>6. own'[w] = r /\ DOMAIN own' = Workers /\ \A u \in Workers \ {w} : own'[u] = own[u]
    BY <1>1, <1>2
<1>7. /\ "notes" \in DOMAIN values <=> "notes" \in DOMAIN m.values
      /\ "notes" \in DOMAIN values => values["notes"] = m.values["notes"]
    BY <1>3, <1>4
<1>8. /\ counts => "count" \in DOMAIN values /\ values["count"] = Number(Count(m) + 1)
      /\ ~counts => /\ "count" \in DOMAIN values <=> "count" \in DOMAIN m.values
                    /\ "count" \in DOMAIN values => values["count"] = m.values["count"]
    BY <1>3, <1>4
<1>9. Notes(r) = Notes(m)
    BY <1>5, <1>7 DEF Notes
<1>10. Count(r) = IF counts THEN Count(m) + 1 ELSE Count(m)
    BY <1>5, <1>8 DEF Count, Number
<1>11. Formed(r)
    <2>1. DOMAIN values \subseteq Names
        BY <1>2, <1>3, <1>4 DEF Formed, Names
    <2>2. "count" \in DOMAIN values => \E n \in Nat : values["count"] = Number(n)
        <3>1. Count(m) + 1 \in Nat
            BY <1>2, CountsTyped
        <3> QED BY <1>2, <1>8, <3>1 DEF Formed
    <2> QED BY <1>2, <1>5, <1>7, <2>1, <2>2 DEF Formed
<1> QED BY <1>5, <1>6, <1>9, <1>10, <1>11

\* What clients post and behaviors ask for.
LEMMA InputsTyped ==
    /\ \A c \in Clients : /\ Posts[c].key \in Keys
                          /\ Posts[c].type \in BehaviorType
                          /\ Incoming(Posts[c].values)
                          /\ "notes" \notin DOMAIN Posts[c].values
    /\ \A k \in Keys : NewMessages[k] \in Seq(NewMessage)
    /\ \A n \in NewMessage : /\ n.key \in Keys /\ n.persist \in BOOLEAN
                             /\ Incoming(n.values)
<1>1. \A v \in NewValues : Incoming(v)
    <2> SUFFICES ASSUME NEW v \in NewValues PROVE Incoming(v)
        OBVIOUS
    <2>1. /\ DOMAIN v \subseteq {"notes", "result"}
          /\ "notes" \in DOMAIN v => v["notes"] = ListOf(<<v["notes"].items[1]>>)
        BY StoreAssumption
    <2>2. "notes" \in DOMAIN v => v["notes"].items[1] \in NoteItems
        BY DEF NoteItems
    <2> QED BY <2>1, <2>2 DEF Incoming
<1>2. \A n \in NewMessage : n.key \in Keys /\ n.persist \in BOOLEAN /\ n.values \in NewValues
    BY DEF NewMessage
<1>3. \A c \in Clients : Incoming(Posts[c].values) /\ "notes" \notin DOMAIN Posts[c].values
    BY StoreAssumption DEF Incoming
<1> QED BY <1>1, <1>2, <1>3, StoreAssumption

-----------------------------------------------------------------------------
(* Threads and the work they have                                          *)

\* What a worker has in hand.
LEMMA WorkerTyped ==
    ASSUME Types, NEW w \in Workers
    PROVE  /\ w \in Threads /\ w \notin Clients
           /\ work[w] \in Work
           /\ pc[w] # "idle" =>
                 /\ work[w].job \in Jobs /\ Key(w) \in Keys
                 /\ kind[work[w].job] \in BehaviorType
           /\ work[w].todo \in Seq(NewMessage)
           /\ work[w].todo # <<>> =>
                 /\ Head(work[w].todo) \in NewMessage /\ HeldKey(w) \in Keys
                 /\ Tail(work[w].todo) \in Seq(NewMessage)
<1>1. w \in Threads /\ w \notin Clients
    BY StoreAssumption DEF Threads
<1>2. work[w] \in Work /\ work[w].todo \in Seq(NewMessage)
    BY DEF Types, Work
<1>3. pc[w] # "idle" => /\ work[w].job \in Jobs /\ Key(w) \in Keys
                        /\ kind[work[w].job] \in BehaviorType
    BY StoreAssumption DEF Types, Key
<1>4. ASSUME work[w].todo # <<>>
      PROVE  /\ Head(work[w].todo) \in NewMessage /\ HeldKey(w) \in Keys
             /\ Tail(work[w].todo) \in Seq(NewMessage)
    <2>1. /\ Head(work[w].todo) \in NewMessage
          /\ Tail(work[w].todo) \in Seq(NewMessage)
        BY <1>2, <1>4, HeadTailProperties
    <2>2. HeldKey(w) = Head(work[w].todo).key
        BY <1>1 DEF HeldKey
    <2> QED BY <2>1, <2>2, InputsTyped
<1> QED BY <1>1, <1>2, <1>3, <1>4

LEMMA FormedIsMessage ==
    ASSUME NEW m, Formed(m)
    PROVE  IsMessage(m)
<1>1. "count" \in DOMAIN m.values => m.values["count"].type = "number"
    BY DEF Formed, Number
<1>2. "notes" \in DOMAIN m.values => m.values["notes"].type = "list"
    BY DEF Formed, ListOf
<1> QED BY <1>1, <1>2 DEF Formed, IsMessage

\* Two workers that are not idle work on different jobs, and on jobs of one key
\* only if it was released from under one.
LEMMA KeysApart ==
    ASSUME WorkInv, NEW v \in Workers, NEW w \in Workers, v # w,
           pc[v] # "idle", pc[w] # "idle"
    PROVE  work[v].job # work[w].job /\ (Key(v) = Key(w) => Key(v) \in robbed)
BY DEF WorkInv, ApartInv

\* A step after which every worker has what it had, or what fits its place and
\* no other job, and which leaves the jobs that workers have alone, and their
\* keys locked, unless a key is released from under its worker.
LEMMA ApartKept ==
    ASSUME WorkInv,
           \A c \in Clients : pc'[c] \in ClientPC,
           \A u \in Workers :
              \/ pc'[u] = pc[u] /\ work'[u] = work[u]
              \/ /\ Placed(u)'
                 /\ pc'[u] = "idle" \/ (pc[u] # "idle" /\ work'[u].job = work[u].job),
           \A j \in Jobs :
              \/ status'[j] = status[j]
              \/ status[j] = "absent"
              \/ \A u \in Workers : pc'[u] # "idle" /\ work[u].job = j => Placed(u)',
           robbed \subseteq robbed',
           \A u \in Workers : /\ pc'[u] # "idle" /\ Key(u) \in locked
                              /\ Key(u) \notin robbed'
                              => Key(u) \in locked'
    PROVE  /\ \A c \in Clients : pc'[c] \in ClientPC
           /\ \A w \in Workers : Placed(w)'
           /\ ApartInv'
<1>1. ASSUME NEW w \in Workers PROVE Placed(w)'
    <2>1. CASE pc'[w] = pc[w] /\ work'[w] = work[w]
        <3>1. Placed(w)
            BY DEF WorkInv
        <3>2. pc[w] # "idle" => work[w].job \in Jobs /\ status[work[w].job] # "absent"
            BY <3>1, WorkerTyped DEF WorkInv, Placed
        <3>3. CASE pc[w] = "idle" \/ status'[work[w].job] = status[work[w].job]
            BY <2>1, <3>1, <3>3 DEF Placed
        <3>4. CASE pc[w] # "idle" /\ status'[work[w].job] # status[work[w].job]
            BY <2>1, <3>2, <3>4
        <3> QED BY <3>3, <3>4
    <2>2. CASE ~(pc'[w] = pc[w] /\ work'[w] = work[w])
        BY <2>2
    <2> QED BY <2>1, <2>2
<1>2. \A v, w \in Workers :
         pc'[v] # "idle" /\ pc'[w] # "idle" /\ work'[v].job = work'[w].job => v = w
    <2>1. \A u \in Workers : pc'[u] # "idle" =>
              pc[u] # "idle" /\ work'[u].job = work[u].job
        OBVIOUS
    <2> QED BY <2>1 DEF WorkInv, ApartInv
<1>3. \A u \in Workers : pc'[u] # "idle" => pc[u] # "idle" /\ Key(u)' = Key(u)
    BY DEF Key
<1>4. /\ \A v, w \in Workers :
            /\ pc'[v] # "idle" /\ pc'[w] # "idle" /\ Key(v)' = Key(w)'
            /\ Key(v)' \notin robbed'
            => v = w
      /\ \A w \in Workers :
            pc'[w] # "idle" /\ Key(w)' \notin robbed' => Key(w)' \in locked'
    BY <1>3 DEF WorkInv, ApartInv
<1>5. ApartInv'
    BY <1>2, <1>4 DEF ApartInv
<1> QED BY <1>1, <1>5

-----------------------------------------------------------------------------
(* Steps of storeMessage                                                   *)

\* The read finds the message as it is, or is stale.
LEMMA ReadEffect ==
    ASSUME WorkInv, NEW t \in Threads, NEW k \in Keys, NEW v, Incoming(v),
           NEW types \in SUBSET BehaviorType, NEW s \in BOOLEAN,
           StoreRead(t, k, v, types, s)
    PROVE  /\ \E m : /\ Formed(m)
                     /\ held' = [held EXCEPT ![t] = Merged(m, v, types, s)]
                     /\ \/ m = message[k] /\ stale' = stale \ {<<t, "held">>}
                        \/ stale' = stale \cup {<<t, "held">>}
           /\ stale' \subseteq Copies
           /\ DOMAIN held' = Threads /\ \A u \in Threads : Formed(held'[u])
           /\ UNCHANGED <<message, overlapped, deleted, applied, noted, stored>>
<1>1. PICK m \in Reads(t, k) :
              /\ held' = [held EXCEPT ![t] = Merged(m, v, types, s)]
              /\ stale' = IF m = message[k] THEN stale \ {<<t, "held">>}
                          ELSE stale \cup {<<t, "held">>}
    BY DEF StoreRead
<1>2. Formed(m)
    BY NoMessageFormed DEF Reads, WorkInv, FormInv
<1>3. Formed(Merged(m, v, types, s))
    BY <1>2, MergedFormed
<1>4. DOMAIN held' = Threads /\ \A u \in Threads : Formed(held'[u])
    BY <1>1, <1>3 DEF WorkInv, FormInv
<1>5. stale' \subseteq Copies
    BY <1>1 DEF WorkInv, Types, Copies
<1> QED BY <1>1, <1>2, <1>4, <1>5 DEF StoreRead

\* The put overwrites the message and makes the other copies stale.
LEMMA PutEffect ==
    ASSUME WorkInv, NEW t \in Threads, NEW k \in Keys, NEW note \in BOOLEAN,
           StorePut(t, k, note)
    PROVE  /\ DOMAIN message' = Keys /\ \A i \in Keys : Formed(message'[i])
           /\ stale' \subseteq Copies /\ overlapped' \subseteq Keys
           /\ noted' \in [Keys -> Nat]
           /\ UNCHANGED <<held, deleted, applied>>
<1>1. Formed(held[t])
    BY DEF WorkInv, FormInv
<1>2. DOMAIN message' = Keys /\ \A i \in Keys : Formed(message'[i])
    BY <1>1 DEF StorePut, WorkInv, FormInv
<1>3. stale' \subseteq Copies
    <2>1. Storing(k) \subseteq Copies /\ Processing(k) \subseteq Copies
        BY DEF Storing, Processing, Copies, Threads
    <2> QED BY <2>1 DEF StorePut, WorkInv, Types
<1>4. overlapped' \subseteq Keys
    BY DEF StorePut, Overwrites, WorkInv, Types
<1>5. noted' \in [Keys -> Nat]
    BY DEF StorePut, WorkInv, Types
<1> QED BY <1>2, <1>3, <1>4, <1>5 DEF StorePut

\* A job that was absent is queued.
LEMMA PushEffect ==
    ASSUME WorkInv, NEW j \in Jobs, NEW k, NEW type \in BehaviorType,
           StorePush(j, k, type)
    PROVE  /\ ServiceInv' /\ kind' \in [Jobs -> BehaviorType]
           /\ KeyOf[j] = k /\ status[j] = "absent"
           /\ status' = [status EXCEPT ![j] = "queued"]
           /\ kind' = [kind EXCEPT ![j] = type]
           /\ UNCHANGED <<tries, locked, robbed, recovered>>
BY DEF StorePush, Submit, WorkInv, Types, ServiceInv, ServiceTypeOK, JobStatus

-----------------------------------------------------------------------------
(* The steps of clients                                                    *)

\* A step of client c that goes on to l.
LEMMA ClientApart ==
    ASSUME WorkInv, NEW c \in Clients, NEW l \in ClientPC, GoTo(c, l),
           UNCHANGED <<work, locked, robbed>>,
           \A j \in Jobs : \/ status'[j] = status[j]
                           \/ status[j] = "absent"
    PROVE  /\ pc' \in [Threads -> PC]
           /\ \A w \in Workers : pc'[w] = pc[w]
           /\ \A d \in Clients : pc'[d] \in ClientPC
           /\ \A w \in Workers : Placed(w)'
           /\ ApartInv'
<1>1. /\ pc' \in [Threads -> PC]
      /\ \A w \in Workers : pc'[w] = pc[w]
      /\ \A d \in Clients : pc'[d] \in ClientPC
    BY StoreAssumption DEF WorkInv, Types, GoTo, ClientPC, PC, Threads
<1> QED BY <1>1, ApartKept

LEMMA ClientReadKeepsWork ==
    ASSUME WorkInv, NEW c \in Clients, ClientRead(c)
    PROVE  WorkInv'
<1>1. Posts[c].key \in Keys /\ Incoming(Posts[c].values) /\ {Posts[c].type} \subseteq BehaviorType
    BY InputsTyped
<1>2. /\ stale' \subseteq Copies
      /\ DOMAIN held' = Threads /\ \A u \in Threads : Formed(held'[u])
      /\ UNCHANGED <<message, overlapped, deleted, applied, noted, stored>>
    BY <1>1, ReadEffect DEF ClientRead, Threads
<1>3. /\ pc' \in [Threads -> PC]
      /\ \A w \in Workers : pc'[w] = pc[w]
      /\ \A d \in Clients : pc'[d] \in ClientPC
      /\ \A w \in Workers : Placed(w)'
      /\ ApartInv'
    BY ClientApart DEF ClientRead, ClientPC, svars
<1>4. Types'
    BY <1>2, <1>3 DEF WorkInv, Types, ClientRead, svars, ServiceInv, ServiceTypeOK
<1>5. FormInv'
    BY <1>2 DEF WorkInv, FormInv, ClientRead
<1> QED BY <1>3, <1>4, <1>5 DEF WorkInv

LEMMA ClientPutKeepsWork ==
    ASSUME WorkInv, NEW c \in Clients, ClientPut(c)
    PROVE  WorkInv'
<1>1. Posts[c].key \in Keys
    BY InputsTyped
<1>2. /\ DOMAIN message' = Keys /\ \A i \in Keys : Formed(message'[i])
      /\ stale' \subseteq Copies /\ overlapped' \subseteq Keys
      /\ noted' \in [Keys -> Nat]
      /\ UNCHANGED <<held, deleted, applied>>
    BY <1>1, PutEffect DEF ClientPut, Threads
<1>3. /\ pc' \in [Threads -> PC]
      /\ \A w \in Workers : pc'[w] = pc[w]
      /\ \A d \in Clients : pc'[d] \in ClientPC
      /\ \A w \in Workers : Placed(w)'
      /\ ApartInv'
    BY ClientApart DEF ClientPut, ClientPC, svars
<1>4. Types'
    BY <1>2, <1>3 DEF WorkInv, Types, ClientPut, svars, ServiceInv, ServiceTypeOK
<1>5. FormInv'
    BY <1>2 DEF WorkInv, FormInv, ClientPut
<1> QED BY <1>3, <1>4, <1>5 DEF WorkInv

LEMMA ClientPushKeepsWork ==
    ASSUME WorkInv, NEW c \in Clients, ClientPush(c)
    PROVE  WorkInv'
<1>1. Posts[c].type \in BehaviorType
    BY InputsTyped
<1>2. PICK j \in Jobs : StorePush(j, Posts[c].key, Posts[c].type)
    BY DEF ClientPush
<1>3. /\ ServiceInv' /\ kind' \in [Jobs -> BehaviorType]
      /\ status[j] = "absent"
      /\ status' = [status EXCEPT ![j] = "queued"]
      /\ UNCHANGED <<locked, robbed, recovered>>
    BY <1>1, <1>2, PushEffect
<1>4. \A i \in Jobs : \/ status'[i] = status[i]
                      \/ status[i] = "absent"
    BY <1>3 DEF WorkInv, Types, ServiceInv, ServiceTypeOK
<1>5. /\ pc' \in [Threads -> PC]
      /\ \A w \in Workers : pc'[w] = pc[w]
      /\ \A d \in Clients : pc'[d] \in ClientPC
      /\ \A w \in Workers : Placed(w)'
      /\ ApartInv'
    BY <1>3, <1>4, ClientApart DEF ClientPush, ClientPC
<1>6. Types'
    BY <1>3, <1>5 DEF WorkInv, Types, ClientPush, history
<1>7. FormInv'
    BY DEF WorkInv, FormInv, ClientPush
<1> QED BY <1>5, <1>6, <1>7 DEF WorkInv

LEMMA ClientCrashKeepsWork ==
    ASSUME WorkInv, NEW c \in Clients, ClientCrash(c)
    PROVE  WorkInv'
<1>1. /\ pc' \in [Threads -> PC]
      /\ \A w \in Workers : pc'[w] = pc[w]
      /\ \A d \in Clients : pc'[d] \in ClientPC
      /\ \A w \in Workers : Placed(w)'
      /\ ApartInv'
    BY ClientApart DEF ClientCrash, ClientPC, svars
<1>2. faults' \in 0 .. MaxFaults
    BY StoreAssumption DEF ClientCrash, Fault, WorkInv, Types
<1>3. Types'
    BY <1>1, <1>2 DEF WorkInv, Types, ClientCrash, history, svars, ServiceInv, ServiceTypeOK
<1>4. FormInv'
    BY DEF WorkInv, FormInv, ClientCrash
<1> QED BY <1>1, <1>3, <1>4 DEF WorkInv

-----------------------------------------------------------------------------
(* The steps of workers                                                    *)

\* What worker w has at label l fits there.
Fits(l, r) ==
    /\ l \in WorkerPC \ {"idle"}
    /\ l \in {"access", "run"} => ~r.fresh
    /\ l \in {"store", "putNew", "pushNew"} => r.todo # <<>>
    /\ r.todo # <<>> =>
          l \in {"effect", "store", "putNew", "pushNew"} /\ r.then = "finish"
    /\ l = "pushNew" => Head(r.todo).persist
    /\ r.then = "fail" => l \in {"effect", "fail"}
    /\ r.then = "over" => l \in {"catch", "effect", "over"}

\* A step of worker w that goes on, with what is left of its work.
LEMMA WorkerApart ==
    ASSUME WorkInv, NEW w \in Workers, pc[w] # "idle",
           NEW l, GoTo(w, l), NEW r \in Work, r.job = work[w].job, Fits(l, r),
           work[w].then = "over" => r.then = "over",
           work' = [work EXCEPT ![w] = r], UNCHANGED <<locked, robbed>>,
           \A j \in Jobs : \/ status'[j] = status[j]
                           \/ status[j] = "absent"
    PROVE  /\ pc' \in [Threads -> PC] /\ work' \in [Workers -> Work]
           /\ \A u \in Workers : pc'[u] # "idle" <=> work'[u].job \in Jobs
           /\ \A c \in Clients : pc'[c] \in ClientPC
           /\ \A u \in Workers : Placed(u)'
           /\ ApartInv'
<1>1. /\ pc'[w] = l /\ work'[w] = r
      /\ \A u \in Workers \ {w} : pc'[u] = pc[u] /\ work'[u] = work[u]
      /\ \A c \in Clients : pc'[c] = pc[c]
      /\ pc' \in [Threads -> PC] /\ work' \in [Workers -> Work]
    BY WorkerTyped DEF WorkInv, Types, GoTo, Fits, WorkerPC, PC, Threads
<1>2. /\ work[w].job \in Jobs /\ status'[work[w].job] = status[work[w].job]
      /\ \/ status[work[w].job] = "processing"
         \/ r.then = "over" /\ status[work[w].job] = "complete"
    BY WorkerTyped DEF WorkInv, Placed
<1>3. Placed(w)'
    BY <1>1, <1>2 DEF Fits, Placed
<1>4. /\ \A c \in Clients : pc'[c] \in ClientPC
      /\ \A u \in Workers : Placed(u)'
      /\ ApartInv'
    BY <1>1, <1>3, ApartKept DEF WorkInv
<1>5. \A u \in Workers : pc'[u] # "idle" <=> work'[u].job \in Jobs
    BY <1>1, <1>2 DEF WorkInv, Types, Fits
<1> QED BY <1>1, <1>4, <1>5

\* The end of work on job j leaves the other jobs alone.
LEMMA EndEffect ==
    ASSUME ServiceInv, NEW j \in Jobs,
           UNCHANGED <<status, tries>> \/ Finish(j) \/ Fail(j)
    PROVE  /\ ServiceInv'
           /\ \A i \in Jobs : \/ status'[i] = status[i]
                              \/ i = j /\ status'[i] # "processing"
<1>1. CASE UNCHANGED <<status, tries>>
    BY <1>1 DEF ServiceInv, ServiceTypeOK
<1>2. CASE Finish(j)
    BY <1>2 DEF ServiceInv, ServiceTypeOK, Finish, JobStatus
<1>3. CASE Fail(j)
    BY <1>3 DEF ServiceInv, ServiceTypeOK, Fail, JobStatus
<1> QED BY <1>1, <1>2, <1>3

\* A step in which pullJob returns, whatever it does to its own job.
LEMMA ReturnKeepsWork ==
    ASSUME WorkInv, NEW w \in Workers, pc[w] # "idle", Return(w),
           UNCHANGED <<status, tries>> \/ Finish(work[w].job) \/ Fail(work[w].job),
           UNCHANGED locked \/ Unlock(Key(w)),
           UNCHANGED <<robbed, recovered>>,
           faults' \in 0 .. MaxFaults,
           UNCHANGED <<message, kind, overlapped, deleted, applied, noted, asked,
                       stored, got>>
    PROVE  WorkInv'
<1>1. /\ pc'[w] = "idle" /\ work'[w] = NoWork
      /\ \A u \in Workers \ {w} : pc'[u] = pc[u] /\ work'[u] = work[u]
      /\ \A c \in Clients : pc'[c] = pc[c]
      /\ pc' \in [Threads -> PC]
    BY WorkerTyped DEF WorkInv, Types, Return, GoTo, PC, Threads
<1>2. NoWork \in Work /\ NoWork.job \notin Jobs
    BY StoreAssumption DEF NoWork, Work
<1>3. work' \in [Workers -> Work]
    BY <1>2 DEF WorkInv, Types, Return
<1>4. work[w].job \in Jobs
    BY WorkerTyped DEF WorkInv
<1>5. ServiceInv' /\ \A j \in Jobs : \/ status'[j] = status[j]
                                     \/ j = work[w].job /\ status'[j] # "processing"
    BY <1>4, EndEffect DEF WorkInv, Types
<1>6. \A u \in Workers \ {w} : pc[u] # "idle" =>
          work[u].job # work[w].job /\ (Key(u) = Key(w) => Key(u) \in robbed)
    BY KeysApart
<1>11. UNCHANGED <<robbed, recovered>> /\ (locked' = locked \/ locked' = locked \ {Key(w)})
    BY DEF Unlock
<1>7. Placed(w)'
    BY <1>1 DEF Placed, WorkerPC, NoWork
<1>8. /\ \A c \in Clients : pc'[c] \in ClientPC
      /\ \A u \in Workers : Placed(u)'
      /\ ApartInv'
    <2>1. \A c \in Clients : pc'[c] \in ClientPC
        BY <1>1 DEF WorkInv
    <2>2. \A u \in Workers :
              \/ pc'[u] = pc[u] /\ work'[u] = work[u]
              \/ /\ Placed(u)'
                 /\ pc'[u] = "idle" \/ (pc[u] # "idle" /\ work'[u].job = work[u].job)
        BY <1>1, <1>7
    <2>3. \A j \in Jobs :
              \/ status'[j] = status[j]
              \/ \A u \in Workers : pc'[u] # "idle" /\ work[u].job = j => Placed(u)'
        BY <1>1, <1>5, <1>6
    <2>4. \A u \in Workers : /\ pc'[u] # "idle" /\ Key(u) \in locked
                             /\ Key(u) \notin robbed'
                             => Key(u) \in locked'
        BY <1>1, <1>6, <1>11
    <2> QED BY <1>11, <2>1, <2>2, <2>3, <2>4, ApartKept
<1>9. FormInv'
    BY NoMessageFormed, WorkerTyped DEF WorkInv, FormInv, Return
<1>10. Types'
    <2>1. \A u \in Workers : pc'[u] # "idle" <=> work'[u].job \in Jobs
        BY <1>1, <1>2 DEF WorkInv, Types
    <2>2. stale' \subseteq Copies
        BY DEF Return, WorkInv, Types
    <2> QED BY <1>1, <1>3, <1>5, <1>11, <2>1, <2>2 DEF WorkInv, Types
<1> QED BY <1>8, <1>9, <1>10 DEF WorkInv

LEMMA PopKeepsWork ==
    ASSUME WorkInv, NEW w \in Workers, NEW j \in Jobs, Pop(w, j)
    PROVE  WorkInv'
<1> DEFINE r == [work[w] EXCEPT !.job = j]
<1>1. r \in Work /\ r.job = j /\ r.todo = <<>> /\ ~r.fresh /\ r.then = "finish"
    <2>1. Placed(w) /\ pc[w] = "idle" /\ work[w] \in Work
        BY WorkerTyped DEF WorkInv, Pop
    <2>2. work[w].todo = <<>> /\ ~work[w].fresh /\ work[w].then = "finish"
        BY <2>1 DEF Placed, NoWork
    <2> QED BY <2>1, <2>2 DEF Work
<1>2. work' = [work EXCEPT ![w] = r] /\ GoTo(w, "access")
    BY DEF Pop
<1> HIDE DEF r
<1>3. /\ pc'[w] = "access" /\ work'[w] = r
      /\ \A u \in Workers \ {w} : pc'[u] = pc[u] /\ work'[u] = work[u]
      /\ \A c \in Clients : pc'[c] = pc[c]
      /\ pc' \in [Threads -> PC] /\ work' \in [Workers -> Work]
    BY <1>1, <1>2, StoreAssumption DEF WorkInv, Types, GoTo, PC, Threads
<1>4. /\ status[j] = "queued" /\ status' = [status EXCEPT ![j] = "processing"]
      /\ tries' = [tries EXCEPT ![j] = @ + 1]
      /\ KeyOf[j] \notin locked /\ locked' = locked \cup {KeyOf[j]}
      /\ UNCHANGED <<robbed, recovered>>
    BY DEF Pop, StartWork, Locked
<1>5. \A u \in Workers \ {w} : pc[u] # "idle" => work[u].job # j
    BY <1>4, WorkerTyped DEF WorkInv, Placed
<1>6. \A u \in Workers : Placed(u)'
    <2>1. Placed(w)'
        BY <1>1, <1>3, <1>4 DEF WorkInv, Types, ServiceInv, ServiceTypeOK, Placed, WorkerPC
    <2>2. ASSUME NEW u \in Workers \ {w} PROVE Placed(u)'
        <3>1. Placed(u) /\ pc'[u] = pc[u] /\ work'[u] = work[u]
            BY <1>3 DEF WorkInv
        <3>2. pc[u] # "idle" => status'[work[u].job] = status[work[u].job]
            BY <1>4, <1>5, <3>1, WorkerTyped DEF WorkInv, Types, ServiceInv, ServiceTypeOK, Placed
        <3> QED BY <3>1, <3>2 DEF Placed
    <2> QED BY <2>1, <2>2
<1>7. ApartInv'
    <2>1. \A u, v \in Workers :
             pc'[u] # "idle" /\ pc'[v] # "idle" /\ work'[u].job = work'[v].job => u = v
        BY <1>1, <1>3, <1>5 DEF WorkInv, ApartInv
    <2>2. /\ Key(w)' = KeyOf[j]
          /\ \A u \in Workers \ {w} : Key(u)' = Key(u)
        BY <1>1, <1>3 DEF Key
    <2>3. \A u \in Workers : pc'[u] # "idle" /\ Key(u)' \notin robbed' => Key(u)' \in locked'
        BY <1>3, <1>4, <2>2 DEF WorkInv, ApartInv
    <2>4. \A u, v \in Workers :
             /\ pc'[u] # "idle" /\ pc'[v] # "idle" /\ Key(u)' = Key(v)'
             /\ Key(u)' \notin robbed'
             => u = v
        BY <1>3, <1>4, <2>2 DEF WorkInv, ApartInv
    <2> QED BY <2>1, <2>3, <2>4 DEF ApartInv
<1>8. ServiceInv'
    BY <1>4, MaxTriesAssumption
       DEF WorkInv, Types, ServiceInv, ServiceTypeOK, JobStatus
<1>9. Types'
    <2>1. \A u \in Workers : pc'[u] # "idle" <=> work'[u].job \in Jobs
        BY <1>1, <1>3 DEF WorkInv, Types
    <2>2. locked' \subseteq Keys /\ UNCHANGED <<robbed, recovered>>
        BY <1>4, StoreAssumption DEF WorkInv, Types
    <2> QED BY <1>3, <1>8, <2>1, <2>2 DEF WorkInv, Types, Pop, history
<1>10. FormInv'
    BY DEF WorkInv, FormInv, Pop
<1>11. \A c \in Clients : pc'[c] \in ClientPC
    BY <1>3 DEF WorkInv
<1> QED BY <1>6, <1>7, <1>9, <1>10, <1>11 DEF WorkInv

\* The message that is read is formed.
LEMMA ReadsFormed ==
    ASSUME FormInv, NEW t, NEW k \in Keys, NEW m \in Reads(t, k)
    PROVE  Formed(m)
BY NoMessageFormed DEF Reads, FormInv

LEMMA AccessKeepsWork ==
    ASSUME WorkInv, NEW w \in Workers, Access(w)
    PROVE  WorkInv'
<1>1. pc[w] = "access" /\ Key(w) \in Keys
    BY WorkerTyped DEF WorkInv, Access
<1>2. CASE Return(w)
    <2>1. faults' \in 0 .. MaxFaults
        BY DEF Access, WorkInv, Types
    <2> QED BY <1>1, <1>2, <2>1, ReturnKeepsWork DEF Access, svars
<1>3. ASSUME NEW m \in Reads(w, Key(w)), own' = [own EXCEPT ![w] = m], GoTo(w, "run"),
             UNCHANGED <<work, held, stale>>
      PROVE  WorkInv'
    <2>1. Formed(m)
        BY <1>1, ReadsFormed DEF WorkInv
    <2>2. work[w] \in Work /\ work' = [work EXCEPT ![w] = work[w]]
        BY <1>3, WorkerTyped DEF WorkInv, Types
    <2>3. Placed(w)
        BY DEF WorkInv
    <2>4. Fits("run", work[w])
        BY <1>1, <2>3 DEF Placed, Fits, WorkerPC
    <2>5. UNCHANGED <<status, tries, locked, robbed, recovered>>
        BY DEF Access, svars
    <2>6. /\ pc' \in [Threads -> PC] /\ work' \in [Workers -> Work]
          /\ \A u \in Workers : pc'[u] # "idle" <=> work'[u].job \in Jobs
          /\ \A c \in Clients : pc'[c] \in ClientPC
          /\ \A u \in Workers : Placed(u)'
          /\ ApartInv'
        BY <1>1, <1>3, <2>2, <2>4, <2>5, WorkerApart
    <2>7. Types'
        BY <1>3, <2>5, <2>6 DEF WorkInv, Types, Access, ServiceInv, ServiceTypeOK
    <2>8. FormInv'
        BY <1>3, <2>1 DEF WorkInv, FormInv, Access
    <2> QED BY <2>6, <2>7, <2>8 DEF WorkInv
<1> QED BY <1>2, <1>3 DEF Access

\* What a behavior asks for is a list of new messages.
LEMMA AskedTyped ==
    ASSUME WorkInv, NEW w \in Workers, pc[w] # "idle"
    PROVE  Asked(w) \in Seq(NewMessage)
BY WorkerTyped, InputsTyped DEF WorkInv, Asked

LEMMA RunKeepsWork ==
    ASSUME WorkInv, NEW w \in Workers, Run(w) \/ RunDeclines(w)
    PROVE  WorkInv'
<1> DEFINE j == work[w].job
           counts == kind[j] = "Persist"
           wanted == IF GoTo(w, "effect") THEN Asked(w) ELSE <<>>
           l == pc'[w]
           r == work'[w]
<1>1. /\ pc[w] = "run"
      /\ \E result \in Results[Key(w)] : Left(w, counts, result)
      /\ UNCHANGED <<svars, message, kind, held, faults, stale, overlapped,
                     deleted, applied, noted, stored, got>>
    BY DEF Run, RunDeclines
<1>2. j \in Jobs /\ work[w] \in Work /\ Placed(w) /\ Asked(w) \in Seq(NewMessage)
    BY <1>1, WorkerTyped, AskedTyped DEF WorkInv
<1>3. work[w].todo = <<>> /\ work[w].then = "finish"
    BY <1>1, <1>2 DEF Placed, Work
<1>4. /\ GoTo(w, l) /\ r \in Work /\ r.job = j /\ Fits(l, r)
      /\ work' = [work EXCEPT ![w] = r]
      /\ asked' \in [Jobs -> Seq(NewMessage)]
    <2>1. CASE Run(w)
        <3> DEFINE q == [work[w] EXCEPT !.todo = Asked(w), !.fresh = counts]
        <3>1. work' = [work EXCEPT ![w] = q] /\ GoTo(w, "effect")
              /\ asked' = [asked EXCEPT ![j] = Asked(w)]
            BY <2>1 DEF Run
        <3>2. q \in Work /\ q.job = j /\ q.todo = Asked(w) /\ q.then = "finish"
            BY <1>2, <1>3 DEF Work
        <3> HIDE DEF q
        <3>3. r = q /\ l = "effect"
            BY <3>1, WorkerTyped DEF WorkInv, Types, GoTo
        <3> QED BY <1>2, <3>1, <3>2, <3>3 DEF Fits, WorkerPC, WorkInv, Types
    <2>2. CASE RunDeclines(w)
        <3> DEFINE q == [work[w] EXCEPT !.fresh = counts]
        <3>1. work' = [work EXCEPT ![w] = q] /\ GoTo(w, "finish")
              /\ asked' = [asked EXCEPT ![j] = <<>>]
            BY <2>2 DEF RunDeclines
        <3>2. q \in Work /\ q.job = j /\ q.todo = <<>> /\ q.then = "finish"
            BY <1>2, <1>3 DEF Work
        <3> HIDE DEF q
        <3>3. r = q /\ l = "finish"
            BY <3>1, WorkerTyped DEF WorkInv, Types, GoTo
        <3> QED BY <1>2, <3>1, <3>2, <3>3 DEF Fits, WorkerPC, WorkInv, Types
    <2> QED BY <2>1, <2>2
<1>5. UNCHANGED <<status, tries, locked, robbed, recovered>>
    BY <1>1 DEF svars
<1>6. /\ pc' \in [Threads -> PC] /\ work' \in [Workers -> Work]
      /\ \A u \in Workers : pc'[u] # "idle" <=> work'[u].job \in Jobs
      /\ \A c \in Clients : pc'[c] \in ClientPC
      /\ \A u \in Workers : Placed(u)'
      /\ ApartInv'
    BY <1>1, <1>3, <1>4, <1>5, WorkerApart
<1>7. Types'
    BY <1>1, <1>4, <1>5, <1>6 DEF WorkInv, Types, ServiceInv, ServiceTypeOK
<1>8. FormInv'
    <2>1. PICK result : Left(w, counts, result)
        BY <1>1
    <2>2. counts \in BOOLEAN
        OBVIOUS
    <2>3. /\ DOMAIN own' = Workers /\ Formed(own'[w])
          /\ \A u \in Workers \ {w} : own'[u] = own[u]
        BY <2>1, <2>2, LeftFormed DEF WorkInv
    <2> QED BY <1>1, <2>3 DEF WorkInv, FormInv
<1> QED BY <1>6, <1>7, <1>8 DEF WorkInv

LEMMA EffectKeepsWork ==
    ASSUME WorkInv, NEW w \in Workers, Effect(w)
    PROVE  WorkInv'
<1> DEFINE j == work[w].job
           k == Key(w)
           r == [work[w] EXCEPT !.fresh = FALSE]
           l == IF work[w].todo = <<>> THEN work[w].then ELSE "store"
<1>1. /\ pc[w] = "effect" /\ j \in Jobs /\ k \in Keys /\ work[w] \in Work /\ Placed(w)
    BY WorkerTyped DEF WorkInv, Effect
<1>2. /\ r \in Work /\ r.job = j /\ r.todo = work[w].todo /\ r.then = work[w].then
      /\ work' = [work EXCEPT ![w] = r]
    BY <1>1 DEF Work, Effect
<1> HIDE DEF r
<1>3. work'[w].todo = work[w].todo
    BY <1>2 DEF WorkInv, Types
<1>4. GoTo(w, l) /\ Fits(l, r)
    <2>1. GoTo(w, l)
        BY <1>3 DEF Effect, Next1
    <2>2. Fits(l, r)
        BY <1>1, <1>2 DEF Fits, WorkerPC, Placed, Work
    <2> QED BY <2>1, <2>2
<1> HIDE DEF l
<1>5. UNCHANGED <<status, tries, locked, robbed, recovered, kind, held, own, faults,
                  asked, stored, got>>
    BY DEF Effect, svars
<1>6. /\ pc' \in [Threads -> PC] /\ work' \in [Workers -> Work]
      /\ \A u \in Workers : pc'[u] # "idle" <=> work'[u].job \in Jobs
      /\ \A c \in Clients : pc'[c] \in ClientPC
      /\ \A u \in Workers : Placed(u)'
      /\ ApartInv'
    BY <1>1, <1>2, <1>4, <1>5, WorkerApart
<1>7. /\ DOMAIN message' = Keys /\ \A i \in Keys : Formed(message'[i])
      /\ overlapped' \subseteq Keys /\ deleted' \subseteq Keys
      /\ applied' \in [Keys -> Nat] /\ noted' \in [Keys -> Nat]
    <2>1. CASE DeleteMessage(w)
        BY <1>1, <2>1, NoMessageFormed DEF DeleteMessage, WorkInv, Types, FormInv
    <2>2. CASE UpdateMessage(w)
        BY <1>1, <2>2 DEF UpdateMessage, Overwrites, WorkInv, Types, FormInv
    <2> QED BY <2>1, <2>2 DEF Effect
<1>8. stale' \subseteq Copies
    <2>1. Storing(k) \subseteq Copies /\ Overlapping(k) \subseteq Copies
        BY DEF Storing, Overlapping, Processing, Copies, Threads
    <2> QED BY <2>1 DEF Effect, WorkInv, Types
<1>9. Types'
    BY <1>5, <1>6, <1>7, <1>8 DEF WorkInv, Types, ServiceInv, ServiceTypeOK
<1>10. FormInv'
    BY <1>5, <1>7 DEF WorkInv, FormInv
<1> QED BY <1>6, <1>9, <1>10 DEF WorkInv

LEMMA NewReadKeepsWork ==
    ASSUME WorkInv, NEW w \in Workers, NewRead(w)
    PROVE  WorkInv'
<1> DEFINE n == Head(work[w].todo)
           types == IF n.persist THEN {"Persist"} ELSE {}
<1>1. pc[w] = "store" /\ work[w] \in Work /\ w \in Threads /\ Placed(w)
    BY WorkerTyped DEF WorkInv, NewRead
<1>2. n.key \in Keys /\ Incoming(n.values) /\ types \subseteq BehaviorType
    BY <1>1, WorkerTyped, InputsTyped DEF WorkInv, Placed, BehaviorType
<1>3. /\ StoreRead(w, n.key, n.values, types, FALSE) /\ GoTo(w, "putNew")
      /\ UNCHANGED <<status, tries, locked, robbed, recovered, kind, own, work,
                     faults, asked, got>>
    BY DEF NewRead, svars
<1> HIDE DEF n, types
<1>4. /\ stale' \subseteq Copies
      /\ DOMAIN held' = Threads /\ \A u \in Threads : Formed(held'[u])
      /\ UNCHANGED <<message, overlapped, deleted, applied, noted, stored>>
    BY <1>1, <1>2, <1>3, ReadEffect
<1>5. Fits("putNew", work[w]) /\ work' = [work EXCEPT ![w] = work[w]]
    BY <1>1, <1>3 DEF Fits, Placed, WorkerPC, WorkInv, Types
<1>6. /\ pc' \in [Threads -> PC] /\ work' \in [Workers -> Work]
      /\ \A u \in Workers : pc'[u] # "idle" <=> work'[u].job \in Jobs
      /\ \A c \in Clients : pc'[c] \in ClientPC
      /\ \A u \in Workers : Placed(u)'
      /\ ApartInv'
    BY <1>1, <1>3, <1>5, WorkerApart
<1>7. Types'
    BY <1>3, <1>4, <1>6 DEF WorkInv, Types, ServiceInv, ServiceTypeOK
<1>8. FormInv'
    BY <1>3, <1>4 DEF WorkInv, FormInv
<1> QED BY <1>6, <1>7, <1>8 DEF WorkInv

\* A step of w that is done with a new message leaves the others to do.
LEMMA NextFits ==
    ASSUME WorkInv, NEW w \in Workers,
           pc[w] \in {"putNew", "pushNew"},
           work' = [work EXCEPT ![w].todo = Tail(@)], Next1(w)
    PROVE  \E l, r : /\ GoTo(w, l) /\ Fits(l, r)
                     /\ r \in Work /\ r.job = work[w].job
                     /\ r.todo = Tail(work[w].todo)
                     /\ work' = [work EXCEPT ![w] = r]
<1> DEFINE r == [work[w] EXCEPT !.todo = Tail(@)]
           l == IF Tail(work[w].todo) = <<>> THEN work[w].then ELSE "store"
<1>1. /\ work[w] \in Work /\ Placed(w) /\ Tail(work[w].todo) \in Seq(NewMessage)
      /\ work[w].then = "finish" /\ ~(pc[w] = "idle")
    BY WorkerTyped DEF WorkInv, Placed
<1>2. /\ r \in Work /\ r.job = work[w].job /\ r.then = work[w].then
      /\ r.todo = Tail(work[w].todo)
      /\ work' = [work EXCEPT ![w] = r]
    BY <1>1 DEF Work
<1> HIDE DEF r
<1>3. work'[w].todo = Tail(work[w].todo)
    BY <1>2 DEF WorkInv, Types
<1>4. GoTo(w, l)
    BY <1>3 DEF Next1
<1>5. Fits(l, r)
    BY <1>1, <1>2 DEF Fits, WorkerPC
<1> QED BY <1>2, <1>4, <1>5

LEMMA NewPutKeepsWork ==
    ASSUME WorkInv, NEW w \in Workers, NewPut(w)
    PROVE  WorkInv'
<1> DEFINE k == HeldKey(w)
           j == work[w].job
<1>1. /\ pc[w] = "putNew" /\ work[w] \in Work /\ w \in Threads /\ Placed(w)
      /\ k \in Keys /\ j \in Jobs /\ work[w].then = "finish"
    BY WorkerTyped DEF WorkInv, NewPut, Placed
<1>2. /\ StorePut(w, k, "notes" \in DOMAIN Head(work[w].todo).values)
      /\ stored' = [stored EXCEPT ![j][k] = @ + 1]
      /\ UNCHANGED <<status, tries, locked, robbed, recovered, kind, own, faults,
                     asked, got>>
    BY DEF NewPut, PutNew, svars
<1>3. /\ DOMAIN message' = Keys /\ \A i \in Keys : Formed(message'[i])
      /\ stale' \subseteq Copies /\ overlapped' \subseteq Keys
      /\ noted' \in [Keys -> Nat]
      /\ UNCHANGED <<held, deleted, applied>>
    <2>1. ("notes" \in DOMAIN Head(work[w].todo).values) \in BOOLEAN
        OBVIOUS
    <2> QED BY <1>1, <1>2, <2>1, PutEffect
<1>4. stored' \in [Jobs -> [Keys -> Nat]]
    BY <1>1, <1>2 DEF WorkInv, Types
<1>5. \E l, r : /\ GoTo(w, l) /\ Fits(l, r)
                /\ r \in Work /\ r.job = work[w].job
                /\ work' = [work EXCEPT ![w] = r]
    <2>1. ASSUME Head(work[w].todo).persist, GoTo(w, "pushNew"), UNCHANGED work
          PROVE  <1>5!:
        <3>1. Fits("pushNew", work[w]) /\ work' = [work EXCEPT ![w] = work[w]]
            BY <1>1, <2>1 DEF Fits, Placed, WorkerPC, WorkInv, Types
        <3> QED BY <1>1, <2>1, <3>1
    <2>2. ASSUME work' = [work EXCEPT ![w].todo = Tail(@)], Next1(w)
          PROVE  <1>5!:
        BY <1>1, <2>2, NextFits
    <2> QED BY <2>1, <2>2 DEF NewPut
<1> HIDE DEF k, j
<1>6. /\ pc' \in [Threads -> PC] /\ work' \in [Workers -> Work]
      /\ \A u \in Workers : pc'[u] # "idle" <=> work'[u].job \in Jobs
      /\ \A c \in Clients : pc'[c] \in ClientPC
      /\ \A u \in Workers : Placed(u)'
      /\ ApartInv'
    BY <1>1, <1>2, <1>5, WorkerApart
<1>7. Types'
    BY <1>2, <1>3, <1>4, <1>6 DEF WorkInv, Types, ServiceInv, ServiceTypeOK
<1>8. FormInv'
    BY <1>2, <1>3 DEF WorkInv, FormInv
<1> QED BY <1>6, <1>7, <1>8 DEF WorkInv

LEMMA NewPushKeepsWork ==
    ASSUME WorkInv, NEW w \in Workers, NewPush(w)
    PROVE  WorkInv'
<1> DEFINE k == HeldKey(w)
<1>1. /\ pc[w] = "pushNew" /\ work[w] \in Work /\ Placed(w)
      /\ k \in Keys /\ work[w].job \in Jobs /\ work[w].then = "finish"
    BY WorkerTyped DEF WorkInv, NewPush, Placed
<1>2. PICK j \in Jobs : StorePush(j, k, "Persist")
    BY DEF NewPush
<1>3. /\ got' = [got EXCEPT ![work[w].job][k] = @ + 1]
      /\ work' = [work EXCEPT ![w].todo = Tail(@)] /\ Next1(w)
      /\ UNCHANGED <<message, held, own, faults, stale, overlapped, deleted,
                     applied, noted, asked, stored>>
    BY DEF NewPush
<1> HIDE DEF k
<1>4. /\ ServiceInv' /\ kind' \in [Jobs -> BehaviorType]
      /\ status[j] = "absent"
      /\ status' = [status EXCEPT ![j] = "queued"]
      /\ UNCHANGED <<locked, robbed, recovered>>
    BY <1>2, PushEffect DEF BehaviorType
<1>5. \A i \in Jobs : \/ status'[i] = status[i]
                      \/ status[i] = "absent"
    BY <1>4 DEF WorkInv, Types, ServiceInv, ServiceTypeOK
<1>6. PICK l, r : /\ GoTo(w, l) /\ Fits(l, r)
                  /\ r \in Work /\ r.job = work[w].job
                  /\ work' = [work EXCEPT ![w] = r]
    BY <1>1, <1>3, NextFits
<1>7. /\ pc' \in [Threads -> PC] /\ work' \in [Workers -> Work]
      /\ \A u \in Workers : pc'[u] # "idle" <=> work'[u].job \in Jobs
      /\ \A c \in Clients : pc'[c] \in ClientPC
      /\ \A u \in Workers : Placed(u)'
      /\ ApartInv'
    BY <1>1, <1>4, <1>5, <1>6, WorkerApart
<1>8. got' \in [Jobs -> [Keys -> Nat]]
    BY <1>1, <1>3 DEF WorkInv, Types
<1>9. Types'
    BY <1>3, <1>4, <1>7, <1>8 DEF WorkInv, Types
<1>10. FormInv'
    BY <1>3 DEF WorkInv, FormInv
<1> QED BY <1>7, <1>9, <1>10 DEF WorkInv

\* The end of pullJob, where it returns.
LEMMA EndKeepsWork ==
    ASSUME WorkInv, NEW w \in Workers, Complete(w) \/ GiveBack(w) \/ Crash(w)
    PROVE  WorkInv'
<1>1. pc[w] # "idle" /\ Return(w)
    BY DEF Complete, GiveBack, Crash
<1>2. faults' \in 0 .. MaxFaults
    BY StoreAssumption DEF Complete, GiveBack, Crash, Fault, WorkInv, Types
<1>3. /\ UNCHANGED <<status, tries>> \/ Finish(work[w].job) \/ Fail(work[w].job)
      /\ UNCHANGED locked \/ Unlock(Key(w))
      /\ UNCHANGED <<robbed, recovered, message, kind, overlapped, deleted, applied,
                     noted, asked, stored, got>>
    BY DEF Complete, GiveBack, Crash
<1> QED BY <1>1, <1>2, <1>3, ReturnKeepsWork

LEMMA ThrowsKeepsWork ==
    ASSUME WorkInv, NEW w \in Workers, Throws(w)
    PROVE  WorkInv'
<1>1. pc[w] # "idle" /\ work[w] \in Work /\ work[w].job \in Jobs
    BY WorkerTyped DEF WorkInv, Throws
<1>2. UNCHANGED <<svars, status, tries, locked, robbed, recovered, message, kind,
                  faults, overlapped, deleted, applied, noted, asked, stored, got>>
    BY DEF Throws, svars
<1>3. CASE Return(w)
    <2>1. faults' \in 0 .. MaxFaults /\ UNCHANGED svars
        BY <1>2 DEF WorkInv, Types, svars
    <2> QED BY <1>1, <1>2, <1>3, <2>1, ReturnKeepsWork
<1>4. ASSUME work[w].then = "finish", GoTo(w, "catch"),
             work' = [work EXCEPT ![w].todo = <<>>], UNCHANGED <<held, own, stale>>
      PROVE  WorkInv'
    <2> DEFINE r == [work[w] EXCEPT !.todo = <<>>]
    <2>1. /\ r \in Work /\ r.job = work[w].job /\ r.todo = <<>> /\ r.then = "finish"
          /\ work' = [work EXCEPT ![w] = r]
        <3>1. <<>> \in Seq(NewMessage)
            OBVIOUS
        <3> QED BY <1>1, <1>4, <3>1 DEF Work
    <2> HIDE DEF r
    <2>2. Fits("catch", r)
        BY <2>1 DEF Fits, WorkerPC
    <2>3. /\ pc' \in [Threads -> PC] /\ work' \in [Workers -> Work]
          /\ \A u \in Workers : pc'[u] # "idle" <=> work'[u].job \in Jobs
          /\ \A c \in Clients : pc'[c] \in ClientPC
          /\ \A u \in Workers : Placed(u)'
          /\ ApartInv'
        BY <1>1, <1>2, <1>4, <2>1, <2>2, WorkerApart
    <2>4. Types'
        BY <1>2, <1>4, <2>3 DEF WorkInv, Types, ServiceInv, ServiceTypeOK
    <2>5. FormInv'
        BY <1>2, <1>4 DEF WorkInv, FormInv
    <2> QED BY <2>3, <2>4, <2>5 DEF WorkInv
<1> QED BY <1>3, <1>4 DEF Throws

LEMMA CatchKeepsWork ==
    ASSUME WorkInv, NEW w \in Workers, Catch(w)
    PROVE  WorkInv'
<1>1. pc[w] = "catch" /\ work[w] \in Work /\ work[w].job \in Jobs /\ Placed(w)
    BY WorkerTyped DEF WorkInv, Catch
<1>2. UNCHANGED <<svars, status, tries, locked, robbed, recovered, message, kind,
                  faults, overlapped, deleted, applied, noted, asked, stored, got>>
    BY DEF Catch, svars
<1>3. CASE Return(w)
    <2>1. faults' \in 0 .. MaxFaults /\ UNCHANGED svars
        BY <1>2 DEF WorkInv, Types, svars
    <2> QED BY <1>1, <1>2, <1>3, <2>1, ReturnKeepsWork
<1>4. ASSUME NEW l, NEW r \in Work, GoTo(w, l), Fits(l, r), r.job = work[w].job,
             work[w].then = "over" => r.then = "over",
             work' = [work EXCEPT ![w] = r], FormInv', UNCHANGED stale
      PROVE  WorkInv'
    <2>1. /\ pc' \in [Threads -> PC] /\ work' \in [Workers -> Work]
          /\ \A u \in Workers : pc'[u] # "idle" <=> work'[u].job \in Jobs
          /\ \A c \in Clients : pc'[c] \in ClientPC
          /\ \A u \in Workers : Placed(u)'
          /\ ApartInv'
        BY <1>1, <1>2, <1>4, WorkerApart
    <2>2. Types'
        BY <1>2, <1>4, <2>1 DEF WorkInv, Types, ServiceInv, ServiceTypeOK
    <2> QED BY <1>4, <2>1, <2>2 DEF WorkInv
<1>5. ASSUME NEW result, Left(w, FALSE, result), GoTo(w, "effect"),
             work' = [work EXCEPT ![w].then = IF @ = "over" THEN @ ELSE "fail"],
             UNCHANGED <<held, stale>>
      PROVE  WorkInv'
    <2> DEFINE r == [work[w] EXCEPT !.then = IF @ = "over" THEN @ ELSE "fail"]
    <2>1. /\ r \in Work /\ r.job = work[w].job /\ r.todo = work[w].todo
          /\ r.then = IF work[w].then = "over" THEN "over" ELSE "fail"
          /\ work' = [work EXCEPT ![w] = r]
        BY <1>1, <1>5 DEF Work
    <2> HIDE DEF r
    <2>2. Fits("effect", r)
        BY <1>1, <2>1 DEF Fits, WorkerPC, Placed
    <2>3. FormInv'
        <3>1. /\ DOMAIN own' = Workers /\ Formed(own'[w])
              /\ \A u \in Workers \ {w} : own'[u] = own[u]
            BY <1>5, LeftFormed DEF WorkInv
        <3> QED BY <1>2, <1>5, <3>1 DEF WorkInv, FormInv
    <2> QED BY <1>4, <1>5, <2>1, <2>2, <2>3
<1>6. ASSUME GoTo(w, IF work[w].then = "over" THEN "over" ELSE "fail"),
             UNCHANGED <<work, held, own, stale>>
      PROVE  WorkInv'
    <2> DEFINE l == IF work[w].then = "over" THEN "over" ELSE "fail"
    <2>1. Fits(l, work[w]) /\ work' = [work EXCEPT ![w] = work[w]]
        BY <1>1, <1>6 DEF Fits, WorkerPC, Placed, WorkInv, Types
    <2>2. FormInv'
        BY <1>2, <1>6 DEF WorkInv, FormInv
    <2> QED BY <1>1, <1>4, <1>6, <2>1, <2>2
<1> QED BY <1>3, <1>5, <1>6 DEF Catch

\* A complete that throws releases the key from under its worker.
LEMMA CompleteThrowsKeepsWork ==
    ASSUME WorkInv, NEW w \in Workers, CompleteThrows(w)
    PROVE  WorkInv'
<1> DEFINE j == work[w].job
           r == [work[w] EXCEPT !.then = "over"]
<1>1. /\ pc[w] = "finish" /\ work[w] \in Work /\ j \in Jobs /\ Key(w) \in Keys
      /\ Placed(w)
    BY WorkerTyped DEF WorkInv, CompleteThrows
<1>2. work[w].todo = <<>> /\ status[j] = "processing"
    BY <1>1 DEF Placed
<1>3. /\ UNCHANGED <<status, tries>> \/ Finish(j)
      /\ locked' = locked \ {Key(w)} /\ robbed' = robbed \cup {Key(w)}
      /\ work' = [work EXCEPT ![w] = r] /\ GoTo(w, "catch")
      /\ faults' \in 0 .. MaxFaults
      /\ UNCHANGED <<recovered, message, kind, held, own, history>>
    BY <1>1, StoreAssumption DEF CompleteThrows, Fault, Unlock, WorkInv, Types
<1>4. r \in Work /\ r.job = j /\ r.todo = <<>> /\ r.then = "over"
    BY <1>1, <1>2 DEF Work
<1> HIDE DEF r
<1>5. /\ pc'[w] = "catch" /\ work'[w] = r
      /\ \A u \in Workers \ {w} : pc'[u] = pc[u] /\ work'[u] = work[u]
      /\ \A c \in Clients : pc'[c] = pc[c]
      /\ pc' \in [Threads -> PC] /\ work' \in [Workers -> Work]
    BY <1>3, <1>4, WorkerTyped DEF WorkInv, Types, GoTo, PC, Threads
<1>6. /\ ServiceInv'
      /\ \A i \in Jobs : status'[i] = status[i] \/ i = j
      /\ status'[j] \in {"processing", "complete"}
    <2>1. status \in [Jobs -> JobStatus] /\ ServiceInv /\ j \in Jobs
        BY <1>1 DEF WorkInv, Types, ServiceInv, ServiceTypeOK
    <2>2. CASE UNCHANGED <<status, tries>>
        BY <1>2, <2>1, <2>2 DEF ServiceInv, ServiceTypeOK
    <2>3. CASE Finish(j)
        <3>1. ServiceInv'
            BY <2>1, <2>3, EndEffect DEF WorkInv, Types
        <3> QED BY <2>1, <2>3, <3>1 DEF Finish
    <2> QED BY <1>3, <2>2, <2>3
<1>7. Placed(w)'
    BY <1>4, <1>5, <1>6 DEF Placed, WorkerPC
<1>8. /\ \A c \in Clients : pc'[c] \in ClientPC
      /\ \A u \in Workers : Placed(u)'
      /\ ApartInv'
    <2>1. \A c \in Clients : pc'[c] \in ClientPC
        BY <1>5 DEF WorkInv
    <2>2. \A u \in Workers :
              \/ pc'[u] = pc[u] /\ work'[u] = work[u]
              \/ /\ Placed(u)'
                 /\ pc'[u] = "idle" \/ (pc[u] # "idle" /\ work'[u].job = work[u].job)
        BY <1>1, <1>4, <1>5, <1>7
    <2>3. \A i \in Jobs :
              \/ status'[i] = status[i]
              \/ \A u \in Workers : pc'[u] # "idle" /\ work[u].job = i => Placed(u)'
        <3>1. \A u \in Workers \ {w} : pc'[u] # "idle" => work[u].job # j
            BY <1>1, <1>5, KeysApart
        <3> QED BY <1>6, <1>7, <3>1
    <2>4. /\ robbed \subseteq robbed'
          /\ \A u \in Workers : /\ pc'[u] # "idle" /\ Key(u) \in locked
                                /\ Key(u) \notin robbed'
                                => Key(u) \in locked'
        BY <1>3
    <2> QED BY <2>1, <2>2, <2>3, <2>4, ApartKept
<1>9. Types'
    <2>1. \A u \in Workers : pc'[u] # "idle" <=> work'[u].job \in Jobs
        BY <1>1, <1>4, <1>5 DEF WorkInv, Types
    <2>2. locked' \subseteq Keys /\ robbed' \subseteq Keys
        BY <1>1, <1>3 DEF WorkInv, Types
    <2> QED BY <1>3, <1>5, <1>6, <2>1, <2>2 DEF WorkInv, Types, history
<1>10. FormInv'
    BY <1>3 DEF WorkInv, FormInv
<1> QED BY <1>8, <1>9, <1>10 DEF WorkInv

\* The key is released by who does not have it.
LEMMA LateUnlock ==
    ASSUME WorkInv, NEW k \in Keys, UnlockLate(k), UNCHANGED <<pc, work>>
    PROVE  /\ locked' \subseteq Keys /\ robbed' \subseteq Keys
           /\ robbed \subseteq robbed'
           /\ \A u \in Workers : /\ pc'[u] # "idle" /\ Key(u) \in locked
                                 /\ Key(u) \notin robbed'
                                 => Key(u) \in locked'
BY DEF UnlockLate, Unlock, InWork, WorkInv, Types

\* A job that no thread works on any more is completed.
LEMMA RecoverKeepsWork ==
    ASSUME WorkInv, NEW j \in Jobs, Recover(j)
    PROVE  WorkInv'
<1>1. /\ Finish(j) /\ \A w \in Workers : work[w].job # j
      /\ UnlockLate(KeyOf[j])
      /\ recovered' = recovered \cup {j}
      /\ UNCHANGED <<message, kind, pc, held, own, work, faults, stale,
                     overlapped, deleted, applied, noted, asked, stored, got>>
    BY DEF Recover, Abandoned, history
<1>2. /\ ServiceInv'
      /\ \A i \in Jobs : status'[i] = status[i] \/ i = j
    BY <1>1, EndEffect DEF WorkInv, Types
<1>3. /\ locked' \subseteq Keys /\ robbed' \subseteq Keys
      /\ robbed \subseteq robbed'
      /\ \A u \in Workers : /\ pc'[u] # "idle" /\ Key(u) \in locked
                            /\ Key(u) \notin robbed'
                            => Key(u) \in locked'
    BY <1>1, StoreAssumption, LateUnlock
<1>4. /\ \A c \in Clients : pc'[c] \in ClientPC
      /\ \A u \in Workers : Placed(u)'
      /\ ApartInv'
    <2>1. /\ \A c \in Clients : pc'[c] \in ClientPC
          /\ \A u \in Workers : pc'[u] = pc[u] /\ work'[u] = work[u]
          /\ \A i \in Jobs :
                \/ status'[i] = status[i]
                \/ \A u \in Workers : pc'[u] # "idle" /\ work[u].job = i => Placed(u)'
        BY <1>1, <1>2 DEF WorkInv
    <2> QED BY <1>3, <2>1, ApartKept
<1>5. Types'
    BY <1>1, <1>2, <1>3 DEF WorkInv, Types
<1>6. FormInv'
    BY <1>1 DEF WorkInv, FormInv
<1> QED BY <1>4, <1>5, <1>6 DEF WorkInv

\* A job that was completed is read again.
LEMMA ReadAgainKeepsWork ==
    ASSUME WorkInv, NEW j \in Jobs, ReadAgain(j)
    PROVE  WorkInv'
<1>1. /\ UnlockLate(KeyOf[j]) /\ faults' \in 0 .. MaxFaults
      /\ UNCHANGED <<status, tries, recovered, message, kind, pc, held, own, work,
                     history>>
    BY StoreAssumption DEF ReadAgain, Fault, WorkInv, Types
<1>2. /\ locked' \subseteq Keys /\ robbed' \subseteq Keys
      /\ robbed \subseteq robbed'
      /\ \A u \in Workers : /\ pc'[u] # "idle" /\ Key(u) \in locked
                            /\ Key(u) \notin robbed'
                            => Key(u) \in locked'
    BY <1>1, StoreAssumption, LateUnlock
<1>3. /\ \A c \in Clients : pc'[c] \in ClientPC
      /\ \A u \in Workers : Placed(u)'
      /\ ApartInv'
    <2>1. \A c \in Clients : pc'[c] \in ClientPC
        BY <1>1 DEF WorkInv
    <2> QED BY <1>1, <1>2, <2>1, ApartKept
<1>4. Types'
    BY <1>1, <1>2 DEF WorkInv, Types, ServiceInv, ServiceTypeOK, history
<1>5. FormInv'
    BY <1>1 DEF WorkInv, FormInv
<1> QED BY <1>3, <1>4, <1>5 DEF WorkInv

\* A key expires that no worker has.
LEMMA ExpireKeepsWork ==
    ASSUME WorkInv, NEW k \in Keys, Expire(k)
    PROVE  WorkInv'
<1>1. /\ ~InWork(k) /\ locked' = locked \ {k}
      /\ UNCHANGED <<status, tries, robbed, recovered, message, kind, pc, held, own,
                     work, faults, history>>
    BY DEF Expire, Unlock
<1>2. /\ \A c \in Clients : pc'[c] \in ClientPC
      /\ \A u \in Workers : Placed(u)'
      /\ ApartInv'
    <2>1. \A c \in Clients : pc'[c] \in ClientPC
        BY <1>1 DEF WorkInv
    <2>2. \A u \in Workers : pc'[u] # "idle" /\ Key(u) \in locked => Key(u) \in locked'
        BY <1>1 DEF InWork
    <2> QED BY <1>1, <2>1, <2>2, ApartKept
<1>3. Types'
    BY <1>1 DEF WorkInv, Types, ServiceInv, ServiceTypeOK, history
<1>4. FormInv'
    BY <1>1 DEF WorkInv, FormInv
<1> QED BY <1>2, <1>3, <1>4 DEF WorkInv

LEMMA InitWork ==
    Init => WorkInv
<1> SUFFICES ASSUME Init PROVE WorkInv
    OBVIOUS
<1>1. \A c \in Clients : pc[c] = "new"
    BY DEF Init, Threads
<1>2. \A w \in Workers : pc[w] = "idle" /\ work[w] = NoWork
    BY StoreAssumption DEF Init, Threads
<1>3. NoWork \in Work /\ NoWork.job \notin Jobs
    BY StoreAssumption DEF NoWork, Work
<1>4. Types
    <2>1. ServiceInv
        BY MaxTriesAssumption
           DEF Init, ServiceInit, ServiceInv, ServiceTypeOK, JobStatus
    <2>2. pc \in [Threads -> PC] /\ work \in [Workers -> Work]
        BY <1>3 DEF Init, PC
    <2>3. kind \in [Jobs -> BehaviorType] /\ faults \in 0 .. MaxFaults
        BY StoreAssumption DEF Init, BehaviorType
    <2>4. asked \in [Jobs -> Seq(NewMessage)]
        <3>1. <<>> \in Seq(NewMessage)
            OBVIOUS
        <3> QED BY <3>1 DEF Init
    <2>5. /\ stored \in [Jobs -> [Keys -> Nat]] /\ got \in [Jobs -> [Keys -> Nat]]
          /\ applied \in [Keys -> Nat] /\ noted \in [Keys -> Nat]
          /\ stale = {} /\ overlapped = {} /\ deleted = {}
          /\ locked = {} /\ robbed = {} /\ recovered = {}
        BY DEF Init
    <2> QED BY <1>2, <1>3, <2>1, <2>2, <2>3, <2>4, <2>5 DEF Types
<1>5. FormInv
    BY NoMessageFormed DEF Init, FormInv
<1>6. \A w \in Workers : Placed(w)
    <2>1. NoWork.todo = <<>> /\ ~NoWork.fresh /\ NoWork.then = "finish"
        BY DEF NoWork
    <2> QED BY <1>2, <2>1 DEF Placed, WorkerPC
<1>7. ApartInv
    BY <1>2 DEF ApartInv, Init, ServiceInit
<1> QED BY <1>1, <1>4, <1>5, <1>6, <1>7 DEF WorkInv, ClientPC

LEMMA StutterKeepsWork ==
    WorkInv /\ UNCHANGED vars => WorkInv'
BY DEF WorkInv, Types, FormInv, Placed, ApartInv, Key, ServiceInv, ServiceTypeOK,
       vars, svars, history

LEMMA NextKeepsWork ==
    WorkInv /\ [Next]_vars => WorkInv'
<1> SUFFICES ASSUME WorkInv, Next PROVE WorkInv'
    BY StutterKeepsWork
<1>1. CASE \E c \in Clients : ClientStep(c) \/ ClientCrash(c)
    BY <1>1, ClientReadKeepsWork, ClientPutKeepsWork, ClientPushKeepsWork,
       ClientCrashKeepsWork DEF ClientStep
<1>2. CASE \E w \in Workers, j \in Jobs : Pop(w, j)
    BY <1>2, PopKeepsWork
<1>3. CASE \E w \in Workers : WorkerStep(w) \/ Crash(w) \/ CompleteThrows(w)
    BY <1>3, AccessKeepsWork, RunKeepsWork, EffectKeepsWork, NewReadKeepsWork,
       NewPutKeepsWork, NewPushKeepsWork, EndKeepsWork, ThrowsKeepsWork,
       CatchKeepsWork, CompleteThrowsKeepsWork DEF WorkerStep
<1>4. CASE \E j \in Jobs : Recover(j) \/ ReadAgain(j)
    BY <1>4, RecoverKeepsWork, ReadAgainKeepsWork
<1>5. CASE \E k \in Keys : Expire(k)
    BY <1>5, ExpireKeepsWork
<1> QED BY <1>1, <1>2, <1>3, <1>4, <1>5 DEF Next

\* Workers have what fits their place in pullJob, and their jobs exclude one
\* another.
THEOREM WorkInvariant == Spec => []WorkInv
<1> QED BY InitWork, NextKeepsWork, PTL DEF Spec

\* Unless a job is left in work, or a key was released from under its worker, as
\* by a complete that throws, the keys in the Cache make the queue take the steps of JobService:
\* no job is taken while another one of its key is in work (Queue.pop, complete,
\* error).
THEOREM ServiceSteps == Spec => StepsOfService
<1>1. ASSUME WorkInv, [Next]_vars,
             robbed = {}, \A j \in Jobs : status[j] = "processing" => ~Abandoned(j)
      PROVE  [ServiceNext]_<<status, tries>>
    <2>1. ASSUME NEW w \in Workers, NEW j \in Jobs, Pop(w, j)
          PROVE  Take(j)
        <3>1. KeyOf[j] \notin locked /\ StartWork(j)
            BY <2>1 DEF Pop, Locked
        <3>2. ASSUME NEW i \in Jobs, status[i] = "processing" PROVE KeyOf[i] # KeyOf[j]
            <4>1. PICK u \in Workers : work[u].job = i
                BY <1>1, <3>2 DEF Abandoned
            <4>2. pc[u] # "idle" /\ Key(u) = KeyOf[i]
                BY <1>1, <4>1 DEF WorkInv, Types, Key
            <4>3. KeyOf[i] \in locked
                BY <1>1, <4>2 DEF WorkInv, ApartInv
            <4> QED BY <3>1, <4>3
        <3> QED BY <3>1, <3>2 DEF Take, KeyBusy
    <2>2. ASSUME NEW c \in Clients, ClientStep(c) \/ ClientCrash(c)
          PROVE  (\E j \in Jobs : Submit(j)) \/ UNCHANGED <<status, tries>>
        BY <2>2 DEF ClientStep, ClientRead, ClientPut, ClientPush, ClientCrash, StorePush,
                    svars
    <2>3. ASSUME NEW w \in Workers, WorkerStep(w) \/ Crash(w) \/ CompleteThrows(w)
          PROVE  \/ \E j \in Jobs : Submit(j) \/ Finish(j) \/ Fail(j)
                 \/ UNCHANGED <<status, tries>>
        <3>1. CASE NewPush(w)
            BY <3>1 DEF NewPush, StorePush
        <3>2. CASE Complete(w) \/ GiveBack(w) \/ CompleteThrows(w)
            BY <1>1, <3>2, WorkerTyped DEF Complete, GiveBack, CompleteThrows, WorkInv
        <3>3. CASE UNCHANGED svars \/ Crash(w)
            BY <3>3 DEF svars, Crash
        <3> QED BY <2>3, <3>1, <3>2, <3>3
               DEF WorkerStep, Access, Run, RunDeclines, Effect, NewRead, NewPut, Throws,
                   Catch
    <2>4. ASSUME NEW j \in Jobs, Recover(j) \/ ReadAgain(j)
          PROVE  UNCHANGED <<status, tries>>
        BY <1>1, <2>4 DEF Recover, ReadAgain, Finish
    <2>5. ASSUME NEW k \in Keys, Expire(k) PROVE UNCHANGED <<status, tries>>
        BY <2>5 DEF Expire
    <2>6. CASE UNCHANGED vars
        BY <2>6 DEF vars, svars
    <2> QED BY <1>1, <2>1, <2>2, <2>3, <2>4, <2>5, <2>6 DEF Next, ServiceNext
<1> QED BY <1>1, WorkInvariant, PTL DEF Spec, StepsOfService

\* The variables keep their types: a message keeps a count that is a number and
\* notes that are a list, whatever is merged into it (Message.mergeValues).
THEOREM StoreTypes == Spec => []TypeOK
<1>1. WorkInv => TypeOK
    BY FormedIsMessage DEF WorkInv, Types, FormInv, TypeOK, ServiceInv
<1> QED BY <1>1, WorkInvariant, PTL

-----------------------------------------------------------------------------
(* What jobs have done                                                     *)

\* The first of what is to do, and the rest.
LEMMA TailItems ==
    ASSUME NEW S, NEW s \in Seq(S), s # <<>>
    PROVE  /\ 1 \in DOMAIN s /\ Head(s) = s[1]
           /\ \A n \in DOMAIN Tail(s) : n \in Nat /\ n + 1 \in DOMAIN s
                                        /\ Tail(s)[n] = s[n + 1]
           /\ \A n \in DOMAIN s : n \in Nat
                                  /\ (n # 1 => n - 1 \in DOMAIN Tail(s)
                                               /\ Tail(s)[n - 1] = s[n])
BY HeadTailProperties

LEMMA HowManyTyped ==
    ASSUME NEW s \in Seq(NewMessage), NEW k
    PROVE  HowMany(s, k) \in Nat
<1>1. IsFiniteSet(DOMAIN s)
    BY FS_Interval
<1>2. IsFiniteSet({n \in DOMAIN s : s[n].key = k})
    BY <1>1, FS_Subset
<1> QED BY <1>2, FS_CardinalityType DEF HowMany

LEMMA HowManyNone ==
    ASSUME NEW k
    PROVE  HowMany(<<>>, k) = 0
<1>1. {n \in DOMAIN <<>> : <<>>[n].key = k} = {}
    OBVIOUS
<1> QED BY <1>1, FS_EmptySet DEF HowMany

LEMMA HowManyTail ==
    ASSUME NEW s \in Seq(NewMessage), s # <<>>, NEW k
    PROVE  HowMany(s, k) = HowMany(Tail(s), k) + IF Head(s).key = k THEN 1 ELSE 0
<1> DEFINE A == {n \in DOMAIN Tail(s) : Tail(s)[n].key = k}
           B == {n \in DOMAIN s \ {1} : s[n].key = k}
           C == {n \in DOMAIN s : s[n].key = k}
           f == [n \in A |-> n + 1]
<1>1. /\ 1 \in DOMAIN s /\ Head(s) = s[1]
      /\ \A n \in DOMAIN Tail(s) : n \in Nat \ {0} /\ n + 1 \in DOMAIN s
                                   /\ Tail(s)[n] = s[n + 1]
      /\ \A n \in DOMAIN s : n \in Nat
                             /\ (n # 1 => n - 1 \in DOMAIN Tail(s)
                                          /\ Tail(s)[n - 1] = s[n])
    <2>1. 0 \notin DOMAIN Tail(s)
        BY HeadTailProperties
    <2> QED BY <2>1, TailItems
<1>2. IsFiniteSet(A) /\ IsFiniteSet(B)
    <2>1. IsFiniteSet(DOMAIN s) /\ IsFiniteSet(DOMAIN Tail(s))
        BY FS_Interval, HeadTailProperties
    <2> QED BY <2>1, FS_Subset
<1>3. f \in Bijection(A, B)
    <2>1. f \in [A -> B]
        BY <1>1
    <2>2. \A m, n \in A : f[m] = f[n] => m = n
        BY <1>1
    <2>3. \A n \in B : \E m \in A : f[m] = n
        <3> TAKE n \in B
        <3>1. n - 1 \in A /\ f[n - 1] = n
            BY <1>1
        <3> QED BY <3>1
    <2> HIDE DEF f, A, B
    <2> QED BY <2>1, <2>2, <2>3, Fun_IsBij
<1>4. Cardinality(A) = Cardinality(B) /\ Cardinality(B) \in Nat
    <2> HIDE DEF f, A, B
    <2>1. ExistsBijection(A, B)
        BY <1>3 DEF ExistsBijection
    <2>2. Cardinality(A) = Cardinality(B)
        BY <1>2, <2>1, FS_Bijection
    <2> QED BY <1>2, <2>2, FS_CardinalityType
<1>5. HowMany(s, k) = Cardinality(C) /\ HowMany(Tail(s), k) = Cardinality(A)
    BY DEF HowMany
<1>6. CASE Head(s).key = k
    <2>1. C = B \cup {1} /\ 1 \notin B
        BY <1>1, <1>6
    <2>2. Cardinality(C) = Cardinality(B) + 1
        BY <1>2, <2>1, FS_AddElement
    <2> HIDE DEF A, B, C
    <2> QED BY <1>4, <1>5, <1>6, <2>2
<1>7. CASE Head(s).key # k
    <2>1. C = B
        BY <1>1, <1>7
    <2> HIDE DEF A, B, C
    <2> QED BY <1>4, <1>5, <1>7, <2>1
<1> QED BY <1>6, <1>7

\* A step that leaves worker u and its job as they are.
Same(u) ==
    /\ pc'[u] = pc[u] /\ work'[u] = work[u]
    /\ pc[u] # "idle" =>
          LET j == work[u].job
          IN  /\ asked'[j] = asked[j] /\ stored'[j] = stored[j]
              /\ got'[j] = got[j] /\ tries'[j] = tries[j]

LEMMA SameKept ==
    ASSUME WorkInv, NEW u \in Workers, Same(u)
    PROVE  /\ Progress(u) => Progress(u)'
           /\ Repeated(u) => Repeated(u)'
<1>1. CASE pc[u] = "idle"
    <2>1. pc'[u] = "idle" /\ work'[u].todo = <<>>
        BY <1>1 DEF WorkInv, Placed, NoWork, Same
    <2> QED BY <2>1 DEF Progress, Repeated
<1>2. CASE pc[u] # "idle"
    BY <1>2 DEF Same, Progress, Repeated, Done
<1> QED BY <1>1, <1>2

LEMMA DoneKept ==
    ASSUME WorkInv, DoneInv, \A u \in Workers : Same(u) \/ Progress(u)',
           recovered \subseteq recovered',
           \A j \in Jobs : status'[j] = "complete" /\ j \notin recovered' =>
              \/ /\ status[j] = "complete" /\ asked'[j] = asked[j]
                 /\ stored'[j] = stored[j] /\ got'[j] = got[j]
              \/ \A i \in DOMAIN asked'[j] : Done(j, asked[j][i])'
    PROVE  DoneInv'
<1>1. \A u \in Workers : Progress(u)'
    BY SameKept DEF DoneInv
<1>2. CompleteHasEffects'
    BY DEF DoneInv, CompleteHasEffects, Done
<1> QED BY <1>1, <1>2 DEF DoneInv

LEMMA RepeatKept ==
    ASSUME WorkInv, RepeatInv, RepeatsAreTries',
           \A u \in Workers : Same(u) \/ Repeated(u)'
    PROVE  RepeatInv'
BY SameKept DEF RepeatInv

\* Without anything left to do, or after a failure, there is nothing to say.
LEMMA NothingToDo ==
    ASSUME WorkInv', NEW w \in Workers,
           pc'[w] \in {"idle", "catch", "fail", "over"} \/ work'[w].then # "finish"
    PROVE  Progress(w)' /\ Repeated(w)'
<1>1. Placed(w)' /\ work'[w].then \in {"finish", "fail", "over"}
    BY DEF WorkInv, Types, Work
<1>2. pc'[w] = "idle" => work'[w].todo = <<>>
    BY <1>1 DEF Placed, NoWork
<1>3. work'[w].todo = <<>> /\ pc'[w] \notin {"access", "run", "pushNew"}
    BY <1>1, <1>2 DEF Placed
<1> QED BY <1>3 DEF Progress, Repeated

\* A step that keeps what is to do goes on to the next part of it.
LEMMA Onward ==
    ASSUME WorkInv, WorkInv', NEW w \in Workers, Progress(w), Repeated(w),
           pc[w] \in {"effect", "store"}, pc'[w] \in {"store", "putNew", "finish"},
           work'[w].job = work[w].job, work'[w].todo = work[w].todo,
           work'[w].then = work[w].then,
           UNCHANGED <<tries, asked, stored, got>>
    PROVE  Progress(w)' /\ Repeated(w)'
BY DEF Progress, Repeated, Done

EffectsInv == WorkInv /\ DoneInv /\ RepeatInv

\* A step that stores nothing, submits nothing for a job and completes none.
LEMMA QuietEffects ==
    ASSUME EffectsInv, WorkInv', UNCHANGED <<tries, recovered, asked, stored, got>>,
           \A u \in Workers : \/ pc'[u] = pc[u] /\ work'[u] = work[u]
                              \/ Progress(u)' /\ Repeated(u)',
           \A j \in Jobs : status'[j] = "complete" => status[j] = "complete"
    PROVE  EffectsInv'
<1>1. \A u \in Workers : Same(u) \/ (Progress(u)' /\ Repeated(u)')
    BY DEF Same
<1>2. DoneInv'
    BY <1>1, DoneKept DEF EffectsInv
<1>3. RepeatsAreTries'
    BY DEF EffectsInv, RepeatInv, RepeatsAreTries
<1>4. RepeatInv'
    BY <1>1, <1>3, RepeatKept DEF EffectsInv
<1> QED BY <1>2, <1>4 DEF EffectsInv

\* A step of w leaves the other workers' place and work.
LEMMA OthersStay ==
    ASSUME WorkInv, NEW w \in Workers, WorkerStep(w) \/ Crash(w) \/ CompleteThrows(w)
    PROVE  /\ \A u \in Workers \ {w} : pc'[u] = pc[u] /\ work'[u] = work[u]
           /\ DOMAIN pc = Threads /\ DOMAIN work = Workers
           /\ w \in Threads
           /\ UNCHANGED recovered
<1>1. DOMAIN pc = Threads /\ DOMAIN work = Workers /\ w \in Threads
    BY WorkerTyped DEF WorkInv, Types
<1>2. \E l : pc' = [pc EXCEPT ![w] = l]
    BY DEF WorkerStep, Access, Run, RunDeclines, Effect, NewRead, NewPut, NewPush,
           Complete, Throws, Catch, GiveBack, Crash,
           CompleteThrows, Return, Next1, GoTo
<1>3. work' = work \/ \E r : work' = [work EXCEPT ![w] = r]
    BY DEF WorkerStep, Access, Run, RunDeclines, Effect, NewRead, NewPut, NewPush,
           Complete, Throws, Catch, GiveBack, Crash,
           CompleteThrows, Return
<1>4. UNCHANGED recovered
    BY DEF WorkerStep, Access, Run, RunDeclines, Effect, NewRead, NewPut, NewPush,
           StorePush, Complete, Throws, Catch, GiveBack, Crash,
           CompleteThrows, svars
<1> QED BY <1>1, <1>2, <1>3, <1>4

LEMMA ClientEffects ==
    ASSUME EffectsInv, WorkInv', NEW c \in Clients, ClientStep(c) \/ ClientCrash(c)
    PROVE  EffectsInv'
<1>1. /\ UNCHANGED <<tries, recovered, asked, stored, got, work>>
      /\ \E l : GoTo(c, l)
    BY DEF ClientStep, ClientRead, ClientPut, ClientPush, ClientCrash, StoreRead,
           StorePush, Submit, svars, history
<1>2. \A u \in Workers : pc'[u] = pc[u]
    BY <1>1, StoreAssumption DEF GoTo, EffectsInv, WorkInv, Types, Threads
<1>3. \A j \in Jobs : status'[j] = "complete" => status[j] = "complete"
    <2>1. CASE UNCHANGED status
        BY <2>1
    <2>2. CASE ClientPush(c)
        BY <2>2 DEF ClientPush, StorePush, Submit, EffectsInv, WorkInv, Types,
                    ServiceInv, ServiceTypeOK
    <2> QED BY <2>1, <2>2 DEF ClientStep, ClientRead, ClientPut, ClientCrash, svars
<1> QED BY <1>1, <1>2, <1>3, QuietEffects

\* A job that is taken was tried once more than its messages were stored.
LEMMA PopEffects ==
    ASSUME EffectsInv, WorkInv', NEW w \in Workers, NEW j \in Jobs, Pop(w, j)
    PROVE  EffectsInv'
<1>1. /\ pc[w] = "idle" /\ GoTo(w, "access")
      /\ work' = [work EXCEPT ![w].job = j]
      /\ status[j] = "queued" /\ status' = [status EXCEPT ![j] = "processing"]
      /\ tries' = [tries EXCEPT ![j] = @ + 1]
      /\ UNCHANGED <<recovered, asked, stored, got>>
    BY DEF Pop, StartWork, history
<1>2. /\ w \in Threads /\ work[w] \in Work /\ work[w].todo = <<>>
      /\ DOMAIN pc = Threads /\ DOMAIN work = Workers
    BY <1>1, WorkerTyped DEF EffectsInv, WorkInv, Types, Placed, NoWork
<1>3. /\ pc'[w] = "access" /\ work'[w].job = j /\ work'[w].todo = <<>>
      /\ \A u \in Workers \ {w} : pc'[u] = pc[u] /\ work'[u] = work[u]
    BY <1>1, <1>2 DEF Work, GoTo
<1>4. \A i \in Jobs \ {j} : tries'[i] = tries[i] /\ status'[i] = status[i]
    BY <1>1 DEF EffectsInv, WorkInv, Types, ServiceInv, ServiceTypeOK
<1>5. tries'[j] = tries[j] + 1 /\ status'[j] = "processing" /\ tries[j] \in Nat
    BY <1>1, MaxTriesAssumption DEF EffectsInv, WorkInv, Types, ServiceInv, ServiceTypeOK
<1>6. \A u \in Workers \ {w} : Same(u)
    <2>1. \A u \in Workers : pc[u] # "idle" => work[u].job \in Jobs \ {j}
        BY <1>1, WorkerTyped DEF EffectsInv, WorkInv, Placed
    <2> QED BY <1>1, <1>3, <1>4, <2>1 DEF Same
<1>7. \A i \in Jobs, k \in Keys :
         HowMany(NewMessages[KeyOf[i]], k) \in Nat
    BY InputsTyped, HowManyTyped, StoreAssumption
<1>8. ASSUME NEW k \in Keys
      PROVE  stored[j][k] + HowMany(NewMessages[KeyOf[j]], k)
                <= (tries[j] + 1) * HowMany(NewMessages[KeyOf[j]], k)
    <2> DEFINE n == HowMany(NewMessages[KeyOf[j]], k)
    <2>1. n \in Nat /\ stored[j][k] \in Nat /\ stored[j][k] <= tries[j] * n
        BY <1>7 DEF EffectsInv, WorkInv, Types, RepeatInv, RepeatsAreTries
    <2> HIDE DEF n
    <2>2. (tries[j] + 1) * n = tries[j] * n + n /\ tries[j] * n \in Nat
        BY <1>5, <2>1
    <2>3. stored[j][k] + n <= (tries[j] + 1) * n
        BY <2>1, <2>2
    <2> QED BY <2>3 DEF n
<1>9. Progress(w)' /\ Repeated(w)'
    <2>1. Progress(w)'
        BY <1>3 DEF Progress
    <2>2. Repeated(w)'
        BY <1>1, <1>3, <1>5, <1>8 DEF Repeated
    <2> QED BY <2>1, <2>2
<1>10. DoneInv'
    <2>1. \A i \in Jobs : status'[i] = "complete" =>
              /\ status[i] = "complete" /\ asked'[i] = asked[i]
              /\ stored'[i] = stored[i] /\ got'[i] = got[i]
        BY <1>1, <1>4, <1>5
    <2> QED BY <1>1, <1>6, <1>9, <2>1, DoneKept DEF EffectsInv
<1>11. RepeatsAreTries'
    <2>1. ASSUME NEW i \in Jobs, NEW k \in Keys
          PROVE  /\ got'[i][k] <= stored'[i][k]
                 /\ stored'[i][k] <= tries'[i] * HowMany(NewMessages[KeyOf[i]], k)
        <3>1. /\ got[i][k] <= stored[i][k]
              /\ stored[i][k] <= tries[i] * HowMany(NewMessages[KeyOf[i]], k)
              /\ stored[i][k] \in Nat
            BY DEF EffectsInv, WorkInv, Types, RepeatInv, RepeatsAreTries
        <3>2. CASE i = j
            <4>1. stored[i][k] + HowMany(NewMessages[KeyOf[i]], k)
                     <= tries'[i] * HowMany(NewMessages[KeyOf[i]], k)
                BY <1>5, <1>8, <3>2
            <4>2. tries'[i] * HowMany(NewMessages[KeyOf[i]], k) \in Nat
                BY <1>5, <1>7, <3>2
            <4> QED BY <1>1, <1>7, <3>1, <4>1, <4>2
        <3>3. CASE i # j
            BY <1>1, <1>4, <3>1, <3>3
        <3> QED BY <3>2, <3>3
    <2> QED BY <2>1 DEF RepeatsAreTries
<1>12. RepeatInv'
    BY <1>6, <1>9, <1>11, RepeatKept DEF EffectsInv
<1> QED BY <1>10, <1>12 DEF EffectsInv

\* The steps of a worker that neither ask for, store nor submit anything.
LEMMA QuietWorkerEffects ==
    ASSUME EffectsInv, WorkInv', NEW w \in Workers,
           Access(w) \/ Effect(w) \/ NewRead(w) \/ Throws(w) \/ Catch(w)
           \/ GiveBack(w) \/ Crash(w)
    PROVE  EffectsInv'
<1>1. /\ \A u \in Workers \ {w} : pc'[u] = pc[u] /\ work'[u] = work[u]
      /\ DOMAIN pc = Threads /\ DOMAIN work = Workers /\ w \in Threads
      /\ UNCHANGED recovered
    BY OthersStay DEF EffectsInv, WorkerStep
<1>2. UNCHANGED <<tries, asked, stored, got>>
    BY DEF Access, Effect, NewRead, StoreRead, Throws, Catch, GiveBack, Crash, Fail,
           svars
<1>3. \A j \in Jobs : status'[j] = "complete" => status[j] = "complete"
    <2>1. CASE UNCHANGED status
        BY <2>1
    <2>2. CASE Fail(work[w].job)
        BY <2>2 DEF Fail, EffectsInv, WorkInv, Types, ServiceInv,
                    ServiceTypeOK
    <2> QED BY <2>1, <2>2 DEF Access, Effect, NewRead, Throws, Catch, GiveBack, Crash,
                              svars
<1>4. /\ Progress(w) /\ Repeated(w) /\ Placed(w) /\ work[w] \in Work
      /\ WorkInv
    BY WorkerTyped DEF EffectsInv, DoneInv, RepeatInv, WorkInv
<1>5. Progress(w)' /\ Repeated(w)'
    <2>1. CASE Return(w)
        <3>1. pc'[w] = "idle"
            BY <1>1, <2>1 DEF Return, GoTo
        <3> QED BY <3>1, NothingToDo
    <2>2. CASE Throws(w) \/ Catch(w)
        <3>1. ASSUME Throws(w)
              PROVE  pc'[w] \in {"idle", "catch"}
            BY <1>1, <3>1 DEF Throws, Return, GoTo
        <3>2. ASSUME Catch(w)
              PROVE  \/ pc'[w] \in {"idle", "fail", "over"}
                     \/ work'[w].then # "finish"
            <4>1. CASE work' = [work EXCEPT ![w].then = IF @ = "over" THEN @ ELSE "fail"]
                BY <1>1, <1>4, <4>1 DEF Work
            <4>2. CASE GoTo(w, IF work[w].then = "over" THEN "over" ELSE "fail")
                BY <1>1, <4>2 DEF GoTo
            <4>3. CASE Return(w)
                BY <1>1, <4>3 DEF Return, GoTo
            <4> QED BY <3>2, <4>1, <4>2, <4>3 DEF Catch
        <3>3. \/ pc'[w] \in {"idle", "catch", "fail", "over"}
              \/ work'[w].then # "finish"
            BY <2>2, <3>1, <3>2
        <3> QED BY <3>3, NothingToDo
    <2>3. CASE Access(w) /\ ~Return(w)
        <3>1. pc[w] = "access" /\ pc'[w] = "run" /\ work'[w] = work[w]
            BY <1>1, <2>3 DEF Access, GoTo
        <3>2. work[w].todo = <<>>
            BY <1>4, <3>1 DEF Placed
        <3> QED BY <1>2, <1>4, <3>1, <3>2 DEF Progress, Repeated
    <2>4. CASE Effect(w)
        <3>1. /\ pc[w] = "effect"
              /\ work' = [work EXCEPT ![w].fresh = FALSE]
              /\ GoTo(w, IF work'[w].todo = <<>> THEN work[w].then ELSE "store")
            BY <2>4 DEF Effect, Next1
        <3>2. /\ work'[w].job = work[w].job /\ work'[w].todo = work[w].todo
              /\ work'[w].then = work[w].then
            BY <1>1, <1>4, <3>1 DEF Work
        <3>3. pc'[w] \in {"store", work[w].then}
            BY <1>1, <1>4, <3>1 DEF GoTo
        <3>4. CASE work[w].then # "finish"
            BY <3>2, <3>4, NothingToDo
        <3>5. CASE work[w].then = "finish"
            BY <1>2, <1>4, <3>1, <3>2, <3>3, <3>5, Onward
        <3> QED BY <3>4, <3>5
    <2>5. CASE NewRead(w)
        <3>1. pc[w] = "store" /\ pc'[w] = "putNew" /\ work' = work
            BY <1>1, <2>5 DEF NewRead, GoTo
        <3> QED BY <1>2, <1>4, <3>1, Onward
    <2> QED BY <2>1, <2>2, <2>3, <2>4, <2>5 DEF GiveBack, Crash
<1> QED BY <1>1, <1>2, <1>3, <1>5, QuietEffects

\* Done, after a step.
DoneNext(j, n) == stored'[j][n.key] >= 1 /\ (n.persist => got'[j][n.key] >= 1)

\* A step of w that changes what was done for its own job only.
LEMMA WorkerEffects ==
    ASSUME EffectsInv, WorkInv', NEW w \in Workers,
           WorkerStep(w) \/ CompleteThrows(w), pc[w] # "idle", NEW j, j = work[w].job,
           Progress(w)' /\ Repeated(w)',
           \A i \in Jobs \ {j} :
              /\ tries'[i] = tries[i] /\ asked'[i] = asked[i]
              /\ stored'[i] = stored[i] /\ got'[i] = got[i]
              /\ status'[i] = "complete" => status[i] = "complete",
           status'[j] = "complete" => \A i \in DOMAIN asked'[j] : DoneNext(j, asked'[j][i]),
           \A k \in Keys : /\ got'[j][k] <= stored'[j][k]
                           /\ stored'[j][k] <= tries'[j] * HowMany(NewMessages[KeyOf[j]], k)
    PROVE  EffectsInv'
<1>1. \A u \in Workers \ {w} :
         /\ pc'[u] = pc[u] /\ work'[u] = work[u]
         /\ pc[u] # "idle" => work[u].job \in Jobs \ {j}
    BY OthersStay, KeysApart, WorkerTyped DEF EffectsInv, WorkInv
<1>2. \A u \in Workers \ {w} : Same(u)
    BY <1>1 DEF Same
<1>3. UNCHANGED recovered
    BY OthersStay DEF EffectsInv
<1>4. DoneInv'
    <2>1. \A u \in Workers : Same(u) \/ Progress(u)'
        BY <1>2
    <2>2. \A i \in Jobs : status'[i] = "complete" =>
              \/ /\ status[i] = "complete" /\ asked'[i] = asked[i]
                 /\ stored'[i] = stored[i] /\ got'[i] = got[i]
              \/ \A n \in DOMAIN asked'[i] : Done(i, asked[i][n])'
        BY DEF Done, DoneNext
    <2> QED BY <1>3, <2>1, <2>2, DoneKept DEF EffectsInv
<1>5. RepeatInv'
    <2>1. \A u \in Workers : Same(u) \/ Repeated(u)'
        BY <1>2
    <2>2. RepeatsAreTries'
        BY DEF EffectsInv, RepeatInv, RepeatsAreTries
    <2> QED BY <2>1, <2>2, RepeatKept DEF EffectsInv
<1> QED BY <1>4, <1>5 DEF EffectsInv

\* The new messages of key k that job j may have stored by now.
Most(j, k) == tries[j] * HowMany(NewMessages[KeyOf[j]], k)

\* What a worker that has work has done.
LEMMA AtWork ==
    ASSUME EffectsInv, NEW w \in Workers, pc[w] # "idle"
    PROVE  /\ work[w].job \in Jobs
           /\ work[w].then # "over" => status[work[w].job] = "processing"
           /\ pc[w] \notin {"catch", "effect", "over"} => work[w].then # "over"
           /\ \A k \in Keys : /\ stored[work[w].job][k] \in Nat
                              /\ got[work[w].job][k] \in Nat
                              /\ got[work[w].job][k] <= stored[work[w].job][k]
                              /\ stored[work[w].job][k] <= Most(work[w].job, k)
                              /\ Most(work[w].job, k) \in Nat
           /\ Progress(w) /\ Repeated(w) /\ Placed(w) /\ work[w] \in Work
           /\ work[w].todo \in Seq(NewMessage)
<1>1. /\ work[w].job \in Jobs /\ work[w] \in Work /\ work[w].todo \in Seq(NewMessage)
    BY WorkerTyped DEF EffectsInv, WorkInv
<1>2. Placed(w) /\ Progress(w) /\ Repeated(w)
    BY DEF EffectsInv, WorkInv, DoneInv, RepeatInv
<1>3. /\ stored \in [Jobs -> [Keys -> Nat]] /\ got \in [Jobs -> [Keys -> Nat]]
      /\ tries \in [Jobs -> 0 .. MaxTries]
    BY DEF EffectsInv, WorkInv, Types, ServiceInv, ServiceTypeOK
<1>4. RepeatsAreTries
    BY DEF EffectsInv, RepeatInv
<1>5. /\ work[w].then # "over" => status[work[w].job] = "processing"
      /\ pc[w] \notin {"catch", "effect", "over"} => work[w].then # "over"
    BY <1>2 DEF Placed
<1>6. tries[work[w].job] \in Nat
    BY <1>1, <1>3, MaxTriesAssumption
<1>7. \A k \in Keys : stored[work[w].job][k] \in Nat /\ got[work[w].job][k] \in Nat
    BY <1>1, <1>3
<1>8. ASSUME NEW k \in Keys
      PROVE  /\ got[work[w].job][k] <= stored[work[w].job][k]
             /\ stored[work[w].job][k] <= Most(work[w].job, k)
             /\ Most(work[w].job, k) \in Nat
    <2>1. HowMany(NewMessages[KeyOf[work[w].job]], k) \in Nat
        BY <1>1, InputsTyped, HowManyTyped, StoreAssumption
    <2> QED BY <1>1, <1>4, <1>6, <2>1 DEF RepeatsAreTries, Most
<1> QED BY <1>1, <1>2, <1>5, <1>7, <1>8

\* The run of a behavior is to do all it asks for.
LEMMA RunEffects ==
    ASSUME EffectsInv, WorkInv', NEW w \in Workers, Run(w) \/ RunDeclines(w)
    PROVE  EffectsInv'
<1> DEFINE j == work[w].job
<1>1. /\ pc[w] = "run" /\ WorkerStep(w) /\ WorkInv
      /\ UNCHANGED <<status, tries, stored, got>>
    BY DEF Run, RunDeclines, WorkerStep, svars, EffectsInv
<1>2. /\ j \in Jobs /\ work[w] \in Work /\ Repeated(w) /\ Placed(w)
      /\ work[w].todo \in Seq(NewMessage) /\ status[j] = "processing"
      /\ \A k \in Keys : /\ got[j][k] <= stored[j][k] /\ stored[j][k] <= Most(j, k)
                         /\ stored[j][k] \in Nat /\ Most(j, k) \in Nat
    BY <1>1, AtWork
<1>3. w \in Threads /\ DOMAIN pc = Threads /\ DOMAIN work = Workers /\ DOMAIN asked = Jobs
    BY <1>1, OthersStay DEF WorkInv, Types
<1>4. PICK a : /\ asked' = [asked EXCEPT ![j] = a]
               /\ \/ /\ a = Asked(w) /\ pc'[w] = "effect"
                     /\ work'[w].todo = a
                  \/ /\ a = <<>> /\ pc'[w] = "finish" /\ work'[w].todo = <<>>
               /\ work'[w].job = j
    <2>1. ASSUME Run(w)
          PROVE  /\ asked' = [asked EXCEPT ![j] = Asked(w)] /\ pc'[w] = "effect"
                 /\ work'[w].todo = Asked(w) /\ work'[w].job = j
        BY <1>2, <1>3, <2>1 DEF Run, GoTo, Work
    <2>2. ASSUME RunDeclines(w)
          PROVE  /\ asked' = [asked EXCEPT ![j] = <<>>] /\ pc'[w] = "finish"
                 /\ work'[w].todo = <<>> /\ work'[w].job = j
        <3>1. work[w].todo = <<>>
            BY <1>1, <1>2 DEF Placed
        <3> QED BY <1>2, <1>3, <2>2, <3>1 DEF RunDeclines, GoTo, Work
    <2> QED BY <2>1, <2>2
<1> HIDE DEF j
<1>5. /\ asked'[j] = a
      /\ \A i \in Jobs \ {j} : asked'[i] = asked[i]
    BY <1>2, <1>3, <1>4
<1>6. Progress(w)'
    BY <1>4, <1>5 DEF Progress
<1>7. Repeated(w)'
    <2>1. Key(w) \in Keys /\ Key(w) = KeyOf[j]
        BY <1>1, WorkerTyped DEF WorkInv, Key, j
    <2>2. \A k \in Keys : stored[j][k] + HowMany(NewMessages[Key(w)], k) <= Most(j, k)
        BY <1>1, <1>2, <2>1 DEF Repeated, Most, j
    <2>3. ASSUME a # <<>>, NEW k \in Keys
          PROVE  stored[j][k] + HowMany(a, k) <= Most(j, k)
        BY <1>4, <2>2, <2>3 DEF Asked
    <2>4. work'[w].todo = a /\ work'[w].job = j /\ pc'[w] \in {"effect", "finish"}
        BY <1>4
    <2>5. \A k \in Keys : tries'[j] * HowMany(NewMessages[KeyOf[j]], k) = Most(j, k)
        BY <1>1 DEF Most
    <2> QED BY <1>1, <2>3, <2>4, <2>5 DEF Repeated
<1>8. status'[j] # "complete"
    BY <1>1, <1>2
<1>9. \A k \in Keys : /\ got'[j][k] <= stored'[j][k]
                      /\ stored'[j][k] <= tries'[j] * HowMany(NewMessages[KeyOf[j]], k)
    BY <1>1, <1>2 DEF Most
<1> QED BY <1>1, <1>2, <1>5, <1>6, <1>7, <1>8, <1>9, WorkerEffects DEF j

\* What is done of a new message stays done when more is stored and submitted.
LEMMA ProgressKept ==
    ASSUME NEW w, NEW j, j = work[w].job, work'[w].job = j, asked'[j] = asked[j],
           \A i \in DOMAIN asked[j] :
              \/ Done(j, asked[j][i])
              \/ \E n \in DOMAIN work[w].todo : work[w].todo[n] = asked[j][i],
           \A i \in DOMAIN asked[j] : Done(j, asked[j][i]) => DoneNext(j, asked[j][i]),
           \A n \in DOMAIN work[w].todo :
              \/ DoneNext(j, work[w].todo[n])
              \/ \E m \in DOMAIN work'[w].todo : work'[w].todo[m] = work[w].todo[n],
           pc'[w] = "pushNew" => stored'[j][Head(work'[w].todo).key] >= 1
    PROVE  Progress(w)'
<1>1. \A i \in DOMAIN asked[j] :
         \/ DoneNext(j, asked[j][i])
         \/ \E n \in DOMAIN work'[w].todo : work'[w].todo[n] = asked[j][i]
    OBVIOUS
<1>2. \A i \in DOMAIN asked'[j] :
         \/ Done(j, asked[j][i])'
         \/ \E n \in DOMAIN work'[w].todo : work'[w].todo[n] = asked'[j][i]
    <2> TAKE i \in DOMAIN asked'[j]
    <2>1. i \in DOMAIN asked[j] /\ asked'[j][i] = asked[j][i]
        OBVIOUS
    <2>2. Done(j, asked[j][i])' <=> DoneNext(j, asked'[j][i])
        BY DEF Done, DoneNext
    <2>3. DoneNext(j, asked'[j][i]) <=> DoneNext(j, asked[j][i])
        BY <2>1
    <2> QED BY <1>1, <2>1, <2>2, <2>3
<1> QED BY <1>2 DEF Progress

\* A new message is stored, and its own job is still to be pushed if it has a
\* behavior.
LEMMA NewPutEffects ==
    ASSUME EffectsInv, WorkInv', NEW w \in Workers, NewPut(w)
    PROVE  EffectsInv'
<1> DEFINE j == work[w].job
           todo == work[w].todo
           k == Head(todo).key
<1>1. /\ pc[w] = "putNew" /\ WorkerStep(w) /\ WorkInv
      /\ stored' = [stored EXCEPT ![j][HeldKey(w)] = @ + 1]
      /\ UNCHANGED <<status, tries, asked, got>>
    BY DEF NewPut, PutNew, WorkerStep, svars, EffectsInv
<1>2. /\ j \in Jobs /\ status[j] = "processing"
      /\ \A i \in Keys : /\ stored[j][i] \in Nat /\ got[j][i] \in Nat
                         /\ got[j][i] <= stored[j][i] /\ stored[j][i] <= Most(j, i)
                         /\ Most(j, i) \in Nat
      /\ Progress(w) /\ Repeated(w) /\ Placed(w) /\ work[w] \in Work
      /\ todo \in Seq(NewMessage)
    BY <1>1, AtWork
<1>3. w \in Threads /\ DOMAIN pc = Threads /\ DOMAIN work = Workers
    BY <1>1, OthersStay
<1>4. /\ todo # <<>> /\ work[w].then = "finish"
      /\ Head(todo) \in NewMessage /\ HeldKey(w) = k /\ k \in Keys
    <2>1. todo # <<>> /\ work[w].then = "finish" /\ w \notin Clients
        BY <1>1, <1>2, WorkerTyped DEF Placed, WorkInv
    <2> QED BY <1>1, <2>1, WorkerTyped DEF WorkInv, HeldKey
<1>5. /\ \A i \in Jobs \ {j} : stored'[i] = stored[i]
      /\ stored'[j][k] = stored[j][k] + 1
      /\ \A i \in Keys \ {k} : stored'[j][i] = stored[j][i]
    BY <1>1, <1>2, <1>4 DEF WorkInv, Types
<1>6. \/ /\ Head(todo).persist /\ pc'[w] = "pushNew" /\ work'[w] = work[w]
      \/ /\ ~Head(todo).persist /\ pc'[w] \in {"store", "finish"}
         /\ work'[w].job = j /\ work'[w].todo = Tail(todo)
    <2>1. ASSUME work' = [work EXCEPT ![w].todo = Tail(@)], Next1(w)
          PROVE  /\ pc'[w] \in {"store", "finish"}
                 /\ work'[w].job = j /\ work'[w].todo = Tail(todo)
        <3>1. work'[w].job = j /\ work'[w].todo = Tail(todo)
            BY <1>2, <1>3, <2>1 DEF Work
        <3> QED BY <1>3, <1>4, <2>1, <3>1 DEF Next1, GoTo
    <2> QED BY <1>3, <2>1 DEF NewPut, GoTo
<1>7. /\ 1 \in DOMAIN todo /\ Head(todo) = todo[1]
      /\ \A n \in DOMAIN Tail(todo) : n \in Nat /\ n + 1 \in DOMAIN todo
                                      /\ Tail(todo)[n] = todo[n + 1]
      /\ \A n \in DOMAIN todo : n \in Nat
                                /\ (n # 1 => n - 1 \in DOMAIN Tail(todo)
                                             /\ Tail(todo)[n - 1] = todo[n])
    BY <1>2, <1>4, TailItems
<1> HIDE DEF j, todo
<1>8. \A i \in Keys : /\ stored[j][i] \in Nat /\ stored'[j][i] \in Nat
                      /\ stored'[j][i] >= stored[j][i]
    BY <1>2, <1>4, <1>5
<1>9. Progress(w)'
    <2>1. \A i \in DOMAIN asked[j] :
              \/ Done(j, asked[j][i])
              \/ \E n \in DOMAIN todo : todo[n] = asked[j][i]
        BY <1>1, <1>2, <1>4 DEF Progress, j, todo
    <2>2. \A i \in DOMAIN asked[j] : Done(j, asked[j][i]) => DoneNext(j, asked[j][i])
        <3>1. \A i \in DOMAIN asked[j] : asked[j][i].key \in Keys
            BY <1>1, <1>2, InputsTyped DEF WorkInv, Types
        <3>2. \A i \in DOMAIN asked[j] :
                 stored[j][asked[j][i].key] >= 1 => stored'[j][asked[j][i].key] >= 1
            BY <1>8, <3>1
        <3>3. \A i \in Keys : got'[j][i] = got[j][i]
            BY <1>1
        <3> QED BY <3>1, <3>2, <3>3 DEF Done, DoneNext
    <2>3. stored'[j][k] >= 1
        BY <1>2, <1>4, <1>5
    <2>4. \A n \in DOMAIN todo :
              \/ DoneNext(j, todo[n])
              \/ \E m \in DOMAIN work'[w].todo : work'[w].todo[m] = todo[n]
        <3>1. CASE work'[w] = work[w]
            BY <3>1 DEF todo
        <3>2. ASSUME ~Head(todo).persist, work'[w].todo = Tail(todo), NEW n \in DOMAIN todo
              PROVE  \/ DoneNext(j, todo[n])
                     \/ \E m \in DOMAIN Tail(todo) : Tail(todo)[m] = todo[n]
            BY <1>7, <2>3, <3>2 DEF DoneNext
        <3> QED BY <1>6, <3>1, <3>2
    <2>5. /\ work'[w].job = j /\ asked'[j] = asked[j]
          /\ pc'[w] = "pushNew" => work'[w].todo = todo
        BY <1>1, <1>6 DEF j, todo
    <2> QED BY <2>1, <2>2, <2>3, <2>4, <2>5, ProgressKept DEF j, todo
<1>10. /\ \A i \in Keys \ {k} : HowMany(todo, i) = HowMany(Tail(todo), i)
       /\ HowMany(todo, k) = HowMany(Tail(todo), k) + 1
       /\ \A i \in Keys : HowMany(Tail(todo), i) \in Nat
    <2>1. todo \in Seq(NewMessage) /\ Tail(todo) \in Seq(NewMessage)
        BY <1>1, <1>2, <1>4, WorkerTyped DEF WorkInv, todo
    <2>2. \A i : HowMany(Tail(todo), i) \in Nat
        BY <2>1, HowManyTyped
    <2>3. \A i : HowMany(todo, i) = HowMany(Tail(todo), i)
                                    + IF Head(todo).key = i THEN 1 ELSE 0
        BY <1>4, <2>1, HowManyTail
    <2> QED BY <2>2, <2>3
<1>11. \A i \in Keys : stored'[j][i] + HowMany(Tail(todo), i) <= Most(j, i)
    <2> TAKE i \in Keys
    <2>1. stored[j][i] + HowMany(todo, i) <= Most(j, i)
        BY <1>1, <1>2, <1>4 DEF Repeated, Most, j, todo
    <2>2. stored'[j][i] = IF i = k THEN stored[j][i] + 1 ELSE stored[j][i]
        BY <1>5
    <2> QED BY <1>2, <1>4, <1>10, <2>1, <2>2
<1>12. Repeated(w)'
    <2>1. got'[j][k] < stored'[j][k]
        BY <1>1, <1>2, <1>4, <1>5
    <2>2. \A i \in Keys : tries'[j] * HowMany(NewMessages[KeyOf[j]], i) = Most(j, i)
        BY <1>1 DEF Most
    <2>3. work'[w].job = j
        BY <1>6 DEF j
    <2>4. CASE pc'[w] = "pushNew" /\ work'[w].todo = todo
        BY <1>11, <2>1, <2>2, <2>3, <2>4 DEF Repeated
    <2>5. CASE pc'[w] \in {"store", "finish"} /\ work'[w].todo = Tail(todo)
        BY <1>11, <2>2, <2>3, <2>5 DEF Repeated
    <2> QED BY <1>6, <2>4, <2>5 DEF todo
<1>13. \A i \in Keys : /\ got'[j][i] <= stored'[j][i]
                       /\ stored'[j][i] <= tries'[j] * HowMany(NewMessages[KeyOf[j]], i)
    <2> TAKE i \in Keys
    <2>1. tries'[j] * HowMany(NewMessages[KeyOf[j]], i) = Most(j, i)
        BY <1>1 DEF Most
    <2>2. stored'[j][i] <= Most(j, i)
        BY <1>2, <1>8, <1>10, <1>11
    <2>3. got'[j][i] <= stored'[j][i]
        BY <1>1, <1>2, <1>8
    <2> QED BY <2>1, <2>2, <2>3
<1>14. status'[j] # "complete"
    BY <1>1, <1>2
<1> QED BY <1>1, <1>5, <1>9, <1>12, <1>13, <1>14, WorkerEffects DEF j

\* The job of a new message is submitted once for every time it was stored.
LEMMA NewPushEffects ==
    ASSUME EffectsInv, WorkInv', NEW w \in Workers, NewPush(w)
    PROVE  EffectsInv'
<1> DEFINE j == work[w].job
           todo == work[w].todo
           k == Head(todo).key
<1>1. /\ pc[w] = "pushNew" /\ WorkerStep(w) /\ WorkInv
      /\ got' = [got EXCEPT ![j][HeldKey(w)] = @ + 1]
      /\ work' = [work EXCEPT ![w].todo = Tail(@)] /\ Next1(w)
      /\ UNCHANGED <<asked, stored>>
    BY DEF NewPush, WorkerStep, EffectsInv
<1>2. /\ j \in Jobs /\ status[j] = "processing"
      /\ \A i \in Keys : /\ stored[j][i] \in Nat /\ got[j][i] \in Nat
                         /\ got[j][i] <= stored[j][i] /\ stored[j][i] <= Most(j, i)
                         /\ Most(j, i) \in Nat
      /\ Progress(w) /\ Repeated(w) /\ Placed(w) /\ work[w] \in Work
      /\ todo \in Seq(NewMessage)
    BY <1>1, AtWork
<1>3. w \in Threads /\ DOMAIN pc = Threads /\ DOMAIN work = Workers
    BY <1>1, OthersStay
<1>4. /\ todo # <<>> /\ work[w].then = "finish"
      /\ Head(todo) \in NewMessage /\ HeldKey(w) = k /\ k \in Keys
    <2>1. todo # <<>> /\ work[w].then = "finish" /\ w \notin Clients
        BY <1>1, <1>2, WorkerTyped DEF Placed, WorkInv
    <2> QED BY <1>1, <2>1, WorkerTyped DEF WorkInv, HeldKey
<1>5. /\ \A i \in Jobs \ {j} : got'[i] = got[i]
      /\ got'[j][k] = got[j][k] + 1
      /\ \A i \in Keys \ {k} : got'[j][i] = got[j][i]
    BY <1>1, <1>2, <1>4 DEF WorkInv, Types
<1>6. work'[w].job = j /\ work'[w].todo = Tail(todo) /\ pc'[w] \in {"store", "finish"}
    <2>1. work'[w].job = j /\ work'[w].todo = Tail(todo)
        BY <1>1, <1>2, <1>3 DEF Work
    <2> QED BY <1>1, <1>3, <1>4, <2>1 DEF Next1, GoTo
<1>7. /\ 1 \in DOMAIN todo /\ Head(todo) = todo[1]
      /\ \A n \in DOMAIN Tail(todo) : n \in Nat /\ n + 1 \in DOMAIN todo
                                      /\ Tail(todo)[n] = todo[n + 1]
      /\ \A n \in DOMAIN todo : n \in Nat
                                /\ (n # 1 => n - 1 \in DOMAIN Tail(todo)
                                             /\ Tail(todo)[n - 1] = todo[n])
    BY <1>2, <1>4, TailItems
<1>8. /\ tries' = tries
      /\ \A i \in Jobs : status'[i] = status[i] \/ status'[i] = "queued"
    <2>1. PICK i \in Jobs : StorePush(i, HeldKey(w), "Persist")
        BY DEF NewPush
    <2> QED BY <2>1 DEF StorePush, Submit, EffectsInv, WorkInv, Types, ServiceInv,
                        ServiceTypeOK
<1>9. stored[j][k] >= 1
    BY <1>1, <1>2 DEF Progress
<1> HIDE DEF j, todo
<1>10. Progress(w)'
    <2>1. \A i \in DOMAIN asked[j] :
              \/ Done(j, asked[j][i])
              \/ \E n \in DOMAIN todo : todo[n] = asked[j][i]
        BY <1>1, <1>2, <1>4 DEF Progress, j, todo
    <2>2. \A i \in DOMAIN asked[j] : Done(j, asked[j][i]) => DoneNext(j, asked[j][i])
        <3>1. \A i \in DOMAIN asked[j] : asked[j][i].key \in Keys
            BY <1>1, <1>2, InputsTyped DEF WorkInv, Types
        <3>2. \A i \in Keys : got[j][i] >= 1 => got'[j][i] >= 1
            BY <1>2, <1>4, <1>5
        <3>3. \A i \in DOMAIN asked[j] :
                 got[j][asked[j][i].key] >= 1 => got'[j][asked[j][i].key] >= 1
            BY <3>1, <3>2
        <3>4. stored'[j] = stored[j]
            BY <1>1
        <3> QED BY <3>3, <3>4 DEF Done, DoneNext
    <2>3. DoneNext(j, Head(todo))
        BY <1>1, <1>2, <1>4, <1>5, <1>9 DEF DoneNext
    <2>4. \A n \in DOMAIN todo :
              \/ DoneNext(j, todo[n])
              \/ \E m \in DOMAIN work'[w].todo : work'[w].todo[m] = todo[n]
        BY <1>6, <1>7, <2>3
    <2>5. work'[w].job = j /\ asked'[j] = asked[j] /\ pc'[w] # "pushNew"
        BY <1>1, <1>6
    <2> QED BY <2>1, <2>2, <2>4, <2>5, ProgressKept DEF j, todo
<1>11. Repeated(w)'
    <2>1. \A i \in Keys : stored[j][i] + HowMany(Tail(todo), i) <= Most(j, i)
        BY <1>1, <1>2, <1>4 DEF Repeated, Most, j, todo
    <2>2. \A i \in Keys : tries'[j] * HowMany(NewMessages[KeyOf[j]], i) = Most(j, i)
        BY <1>8 DEF Most
    <2>3. work'[w].job = j /\ work'[w].todo = Tail(todo) /\ pc'[w] \in {"store", "finish"}
        BY <1>6 DEF j, todo
    <2> QED BY <1>1, <2>1, <2>2, <2>3 DEF Repeated
<1>12. \A i \in Keys : /\ got'[j][i] <= stored'[j][i]
                       /\ stored'[j][i] <= tries'[j] * HowMany(NewMessages[KeyOf[j]], i)
    <2> TAKE i \in Keys
    <2>1. tries'[j] * HowMany(NewMessages[KeyOf[j]], i) = Most(j, i)
        BY <1>8 DEF Most
    <2>2. got[j][k] < stored[j][k]
        BY <1>1, <1>2 DEF Repeated, j, todo
    <2>3. got'[j][i] <= stored[j][i]
        <3>1. CASE i = k
            BY <1>2, <1>4, <1>5, <2>2, <3>1
        <3>2. CASE i # k
            BY <1>2, <1>5, <3>2
        <3> QED BY <3>1, <3>2
    <2> QED BY <1>1, <1>2, <2>1, <2>3
<1>13. \A i \in Jobs : status'[i] = "complete" => status[i] = "complete" /\ i # j
    BY <1>2, <1>8
<1> QED BY <1>1, <1>2, <1>5, <1>8, <1>10, <1>11, <1>12, <1>13, WorkerEffects DEF j

\* The end of pullJob has nothing left to do.
LEMMA CompleteEffects ==
    ASSUME EffectsInv, WorkInv', NEW w \in Workers, Complete(w)
    PROVE  EffectsInv'
<1> DEFINE j == work[w].job
<1>1. /\ pc[w] = "finish" /\ WorkerStep(w) /\ WorkInv /\ GoTo(w, "idle")
      /\ status' = [status EXCEPT ![j] = "complete"]
      /\ UNCHANGED <<tries, asked, stored, got>>
    BY DEF Complete, Finish, Return, WorkerStep, EffectsInv
<1>2. /\ j \in Jobs
      /\ \A i \in Keys : got[j][i] <= stored[j][i] /\ stored[j][i] <= Most(j, i)
      /\ Progress(w) /\ Placed(w) /\ work[w] \in Work
    BY <1>1, AtWork
<1>3. work[w].todo = <<>> /\ work[w].then = "finish"
    BY <1>1, <1>2 DEF Placed, Work
<1>4. \A i \in DOMAIN asked[j] : Done(j, asked[j][i])
    BY <1>1, <1>2, <1>3 DEF Progress
<1>5. Progress(w)' /\ Repeated(w)'
    <2>1. pc'[w] = "idle"
        BY <1>1, OthersStay DEF GoTo
    <2> QED BY <2>1, NothingToDo
<1>6. \A i \in Jobs \ {j} : status'[i] = status[i]
    BY <1>1 DEF WorkInv, Types, ServiceInv, ServiceTypeOK
<1>7. \A i \in DOMAIN asked'[j] : DoneNext(j, asked'[j][i])
    BY <1>1, <1>4 DEF Done, DoneNext
<1>8. \A i \in Keys : /\ got'[j][i] <= stored'[j][i]
                      /\ stored'[j][i] <= tries'[j] * HowMany(NewMessages[KeyOf[j]], i)
    BY <1>1, <1>2 DEF Most
<1> HIDE DEF j
<1> QED BY <1>1, <1>2, <1>5, <1>6, <1>7, <1>8, WorkerEffects DEF j

\* So has a complete that throws.
LEMMA CompleteThrowsEffects ==
    ASSUME EffectsInv, WorkInv', NEW w \in Workers, CompleteThrows(w)
    PROVE  EffectsInv'
<1> DEFINE j == work[w].job
<1>1. /\ pc[w] = "finish" /\ WorkInv /\ GoTo(w, "catch")
      /\ \/ status' = [status EXCEPT ![j] = "complete"]
         \/ UNCHANGED status
      /\ UNCHANGED <<tries, asked, stored, got>>
    BY DEF CompleteThrows, Finish, EffectsInv, history
<1>2. /\ j \in Jobs
      /\ \A i \in Keys : got[j][i] <= stored[j][i] /\ stored[j][i] <= Most(j, i)
      /\ Progress(w) /\ Placed(w) /\ work[w] \in Work
    BY <1>1, AtWork
<1>3. work[w].todo = <<>> /\ work[w].then = "finish"
    BY <1>1, <1>2 DEF Placed, Work
<1>4. \A i \in DOMAIN asked[j] : Done(j, asked[j][i])
    BY <1>1, <1>2, <1>3 DEF Progress
<1>5. Progress(w)' /\ Repeated(w)'
    <2>1. pc'[w] = "catch"
        BY <1>1, OthersStay DEF GoTo
    <2> QED BY <2>1, NothingToDo
<1>6. \A i \in Jobs \ {j} : status'[i] = status[i]
    BY <1>1 DEF WorkInv, Types, ServiceInv, ServiceTypeOK
<1>7. \A i \in DOMAIN asked'[j] : DoneNext(j, asked'[j][i])
    BY <1>1, <1>4 DEF Done, DoneNext
<1>8. \A i \in Keys : /\ got'[j][i] <= stored'[j][i]
                      /\ stored'[j][i] <= tries'[j] * HowMany(NewMessages[KeyOf[j]], i)
    BY <1>1, <1>2 DEF Most
<1> HIDE DEF j
<1> QED BY <1>1, <1>2, <1>5, <1>6, <1>7, <1>8, WorkerEffects DEF j

\* A job that no thread works on is completed whatever its run had asked for.
LEMMA RecoverEffects ==
    ASSUME EffectsInv, WorkInv', NEW j \in Jobs, Recover(j)
    PROVE  EffectsInv'
<1>1. /\ \A w \in Workers : work[w].job # j
      /\ status' = [status EXCEPT ![j] = "complete"]
      /\ recovered' = recovered \cup {j}
      /\ UNCHANGED <<tries, pc, work, asked, stored, got>>
    BY DEF Recover, Abandoned, Finish, history
<1>2. \A i \in Jobs \ {j} : status'[i] = status[i]
    BY <1>1 DEF EffectsInv, WorkInv, Types, ServiceInv, ServiceTypeOK
<1>4. \A u \in Workers : Same(u)
    BY <1>1 DEF Same
<1>5. DoneInv'
    BY <1>1, <1>2, <1>4, DoneKept DEF EffectsInv
<1>6. RepeatInv'
    <2>1. RepeatsAreTries'
        BY <1>1 DEF EffectsInv, RepeatInv, RepeatsAreTries
    <2> QED BY <1>4, <2>1, RepeatKept DEF EffectsInv
<1> QED BY <1>5, <1>6 DEF EffectsInv

LEMMA InitEffects ==
    Init => EffectsInv
<1> SUFFICES ASSUME Init PROVE EffectsInv
    OBVIOUS
<1>1. WorkInv
    BY InitWork
<1>2. \A w \in Workers : pc[w] = "idle" /\ work[w].todo = <<>>
    BY StoreAssumption DEF Init, Threads, NoWork
<1>3. \A w \in Workers : Progress(w) /\ Repeated(w)
    BY <1>2 DEF Progress, Repeated
<1>4. CompleteHasEffects
    BY DEF CompleteHasEffects, Init, ServiceInit
<1>5. RepeatsAreTries
    <2>1. \A j \in Jobs, k \in Keys : HowMany(NewMessages[KeyOf[j]], k) \in Nat
        BY InputsTyped, HowManyTyped, StoreAssumption
    <2> QED BY <2>1 DEF RepeatsAreTries, Init, ServiceInit
<1> QED BY <1>1, <1>3, <1>4, <1>5 DEF EffectsInv, DoneInv, RepeatInv

LEMMA NextKeepsEffects ==
    EffectsInv /\ [Next]_vars => EffectsInv'
<1> SUFFICES ASSUME EffectsInv, [Next]_vars PROVE EffectsInv'
    OBVIOUS
<1>1. WorkInv'
    BY NextKeepsWork DEF EffectsInv
<1>2. CASE UNCHANGED vars
    BY <1>1, <1>2, QuietEffects DEF vars, svars, history
<1>3. CASE \E c \in Clients : ClientStep(c) \/ ClientCrash(c)
    BY <1>1, <1>3, ClientEffects
<1>4. CASE \E w \in Workers, j \in Jobs : Pop(w, j)
    BY <1>1, <1>4, PopEffects
<1>5. CASE \E w \in Workers : WorkerStep(w) \/ Crash(w) \/ CompleteThrows(w)
    BY <1>1, <1>5, QuietWorkerEffects, RunEffects, NewPutEffects, NewPushEffects,
       CompleteEffects, CompleteThrowsEffects DEF WorkerStep
<1>6. ASSUME NEW j \in Jobs, Recover(j) \/ ReadAgain(j) PROVE EffectsInv'
    <2>1. CASE Recover(j)
        BY <1>1, <2>1, RecoverEffects
    <2>2. CASE ReadAgain(j)
        BY <1>1, <2>2, QuietEffects DEF ReadAgain, history
    <2> QED BY <1>6, <2>1, <2>2
<1>7. CASE \E k \in Keys : Expire(k)
    BY <1>1, <1>7, QuietEffects DEF Expire, history
<1> QED BY <1>2, <1>3, <1>4, <1>5, <1>6, <1>7 DEF Next

LEMMA EffectsInvariant == Spec => []EffectsInv
<1> QED BY InitEffects, NextKeepsEffects, PTL DEF Spec

\* A job that its own worker completed, and not the reader that found it left in
\* work, has stored every new message its last run asked for and submitted the
\* jobs of them, however many attempts that took (Processor.pullJob,
\* handleProcessingResult).
THEOREM CompleteJobsHaveEffects == Spec => []CompleteHasEffects
<1>1. EffectsInv => CompleteHasEffects
    BY DEF EffectsInv, DoneInv
<1> QED BY <1>1, EffectsInvariant, PTL

\* A job stores the new messages its behavior asks for, and submits the jobs of
\* them, at most once for every time it is tried and every new message of a key
\* (Processor.handleProcessingResult, Queue.error).
THEOREM TriesBoundRepeats == Spec => []RepeatsAreTries
<1>1. EffectsInv => RepeatsAreTries
    BY DEF EffectsInv, RepeatInv
<1> QED BY <1>1, EffectsInvariant, PTL

=============================================================================
