------------------------- MODULE MessageCopiesProofs -------------------------
(***************************************************************************)
(* What MessageStore guarantees of its messages, which several threads     *)
(* read, change in hand and put back: the theorems about Spec at the end.  *)
(***************************************************************************)
EXTENDS MessageStoreProofs

-----------------------------------------------------------------------------
(* The inductive invariant                                                 *)

\* Copy m is the message of k with c more counts and n more notes, and at least
\* its behaviors.
Ahead(m, k, c, n) ==
    /\ Count(m) = Count(message[k]) + c
    /\ Notes(m) = Notes(message[k]) + n
    /\ message[k].behavior \subseteq m.behavior

One(b) == IF b THEN 1 ELSE 0

\* Whether t is to store a note.
Notes1(t) == t \in Workers /\ "notes" \in DOMAIN Head(work[t].todo).values

\* What thread t is to put is, unless it is stale, the message with what t adds
\* to it.
HeldOK(t) ==
    pc[t] \in {"put", "putNew"} =>
        /\ <<t, "held">> \notin stale =>
              Ahead(held[t], HeldKey(t), 0, One(Notes1(t)))
        /\ t \in Clients => Posts[t].type \in held[t].behavior
        /\ t \in Workers /\ Head(work[t].todo).persist => "Persist" \in held[t].behavior

InHand(w) == pc[w] \notin {"idle", "access"} /\ <<w, "own">> \notin stale

\* What worker w processes is, unless it is stale, the message and maybe one
\* count.  A Delete leaves nothing of the message it has in hand.
OwnOK(w) ==
    InHand(w) =>
        /\ kind[work[w].job] # "Delete" =>
              Ahead(own[w], Key(w), One(work[w].fresh), 0)
        /\ renders(message[Key(w)].values) \/ own[w] = message[Key(w)]
        /\ pc[w] = "effect" => renders(message[Key(w)].values)

CopiesInv ==
    /\ \A t \in Threads : HeldOK(t)
    /\ \A w \in Workers : OwnOK(w)

Behaves(k, type) == k \notin overlapped \cup deleted => type \in message[k].behavior

\* A job was submitted with its behavior.
BehaviorInv ==
    /\ \A j \in Jobs : status[j] # "absent" => Behaves(KeyOf[j], kind[j])
    /\ \A c \in Clients : pc[c] = "push" => Behaves(Posts[c].key, Posts[c].type)
    /\ \A w \in Workers : pc[w] = "pushNew" => Behaves(HeldKey(w), "Persist")

CopyInv == WorkInv /\ LostOnlyByOverlap /\ CopiesInv /\ BehaviorInv

-----------------------------------------------------------------------------
(* What stays as it is                                                     *)

\* Thread t keeps what it has, and its stale copies stay stale.
Stays(t) ==
    /\ pc'[t] = pc[t] /\ held'[t] = held[t]
    /\ t \in Workers => work'[t] = work[t] /\ own'[t] = own[t]
    /\ \A c \in {"held", "own"} : <<t, c>> \in stale => <<t, c>> \in stale'

\* A copy in storeMessage that stays, of a message that is not put.
LEMMA HeldKept ==
    ASSUME NEW t \in Threads, HeldOK(t), Stays(t),
           pc[t] \in {"put", "putNew"} =>
              <<t, "held">> \in stale' \/ message'[HeldKey(t)] = message[HeldKey(t)]
    PROVE  HeldOK(t)'
<1>1. HeldKey(t)' = HeldKey(t) /\ (Notes1(t)' <=> Notes1(t))
    BY DEF Stays, HeldKey, Notes1, Threads
<1>2. t \in Workers => work'[t] = work[t]
    BY DEF Stays
<1>3. pc'[t] = pc[t] /\ held'[t] = held[t]
    BY DEF Stays
<1>4. ASSUME pc[t] \in {"put", "putNew"}, <<t, "held">> \notin stale'
      PROVE  Ahead(held[t], HeldKey(t), 0, One(Notes1(t)))'
    <2>1. Ahead(held[t], HeldKey(t), 0, One(Notes1(t)))
        BY <1>4 DEF HeldOK, Stays
    <2>2. message'[HeldKey(t)] = message[HeldKey(t)]
        BY <1>4
    <2> QED BY <1>1, <1>3, <2>1, <2>2 DEF Ahead, One
<1> QED BY <1>2, <1>3, <1>4 DEF HeldOK

\* A copy for a job that stays, of a message that is not put.
LEMMA OwnKept ==
    ASSUME NEW w \in Workers, OwnOK(w), InHand(w)' => InHand(w), own'[w] = own[w],
           work'[w].job = work[w].job, work'[w].fresh = work[w].fresh,
           InHand(w) => kind'[work[w].job] = kind[work[w].job],
           pc'[w] = "effect" => pc[w] = "effect",
           InHand(w) => <<w, "own">> \in stale' \/ message'[Key(w)] = message[Key(w)]
    PROVE  OwnOK(w)'
<1> SUFFICES ASSUME InHand(w)' PROVE OwnOK(w)'
    BY DEF OwnOK
<1>1. Key(w)' = Key(w) /\ InHand(w) /\ message'[Key(w)] = message[Key(w)]
    BY DEF Key, InHand
<1>2. kind'[work'[w].job] # "Delete" =>
         Ahead(own[w], Key(w), One(work[w].fresh), 0)'
    <2>1. kind[work[w].job] # "Delete" => Ahead(own[w], Key(w), One(work[w].fresh), 0)
        BY <1>1 DEF OwnOK
    <2> QED BY <1>1, <2>1 DEF Ahead, One
<1>3. renders(message[Key(w)].values)' \/ own'[w] = message'[Key(w)']
    <2>1. renders(message[Key(w)].values) \/ own[w] = message[Key(w)]
        BY <1>1 DEF OwnOK
    <2> QED BY <1>1, <2>1
<1>4. pc'[w] = "effect" => renders(message[Key(w)].values)'
    <2>1. pc[w] = "effect" => renders(message[Key(w)].values)
        BY <1>1 DEF OwnOK
    <2> QED BY <1>1, <2>1
<1> QED BY <1>2, <1>3, <1>4 DEF OwnOK

\* A behavior that a message has is kept, unless it is deleted or overwritten by
\* a stale copy, and what is submitted or about to be has its behavior.
LEMMA BehaviorKept ==
    ASSUME CopyInv, overlapped \subseteq overlapped', deleted \subseteq deleted',
           \A k \in Keys : \/ k \in overlapped' \cup deleted'
                           \/ message[k].behavior \subseteq message'[k].behavior,
           \A j \in Jobs : status'[j] # "absent" =>
              \/ status[j] # "absent" /\ kind'[j] = kind[j]
              \/ Behaves(KeyOf[j], kind'[j]),
           \A c \in Clients : pc'[c] = "push" =>
              \/ pc[c] = "push"
              \/ Posts[c].type \in message'[Posts[c].key].behavior,
           \A w \in Workers : pc'[w] = "pushNew" =>
              \/ pc[w] = "pushNew" /\ work'[w] = work[w]
              \/ "Persist" \in message'[HeldKey(w)'].behavior
    PROVE  BehaviorInv'
<1>1. ASSUME NEW k \in Keys, NEW type, Behaves(k, type)
      PROVE  k \notin overlapped' \cup deleted' => type \in message'[k].behavior
    BY <1>1 DEF Behaves
<1>2. ASSUME NEW j \in Jobs, status'[j] # "absent"
      PROVE  KeyOf[j] \notin overlapped' \cup deleted' =>
                kind'[j] \in message'[KeyOf[j]].behavior
    <2>1. Behaves(KeyOf[j], kind'[j])
        BY <1>2 DEF CopyInv, BehaviorInv
    <2> QED BY <1>1, <2>1, StoreAssumption
<1>3. ASSUME NEW c \in Clients, pc'[c] = "push"
      PROVE  Posts[c].key \notin overlapped' \cup deleted' =>
                Posts[c].type \in message'[Posts[c].key].behavior
    <2>1. Posts[c].key \in Keys
        BY InputsTyped
    <2>2. \/ Behaves(Posts[c].key, Posts[c].type)
          \/ Posts[c].type \in message'[Posts[c].key].behavior
        BY <1>3 DEF CopyInv, BehaviorInv
    <2> QED BY <1>1, <2>1, <2>2
<1>4. ASSUME NEW w \in Workers, pc'[w] = "pushNew"
      PROVE  HeldKey(w)' \notin overlapped' \cup deleted' =>
                "Persist" \in message'[HeldKey(w)'].behavior
    <2>1. CASE pc[w] = "pushNew" /\ work'[w] = work[w]
        <3>1. Behaves(HeldKey(w), "Persist") /\ HeldKey(w) \in Keys
            BY <2>1, WorkerTyped DEF CopyInv, BehaviorInv, WorkInv, Placed
        <3>2. HeldKey(w)' = HeldKey(w)
            BY <2>1, WorkerTyped DEF HeldKey, CopyInv, WorkInv
        <3> QED BY <1>1, <3>1, <3>2
    <2> QED BY <1>4, <2>1
<1> QED BY <1>2, <1>3, <1>4 DEF BehaviorInv, Behaves

\* A step of t is one of a client, or one of a worker.
ThreadStep(t) ==
    \/ t \in Clients /\ (ClientStep(t) \/ ClientCrash(t))
    \/ t \in Workers /\ \/ WorkerStep(t) \/ Crash(t) \/ CompleteThrows(t)
                        \/ \E j \in Jobs : Pop(t, j)

LEMMA OtherThreadsStay ==
    ASSUME WorkInv, NEW t \in Threads, ThreadStep(t)
    PROVE  \A u \in Threads \ {t} : Stays(u)
<1>1. \E l : pc' = [pc EXCEPT ![t] = l]
    BY DEF ThreadStep, ClientStep, ClientCrash, ClientRead, ClientPut, ClientPush,
           WorkerStep, Access, Run, RunDeclines, Effect, NewRead, NewPut, NewPush,
           Complete, CompleteThrows, Throws, Catch, GiveBack, Crash, Pop, Return,
           Next1, GoTo
<1>2. held' = held \/ \E m : held' = [held EXCEPT ![t] = m]
    BY DEF ThreadStep, ClientStep, ClientCrash, ClientRead, ClientPut, ClientPush,
           WorkerStep, Access, Run, RunDeclines, Effect, NewRead, NewPut, NewPush,
           Complete, CompleteThrows, Throws, Catch, GiveBack, Crash, Pop, Return,
           StoreRead, PutNew, StorePut, history
<1>3. own' = own \/ \E m : own' = [own EXCEPT ![t] = m]
    BY DEF ThreadStep, ClientStep, ClientCrash, ClientRead, ClientPut, ClientPush,
           WorkerStep, Access, Run, RunDeclines, Effect, NewRead, NewPut, NewPush,
           Complete, CompleteThrows, Throws, Catch, GiveBack, Crash, Pop, Return, Left
<1>4. work' = work \/ \E r : work' = [work EXCEPT ![t] = r]
    BY DEF ThreadStep, ClientStep, ClientCrash, ClientRead, ClientPut, ClientPush,
           WorkerStep, Access, Run, RunDeclines, Effect, NewRead, NewPut, NewPush,
           Complete, CompleteThrows, Throws, Catch, GiveBack, Crash, Pop, Return
<1>5. stale \subseteq stale' \cup {<<t, "held">>, <<t, "own">>}
    BY DEF ThreadStep, ClientStep, ClientCrash, ClientRead, ClientPut, ClientPush,
           WorkerStep, Access, Run, RunDeclines, Effect, NewRead, NewPut, NewPush,
           Complete, CompleteThrows, Throws, Catch, GiveBack, Crash, Pop, Return,
           StoreRead, PutNew, StorePut, history
<1>6. /\ DOMAIN pc = Threads /\ DOMAIN held = Threads
      /\ DOMAIN own = Workers /\ DOMAIN work = Workers
    BY DEF WorkInv, Types, FormInv
<1> TAKE u \in Threads \ {t}
<1>7. pc'[u] = pc[u] /\ held'[u] = held[u]
    BY <1>1, <1>2, <1>6
<1>8. u \in Workers => work'[u] = work[u] /\ own'[u] = own[u]
    BY <1>3, <1>4, <1>6
<1> QED BY <1>5, <1>7, <1>8 DEF Stays

\* A step that puts nothing and leaves t with what fits its place.
LEMMA QuietCopies ==
    ASSUME CopyInv, WorkInv', NEW t \in Threads,
           \A u \in Threads \ {t} : Stays(u),
           UNCHANGED <<message, overlapped, deleted, applied, noted>>,
           \A j \in Jobs : status[j] # "absent" => kind'[j] = kind[j],
           HeldOK(t)', t \in Workers => OwnOK(t)', BehaviorInv'
    PROVE  CopyInv'
<1>1. LostOnlyByOverlap'
    BY DEF CopyInv, LostOnlyByOverlap, Count, Notes
<1>2. \A u \in Threads : HeldOK(u)'
    BY HeldKept DEF CopyInv, CopiesInv
<1>3. ASSUME NEW u \in Workers, u # t
      PROVE  OwnOK(u)'
    <2>1. u \in Threads /\ Stays(u) /\ OwnOK(u)
        BY <1>3 DEF Threads, CopyInv, CopiesInv
    <2>2. pc'[u] = pc[u] /\ work'[u] = work[u] /\ own'[u] = own[u]
        BY <2>1 DEF Stays
    <2>3. InHand(u)' => InHand(u)
        BY <2>1, <2>2 DEF InHand, Stays
    <2>4. InHand(u) => kind'[work[u].job] = kind[work[u].job]
        <3>1. InHand(u) => work[u].job \in Jobs /\ status[work[u].job] # "absent"
            BY WorkerTyped DEF InHand, CopyInv, WorkInv, Placed
        <3> QED BY <3>1
    <2> QED BY <2>1, <2>2, <2>3, <2>4, OwnKept
<1> QED BY <1>1, <1>2, <1>3 DEF CopyInv, CopiesInv

\* A step that neither puts nor submits anything, after which no client goes on
\* to push, and no worker.
LEMMA SilentBehaviors ==
    ASSUME CopyInv, NEW t \in Threads, \A u \in Threads \ {t} : Stays(u),
           pc'[t] \notin {"push", "pushNew"},
           UNCHANGED <<message, overlapped, deleted, kind>>,
           \A j \in Jobs : status'[j] # "absent" => status[j] # "absent"
    PROVE  BehaviorInv'
<1>1. /\ overlapped \subseteq overlapped' /\ deleted \subseteq deleted'
      /\ \A k \in Keys : message[k].behavior \subseteq message'[k].behavior
      /\ \A j \in Jobs : status'[j] # "absent" => status[j] # "absent" /\ kind'[j] = kind[j]
    OBVIOUS
<1>2. \A c \in Clients : pc'[c] = "push" => pc[c] = "push"
    BY DEF Stays, Threads
<1>3. \A w \in Workers : pc'[w] = "pushNew" => pc[w] = "pushNew" /\ work'[w] = work[w]
    BY DEF Stays, Threads
<1> QED BY <1>1, <1>2, <1>3, BehaviorKept

-----------------------------------------------------------------------------
(* The steps of clients                                                    *)

LEMMA ClientReadCopies ==
    ASSUME CopyInv, WorkInv', NEW c \in Clients, ClientRead(c)
    PROVE  CopyInv'
<1> DEFINE k == Posts[c].key
           v == Posts[c].values
           type == Posts[c].type
<1>1. /\ c \in Threads /\ c \notin Workers /\ WorkInv
      /\ k \in Keys /\ type \in BehaviorType /\ {type} \in SUBSET BehaviorType
      /\ Incoming(v) /\ "notes" \notin DOMAIN v
    BY InputsTyped, StoreAssumption DEF Threads, CopyInv
<1>2. \A u \in Threads \ {c} : Stays(u)
    BY <1>1, OtherThreadsStay DEF ThreadStep, ClientStep
<1>3. StoreRead(c, k, v, {type}, TRUE) /\ GoTo(c, "put")
    BY DEF ClientRead
<1>4. UNCHANGED <<status, tries, kind, own, work>>
    BY DEF ClientRead, svars
<1> HIDE DEF k, v, type
<1>5. PICK m : /\ Formed(m)
               /\ held' = [held EXCEPT ![c] = Merged(m, v, {type}, TRUE)]
               /\ \/ m = message[k] /\ stale' = stale \ {<<c, "held">>}
                  \/ stale' = stale \cup {<<c, "held">>}
    BY <1>1, <1>3, ReadEffect
<1>6. UNCHANGED <<message, overlapped, deleted, applied, noted>>
    BY <1>3 DEF StoreRead
<1>7. pc'[c] = "put" /\ held'[c] = Merged(m, v, {type}, TRUE)
    BY <1>1, <1>3, <1>5 DEF GoTo, WorkInv, Types, FormInv
<1>8. /\ Count(held'[c]) = Count(m) /\ Notes(held'[c]) = Notes(m)
      /\ held'[c].behavior = m.behavior \cup {type}
    <2>1. TRUE \in BOOLEAN /\ Formed(m)
        BY <1>5
    <2>2. /\ Count(Merged(m, v, {type}, TRUE)) = Count(m)
          /\ Notes(Merged(m, v, {type}, TRUE)) =
                IF "notes" \in DOMAIN v THEN Notes(m) + 1 ELSE Notes(m)
          /\ Merged(m, v, {type}, TRUE).behavior = m.behavior \cup {type}
        BY <1>1, <2>1, MergedFormed
    <2> QED BY <1>1, <1>7, <2>2
<1>9. HeldOK(c)'
    <2>1. HeldKey(c)' = k /\ ~Notes1(c)'
        BY <1>1 DEF HeldKey, Notes1, k
    <2>2. <<c, "held">> \notin stale' => m = message'[k]
        BY <1>5, <1>6
    <2>3. ASSUME m = message'[k]
          PROVE  Ahead(held[c], HeldKey(c), 0, One(Notes1(c)))'
        <3>1. Count(m) \in Nat /\ Notes(m) \in Nat
            BY <1>5, CountsTyped
        <3>2. /\ Count(held'[c]) = Count(message'[k]) + 0
              /\ Notes(held'[c]) = Notes(message'[k]) + 0
              /\ message'[k].behavior \subseteq held'[c].behavior
            BY <1>8, <2>3, <3>1
        <3>3. One(Notes1(c))' = 0
            BY <2>1 DEF One
        <3> QED BY <2>1, <3>2, <3>3 DEF Ahead
    <2>4. Posts[c].type \in held'[c].behavior
        BY <1>8 DEF type
    <2> QED BY <1>1, <2>2, <2>3, <2>4 DEF HeldOK
<1>10. BehaviorInv'
    BY <1>1, <1>2, <1>4, <1>6, <1>7, SilentBehaviors
<1> QED BY <1>1, <1>2, <1>4, <1>6, <1>9, <1>10, QuietCopies

LEMMA ClientPushCopies ==
    ASSUME CopyInv, WorkInv', NEW c \in Clients, ClientPush(c)
    PROVE  CopyInv'
<1>1. c \in Threads /\ c \notin Workers /\ WorkInv
    BY StoreAssumption DEF Threads, CopyInv
<1>2. \A u \in Threads \ {c} : Stays(u)
    BY <1>1, OtherThreadsStay DEF ThreadStep, ClientStep
<1>3. PICK j \in Jobs : StorePush(j, Posts[c].key, Posts[c].type)
    BY DEF ClientPush
<1>4. /\ KeyOf[j] = Posts[c].key /\ status[j] = "absent"
      /\ status' = [status EXCEPT ![j] = "queued"]
      /\ kind' = [kind EXCEPT ![j] = Posts[c].type]
    BY <1>3 DEF StorePush, Submit
<1>5. /\ pc[c] = "push" /\ GoTo(c, "done")
      /\ UNCHANGED <<message, overlapped, deleted, applied, noted, held, work>>
    BY DEF ClientPush, history
<1>6. pc'[c] = "done"
    BY <1>1, <1>5 DEF GoTo, WorkInv, Types
<1>7. /\ kind'[j] = Posts[c].type
      /\ \A i \in Jobs \ {j} : kind'[i] = kind[i] /\ status'[i] = status[i]
    BY <1>1, <1>4 DEF WorkInv, Types, ServiceInv, ServiceTypeOK
<1>8. BehaviorInv'
    <2>1. Behaves(KeyOf[j], kind'[j])
        BY <1>4, <1>5, <1>7 DEF CopyInv, BehaviorInv
    <2>2. \A i \in Jobs : status'[i] # "absent" =>
             \/ status[i] # "absent" /\ kind'[i] = kind[i]
             \/ Behaves(KeyOf[i], kind'[i])
        BY <1>7, <2>1
    <2>3. \A d \in Clients : pc'[d] = "push" => pc[d] = "push"
        BY <1>2, <1>6 DEF Stays, Threads
    <2>4. \A w \in Workers : pc'[w] = "pushNew" => pc[w] = "pushNew" /\ work'[w] = work[w]
        BY <1>1, <1>2 DEF Stays, Threads
    <2> QED BY <1>5, <2>2, <2>3, <2>4, BehaviorKept
<1>9. HeldOK(c)'
    BY <1>6 DEF HeldOK
<1> QED BY <1>1, <1>2, <1>4, <1>5, <1>7, <1>8, <1>9, QuietCopies

LEMMA ClientCrashCopies ==
    ASSUME CopyInv, WorkInv', NEW c \in Clients, ClientCrash(c)
    PROVE  CopyInv'
<1>1. c \in Threads /\ c \notin Workers /\ WorkInv
    BY StoreAssumption DEF Threads, CopyInv
<1>2. \A u \in Threads \ {c} : Stays(u)
    BY <1>1, OtherThreadsStay DEF ThreadStep
<1>3. pc'[c] = "done"
    BY <1>1 DEF ClientCrash, GoTo, WorkInv, Types
<1>4. UNCHANGED <<status, kind, message, overlapped, deleted, applied, noted>>
    BY DEF ClientCrash, svars, history
<1>5. HeldOK(c)'
    BY <1>3 DEF HeldOK
<1>6. BehaviorInv'
    BY <1>1, <1>2, <1>3, <1>4, SilentBehaviors
<1> QED BY <1>1, <1>2, <1>4, <1>5, <1>6, QuietCopies

-----------------------------------------------------------------------------
(* Puts                                                                    *)

\* A copy that is not stale adds what it has to the message; all others of its
\* key are stale after it is put.
LEMMA PutCopies ==
    ASSUME CopyInv, NEW t \in Threads, NEW k \in Keys, NEW note \in BOOLEAN,
           StorePut(t, k, note), pc[t] \in {"put", "putNew"}, HeldKey(t) = k,
           note <=> Notes1(t), UNCHANGED kind,
           \A u \in Threads \ {t} : Stays(u),
           pc'[t] \notin {"put", "putNew", "effect"},
           t \in Workers => /\ own'[t] = own[t] /\ work'[t].job = work[t].job
                            /\ work'[t].fresh = work[t].fresh
    PROVE  /\ LostOnlyByOverlap' /\ CopiesInv'
           /\ message'[k] = held[t]
           /\ overlapped \subseteq overlapped' /\ deleted \subseteq deleted'
           /\ \A i \in Keys : \/ i \in overlapped' \cup deleted'
                              \/ message[i].behavior \subseteq message'[i].behavior
<1>1. /\ message' = [message EXCEPT ![k] = held[t]]
      /\ overlapped' = IF <<t, "held">> \in stale THEN overlapped \cup {k} ELSE overlapped
      /\ stale' = (stale \cup Storing(k) \cup Processing(k)) \ {<<t, "held">>}
      /\ noted' = [noted EXCEPT ![k] = IF note THEN @ + 1 ELSE @]
      /\ UNCHANGED <<held, deleted, applied>>
    BY DEF StorePut, Overwrites
<1>2. /\ DOMAIN message = Keys /\ noted \in [Keys -> Nat] /\ applied \in [Keys -> Nat]
      /\ \A i \in Keys : Formed(message[i])
    BY DEF CopyInv, WorkInv, Types, FormInv
<1>3. /\ message'[k] = held[t] /\ \A i \in Keys \ {k} : message'[i] = message[i]
      /\ noted'[k] = noted[k] + One(note) /\ \A i \in Keys \ {k} : noted'[i] = noted[i]
    BY <1>1, <1>2 DEF One
<1>4. /\ overlapped \subseteq overlapped' /\ deleted \subseteq deleted'
      /\ k \notin overlapped' => <<t, "held">> \notin stale /\ k \notin overlapped
    BY <1>1
<1>5. ASSUME <<t, "held">> \notin stale
      PROVE  /\ Count(held[t]) = Count(message[k])
             /\ Notes(held[t]) = Notes(message[k]) + One(note)
             /\ message[k].behavior \subseteq held[t].behavior
    <2>1. Ahead(held[t], k, 0, One(Notes1(t)))
        BY <1>5 DEF CopyInv, CopiesInv, HeldOK
    <2>2. One(Notes1(t)) = One(note)
        BY DEF One
    <2>3. Count(message[k]) \in Nat
        BY <1>2, CountsTyped
    <2> QED BY <2>1, <2>2, <2>3 DEF Ahead
<1>6. LostOnlyByOverlap'
    <2>1. ASSUME NEW i \in Keys, i \notin overlapped'
          PROVE  /\ Count(message'[i]) = applied'[i]
                 /\ Notes(message'[i]) = noted'[i]
        <3>1. Count(message[i]) = applied[i] /\ Notes(message[i]) = noted[i]
            BY <1>4, <2>1 DEF CopyInv, LostOnlyByOverlap
        <3>2. CASE i = k
            BY <1>1, <1>3, <1>4, <1>5, <2>1, <3>1, <3>2
        <3>3. CASE i # k
            BY <1>1, <1>3, <3>1, <3>3
        <3> QED BY <3>2, <3>3
    <2> QED BY <2>1 DEF LostOnlyByOverlap, Count, Notes
<1>7. \A i \in Keys : \/ i \in overlapped' \cup deleted'
                      \/ message[i].behavior \subseteq message'[i].behavior
    <2> TAKE i \in Keys
    <2>1. CASE i = k
        BY <1>3, <1>4, <1>5, <2>1
    <2>2. CASE i # k
        BY <1>3, <2>2
    <2> QED BY <2>1, <2>2
<1>8. ASSUME NEW u \in Threads PROVE HeldOK(u)'
    <2>1. CASE u = t
        BY <2>1 DEF HeldOK
    <2>2. CASE u # t
        <3>1. HeldOK(u) /\ Stays(u)
            BY <2>2 DEF CopyInv, CopiesInv
        <3>2. ASSUME pc[u] \in {"put", "putNew"}
              PROVE  <<u, "held">> \in stale' \/ message'[HeldKey(u)] = message[HeldKey(u)]
            <4>1. CASE HeldKey(u) = k
                <5>1. <<u, "held">> \in Storing(k)
                    BY <3>2, <4>1 DEF Storing
                <5> QED BY <1>1, <2>2, <5>1
            <4>2. CASE HeldKey(u) # k
                BY <1>1, <4>2
            <4> QED BY <4>1, <4>2
        <3> QED BY <3>1, <3>2, HeldKept
    <2> QED BY <2>1, <2>2
<1>9. ASSUME NEW u \in Workers PROVE OwnOK(u)'
    <2>1. u \in Threads /\ OwnOK(u)
        BY DEF CopyInv, CopiesInv, Threads
    <2>2. /\ own'[u] = own[u] /\ work'[u].job = work[u].job
          /\ work'[u].fresh = work[u].fresh /\ (pc'[u] = "effect" => pc[u] = "effect")
        BY <2>1 DEF Stays
    <2>3. InHand(u)' => InHand(u)
        <3>1. <<u, "own">> \in stale => <<u, "own">> \in stale'
            BY <1>1
        <3>2. pc'[u] \notin {"idle", "access"} => pc[u] \notin {"idle", "access"}
            BY <2>1 DEF Stays
        <3> QED BY <3>1, <3>2 DEF InHand
    <2>4. InHand(u) => <<u, "own">> \in stale' \/ message'[Key(u)] = message[Key(u)]
        <3>1. CASE Key(u) = k
            <4>1. InHand(u) => <<u, "own">> \in Processing(k)
                BY <3>1 DEF Processing, InHand
            <4> QED BY <1>1, <4>1
        <3>2. CASE Key(u) # k
            BY <1>1, <3>2
        <3> QED BY <3>1, <3>2
    <2> QED BY <2>1, <2>2, <2>3, <2>4, OwnKept
<1> QED BY <1>3, <1>4, <1>6, <1>7, <1>8, <1>9 DEF CopiesInv

LEMMA ClientPutCopies ==
    ASSUME CopyInv, WorkInv', NEW c \in Clients, ClientPut(c)
    PROVE  CopyInv'
<1> DEFINE k == Posts[c].key
<1>1. /\ c \in Threads /\ c \notin Workers /\ WorkInv /\ k \in Keys
    BY InputsTyped, StoreAssumption DEF Threads, CopyInv
<1>2. \A u \in Threads \ {c} : Stays(u)
    BY <1>1, OtherThreadsStay DEF ThreadStep, ClientStep
<1>3. /\ pc[c] = "put" /\ StorePut(c, k, FALSE) /\ GoTo(c, "push")
      /\ UNCHANGED <<status, tries, kind, own, work>>
    BY DEF ClientPut, svars
<1>4. pc'[c] = "push"
    BY <1>1, <1>3 DEF GoTo, WorkInv, Types
<1>5. HeldKey(c) = k /\ (FALSE <=> Notes1(c)) /\ FALSE \in BOOLEAN
    BY <1>1 DEF HeldKey, Notes1
<1>6. /\ LostOnlyByOverlap' /\ CopiesInv'
      /\ message'[k] = held[c]
      /\ overlapped \subseteq overlapped' /\ deleted \subseteq deleted'
      /\ \A i \in Keys : \/ i \in overlapped' \cup deleted'
                         \/ message[i].behavior \subseteq message'[i].behavior
    BY <1>1, <1>2, <1>3, <1>4, <1>5, PutCopies
<1>7. BehaviorInv'
    <2>1. Posts[c].type \in message'[k].behavior
        BY <1>1, <1>3, <1>6 DEF CopyInv, CopiesInv, HeldOK
    <2>2. \A d \in Clients : pc'[d] = "push" =>
              \/ pc[d] = "push"
              \/ Posts[d].type \in message'[Posts[d].key].behavior
        BY <1>2, <2>1 DEF Stays, Threads
    <2>3. \A w \in Workers : pc'[w] = "pushNew" => pc[w] = "pushNew" /\ work'[w] = work[w]
        BY <1>1, <1>2, <1>3 DEF Stays, Threads
    <2>4. \A j \in Jobs : status'[j] # "absent" => status[j] # "absent" /\ kind'[j] = kind[j]
        BY <1>3
    <2> QED BY <1>6, <2>2, <2>3, <2>4, BehaviorKept
<1> QED BY <1>6, <1>7 DEF CopyInv

LEMMA NewPutCopies ==
    ASSUME CopyInv, WorkInv', NEW w \in Workers, NewPut(w)
    PROVE  CopyInv'
<1> DEFINE k == HeldKey(w)
           note == "notes" \in DOMAIN Head(work[w].todo).values
<1>1. /\ pc[w] = "putNew" /\ StorePut(w, k, note)
      /\ UNCHANGED <<status, tries, kind, own>>
    BY DEF NewPut, PutNew, svars
<1>2. /\ w \in Threads /\ w \notin Clients /\ WorkInv /\ k \in Keys
      /\ work[w] \in Work /\ work[w].then = "finish"
    BY <1>1, WorkerTyped DEF CopyInv, WorkInv, Placed
<1>3. \A u \in Threads \ {w} : Stays(u)
    BY <1>2, OtherThreadsStay DEF ThreadStep, WorkerStep
<1>4. /\ DOMAIN pc = Threads /\ DOMAIN work = Workers
    BY <1>2 DEF WorkInv, Types
<1>5. /\ work'[w].job = work[w].job /\ work'[w].fresh = work[w].fresh
      /\ \/ Head(work[w].todo).persist /\ pc'[w] = "pushNew" /\ work' = work
         \/ pc'[w] \in {"store", "finish"}
    BY <1>2, <1>4 DEF NewPut, Next1, GoTo, Work
<1>6. HeldKey(w) = k /\ (note <=> Notes1(w)) /\ note \in BOOLEAN
    BY DEF Notes1
<1> HIDE DEF k, note
<1>7. pc'[w] \notin {"put", "putNew", "effect"} /\ own'[w] = own[w]
    BY <1>1, <1>5
<1>8. /\ LostOnlyByOverlap' /\ CopiesInv'
      /\ message'[k] = held[w]
      /\ overlapped \subseteq overlapped' /\ deleted \subseteq deleted'
      /\ \A i \in Keys : \/ i \in overlapped' \cup deleted'
                         \/ message[i].behavior \subseteq message'[i].behavior
    BY <1>1, <1>2, <1>3, <1>5, <1>6, <1>7, PutCopies
<1>9. BehaviorInv'
    <2>1. \A d \in Clients : pc'[d] = "push" => pc[d] = "push"
        BY <1>2, <1>3 DEF Stays, Threads
    <2>2. ASSUME pc'[w] = "pushNew"
          PROVE  "Persist" \in message'[HeldKey(w)'].behavior
        <3>1. Head(work[w].todo).persist /\ HeldKey(w)' = k
            BY <1>2, <1>5, <2>2 DEF HeldKey, k
        <3>2. "Persist" \in held[w].behavior
            BY <1>1, <1>2, <3>1 DEF CopyInv, CopiesInv, HeldOK
        <3> QED BY <1>8, <3>1, <3>2
    <2>3. \A u \in Workers : pc'[u] = "pushNew" =>
              \/ pc[u] = "pushNew" /\ work'[u] = work[u]
              \/ "Persist" \in message'[HeldKey(u)'].behavior
        <3>1. \A u \in Workers \ {w} : pc'[u] = pc[u] /\ work'[u] = work[u]
            BY <1>3 DEF Stays, Threads
        <3> QED BY <2>2, <3>1
    <2>4. \A j \in Jobs : status'[j] # "absent" => status[j] # "absent" /\ kind'[j] = kind[j]
        BY <1>1
    <2> QED BY <1>8, <2>1, <2>3, <2>4, BehaviorKept
<1> QED BY <1>8, <1>9 DEF CopyInv

-----------------------------------------------------------------------------
(* The other steps of workers                                              *)

\* A step of w that neither puts nor submits anything.
LEMMA QuietWorkerCopies ==
    ASSUME CopyInv, WorkInv', NEW w \in Workers, ThreadStep(w),
           UNCHANGED <<message, kind, overlapped, deleted, applied, noted>>,
           \A j \in Jobs : status'[j] # "absent" => status[j] # "absent",
           pc'[w] \notin {"push", "pushNew"},
           pc'[w] \in {"put", "putNew"} => HeldOK(w)',
           pc'[w] \notin {"idle", "access"} => OwnOK(w)'
    PROVE  CopyInv'
<1>1. w \in Threads /\ WorkInv
    BY DEF Threads, CopyInv
<1>2. \A u \in Threads \ {w} : Stays(u)
    BY <1>1, OtherThreadsStay
<1>3. HeldOK(w)'
    BY DEF HeldOK
<1>4. OwnOK(w)'
    BY DEF OwnOK, InHand
<1>5. BehaviorInv'
    BY <1>1, <1>2, SilentBehaviors
<1> QED BY <1>1, <1>2, <1>3, <1>4, <1>5, QuietCopies

LEMMA PopCopies ==
    ASSUME CopyInv, WorkInv', NEW w \in Workers, NEW j \in Jobs, Pop(w, j)
    PROVE  CopyInv'
<1>1. /\ UNCHANGED <<message, kind, overlapped, deleted, applied, noted>>
      /\ status[j] = "queued" /\ status' = [status EXCEPT ![j] = "processing"]
      /\ GoTo(w, "access")
    BY DEF Pop, StartWork, history
<1>2. pc'[w] = "access"
    BY <1>1, WorkerTyped DEF GoTo, CopyInv, WorkInv, Types
<1>3. \A i \in Jobs : status'[i] # "absent" => status[i] # "absent"
    BY <1>1 DEF CopyInv, WorkInv, Types, ServiceInv, ServiceTypeOK
<1>4. ThreadStep(w)
    BY DEF ThreadStep
<1> QED BY <1>1, <1>2, <1>3, <1>4, QuietWorkerCopies

\* The steps in which pullJob returns.
LEMMA ReturnCopies ==
    ASSUME CopyInv, WorkInv', NEW w \in Workers, WorkerStep(w) \/ Crash(w), Return(w),
           UNCHANGED <<message, kind, overlapped, deleted, applied, noted>>,
           UNCHANGED status \/ Finish(work[w].job) \/ Fail(work[w].job)
    PROVE  CopyInv'
<1>1. pc'[w] = "idle"
    BY WorkerTyped DEF Return, GoTo, CopyInv, WorkInv, Types
<1>2. \A i \in Jobs : status'[i] # "absent" => status[i] # "absent"
    BY DEF CopyInv, WorkInv, Types, ServiceInv, ServiceTypeOK, svars, Finish, Fail
<1>3. ThreadStep(w)
    BY DEF ThreadStep
<1> QED BY <1>1, <1>2, <1>3, QuietWorkerCopies

\* The message is taken in hand as it is: one that is not there is not taken.
LEMMA AccessCopies ==
    ASSUME CopyInv, WorkInv', NEW w \in Workers, Access(w)
    PROVE  CopyInv'
<1>1. /\ UNCHANGED <<status, tries, message, kind, overlapped, deleted, applied, noted>>
      /\ pc[w] = "access" /\ WorkerStep(w) /\ ThreadStep(w)
    BY DEF Access, svars, WorkerStep, ThreadStep
<1>2. CASE Return(w)
    BY <1>1, <1>2, ReturnCopies DEF svars
<1>3. CASE ~Return(w)
    <2>1. PICK m \in Reads(w, Key(w)) :
             /\ m.there /\ own' = [own EXCEPT ![w] = m] /\ GoTo(w, "run")
             /\ UNCHANGED <<work, held, stale>>
        BY <1>3 DEF Access
    <2>2. /\ w \in Threads /\ Key(w) \in Keys /\ ~work[w].fresh
          /\ DOMAIN pc = Threads /\ DOMAIN own = Workers
        BY <1>1, WorkerTyped DEF CopyInv, WorkInv, Types, FormInv, Placed
    <2>3. m = message[Key(w)]
        BY <2>1 DEF Reads, NoMessage
    <2>4. pc'[w] = "run" /\ own'[w] = message'[Key(w)]
        BY <1>1, <2>1, <2>2, <2>3 DEF GoTo
    <2>5. OwnOK(w)'
        <3>1. Key(w)' = Key(w) /\ One(work[w].fresh)' = 0
            BY <2>1, <2>2 DEF Key, One
        <3>2. Count(own'[w]) \in Nat /\ Notes(own'[w]) \in Nat
            BY CountsTyped DEF WorkInv, FormInv
        <3>3. Ahead(own[w], Key(w), One(work[w].fresh), 0)'
            BY <2>4, <3>1, <3>2 DEF Ahead, Count, Notes
        <3> QED BY <2>4, <3>1, <3>3 DEF OwnOK
    <2> QED BY <1>1, <2>4, <2>5, QuietWorkerCopies
<1> QED BY <1>2, <1>3

\* What a behavior left is one count ahead of the message, whose values make a
\* script if those that the behavior ran on do.
LEMMA LeftOK ==
    ASSUME CopyInv, NEW w \in Workers, pc[w] \in {"run", "catch"},
           NEW counts \in BOOLEAN, NEW result, Left(w, counts, result),
           renders(own[w].values), counts => ~work[w].fresh,
           UNCHANGED <<message, kind, stale>>, work'[w].job = work[w].job,
           work'[w].fresh = (counts \/ work[w].fresh)
    PROVE  OwnOK(w)'
<1>1. /\ Count(own'[w]) = Count(own[w]) + One(counts)
      /\ Notes(own'[w]) = Notes(own[w]) /\ own'[w].behavior = own[w].behavior
    <2>1. Count(own[w]) \in Nat
        BY CountsTyped DEF CopyInv, WorkInv, FormInv
    <2> QED BY <2>1, LeftFormed DEF CopyInv, WorkInv, One
<1> SUFFICES ASSUME InHand(w)' PROVE OwnOK(w)'
    BY DEF OwnOK
<1>2. /\ kind[work[w].job] # "Delete" => Ahead(own[w], Key(w), One(work[w].fresh), 0)
      /\ renders(message[Key(w)].values)
    BY DEF InHand, OwnOK, CopyInv, CopiesInv
<1>3. Key(w) \in Keys /\ work[w].fresh \in BOOLEAN
    BY WorkerTyped DEF CopyInv, WorkInv, Types, Work
<1>4. Count(message[Key(w)]) \in Nat
    BY <1>3, CountsTyped DEF CopyInv, WorkInv, FormInv
<1>5. One(work'[w].fresh) = One(counts) + One(work[w].fresh) /\ One(counts) \in Nat
    BY <1>3 DEF One
<1>6. Key(w)' = Key(w)
    BY DEF Key
<1>7. kind'[work'[w].job] # "Delete" => Ahead(own[w], Key(w), One(work[w].fresh), 0)'
    <2> SUFFICES ASSUME kind[work[w].job] # "Delete"
                 PROVE  Ahead(own[w], Key(w), One(work[w].fresh), 0)'
        OBVIOUS
    <2>1. /\ Count(own[w]) = Count(message[Key(w)]) + One(work[w].fresh)
          /\ Notes(own[w]) = Notes(message[Key(w)]) + 0
          /\ message[Key(w)].behavior \subseteq own[w].behavior
        BY <1>2 DEF Ahead
    <2>2. One(work[w].fresh) \in Nat
        BY DEF One
    <2>3. Count(own'[w]) = Count(message[Key(w)]) + One(work'[w].fresh)
        BY <1>1, <1>4, <1>5, <2>1, <2>2
    <2>4. One(work[w].fresh)' = One(work'[w].fresh)
        BY DEF One
    <2> QED BY <1>1, <1>6, <2>1, <2>3, <2>4 DEF Ahead, Count, Notes
<1> QED BY <1>2, <1>6, <1>7 DEF OwnOK

LEMMA RunCopies ==
    ASSUME CopyInv, WorkInv', NEW w \in Workers, Run(w) \/ RunDeclines(w)
    PROVE  CopyInv'
<1> DEFINE counts == kind[work[w].job] = "Persist"
<1>1. PICK result :
         /\ Left(w, counts, result)
         /\ pc[w] = "run" /\ renders(own[w].values)
         /\ UNCHANGED <<status, tries, message, kind, stale, overlapped, deleted,
                        applied, noted>>
    BY DEF Run, RunDeclines, canRun, svars
<1>2. WorkerStep(w) /\ ThreadStep(w) /\ counts \in BOOLEAN
    BY DEF WorkerStep, ThreadStep
<1>3. /\ w \in Threads /\ DOMAIN pc = Threads /\ DOMAIN work = Workers
      /\ work[w] \in Work /\ ~work[w].fresh
    BY <1>1, WorkerTyped DEF CopyInv, WorkInv, Types, Placed
<1>4. /\ pc'[w] \in {"effect", "finish"} /\ work'[w].job = work[w].job
      /\ work'[w].fresh = counts
    BY <1>3 DEF Run, RunDeclines, GoTo, Work
<1>5. work'[w].fresh = (counts \/ work[w].fresh)
    BY <1>3, <1>4
<1> HIDE DEF counts
<1>6. OwnOK(w)'
    BY <1>1, <1>2, <1>3, <1>4, <1>5, LeftOK
<1> QED BY <1>1, <1>2, <1>4, <1>6, QuietWorkerCopies

LEMMA HeldKeyTyped ==
    ASSUME WorkInv, NEW t \in Threads, pc[t] \in {"put", "putNew"}
    PROVE  HeldKey(t) \in Keys
<1>1. CASE t \in Clients
    BY <1>1, InputsTyped DEF HeldKey
<1>2. CASE t \in Workers
    BY <1>2, WorkerTyped DEF WorkInv, Placed, WorkerPC
<1> QED BY <1>1, <1>2 DEF Threads

\* The copy that is put is the message afterwards; jobs in work have other keys,
\* or stale copies from now on.
LEMMA EffectCopies ==
    ASSUME CopyInv, WorkInv', NEW w \in Workers, Effect(w)
    PROVE  CopyInv'
<1> DEFINE k == Key(w)
           j == work[w].job
<1>1. /\ pc[w] = "effect"
      /\ IF kind[j] = "Delete" THEN DeleteMessage(w) ELSE UpdateMessage(w)
      /\ stale' = (stale \cup Storing(k) \cup Overlapping(k)) \ {<<w, "own">>}
      /\ work' = [work EXCEPT ![w].fresh = FALSE] /\ Next1(w)
      /\ UNCHANGED <<status, tries, kind, held, own>>
    BY DEF Effect, svars
<1>2. /\ w \in Threads /\ WorkInv /\ k \in Keys /\ j \in Jobs
      /\ work[w] \in Work /\ DOMAIN pc = Threads /\ DOMAIN work = Workers
    BY <1>1, WorkerTyped DEF CopyInv, WorkInv, Types
<1>3. /\ DOMAIN message = Keys /\ applied \in [Keys -> Nat] /\ noted \in [Keys -> Nat]
      /\ \A i \in Keys : Formed(message[i]) /\ Formed(own[w])
    BY <1>2 DEF WorkInv, Types, FormInv
<1>4. \A u \in Threads \ {w} : Stays(u)
    BY <1>2, OtherThreadsStay DEF ThreadStep, WorkerStep
<1>5. /\ work'[w].job = j /\ ~work'[w].fresh
      /\ pc'[w] \in {"store", "finish", "fail", "over"}
    BY <1>1, <1>2 DEF Next1, GoTo, Work
<1>6. /\ message' = [message EXCEPT ![k] = message'[k]]
      /\ \A i \in Keys \ {k} : /\ message'[i] = message[i]
                               /\ applied'[i] = applied[i] /\ noted'[i] = noted[i]
      /\ message'[k] = IF kind[j] = "Delete" THEN NoMessage ELSE own[w]
    BY <1>1, <1>2, <1>3 DEF DeleteMessage, UpdateMessage
<1> HIDE DEF k, j
<1>7. /\ overlapped \subseteq overlapped' /\ deleted \subseteq deleted'
      /\ kind[j] = "Delete" => k \in deleted'
      /\ kind[j] # "Delete" /\ k \notin overlapped' => InHand(w)
    BY <1>1 DEF DeleteMessage, UpdateMessage, Overwrites, InHand, k
<1>8. ASSUME InHand(w), kind[j] # "Delete"
      PROVE  /\ Count(own[w]) = Count(message[k]) + One(work[w].fresh)
             /\ Notes(own[w]) = Notes(message[k])
             /\ message[k].behavior \subseteq own[w].behavior
    <2>1. Ahead(own[w], k, One(work[w].fresh), 0)
        BY <1>8 DEF CopyInv, CopiesInv, OwnOK, j, k
    <2>2. Notes(message[k]) \in Nat
        BY <1>2, <1>3, CountsTyped
    <2> QED BY <2>1, <2>2 DEF Ahead
<1>9. LostOnlyByOverlap'
    <2>1. ASSUME NEW i \in Keys, i \notin overlapped'
          PROVE  /\ Count(message'[i]) = applied'[i]
                 /\ Notes(message'[i]) = noted'[i]
        <3>1. Count(message[i]) = applied[i] /\ Notes(message[i]) = noted[i]
            BY <1>7, <2>1 DEF CopyInv, LostOnlyByOverlap
        <3>2. CASE i # k
            BY <1>6, <3>1, <3>2
        <3>3. CASE i = k /\ kind[j] = "Delete"
            <4>1. applied'[k] = 0 /\ noted'[k] = 0
                BY <1>1, <1>2, <1>3, <3>3 DEF DeleteMessage, k
            <4> QED BY <1>6, <3>3, <4>1, NoMessageFormed
        <3>4. CASE i = k /\ kind[j] # "Delete"
            <4>1. /\ applied'[k] = applied[k] + One(work[w].fresh)
                  /\ noted'[k] = noted[k]
                BY <1>1, <1>2, <1>3, <3>4 DEF UpdateMessage, One, k
            <4> QED BY <1>6, <1>7, <1>8, <2>1, <3>1, <3>4, <4>1
        <3> QED BY <3>2, <3>3, <3>4
    <2> QED BY <2>1 DEF LostOnlyByOverlap, Count, Notes
<1>10. ASSUME NEW u \in Threads PROVE HeldOK(u)'
    <2>1. CASE u = w
        BY <1>5, <2>1 DEF HeldOK
    <2>2. CASE u # w
        <3>1. HeldOK(u) /\ Stays(u)
            BY <1>4, <2>2 DEF CopyInv, CopiesInv
        <3>2. ASSUME pc[u] \in {"put", "putNew"}
              PROVE  <<u, "held">> \in stale' \/ message'[HeldKey(u)] = message[HeldKey(u)]
            <4>1. CASE HeldKey(u) = k
                <5>1. <<u, "held">> \in Storing(k)
                    BY <3>2, <4>1 DEF Storing
                <5> QED BY <1>1, <2>2, <5>1 DEF k
            <4>2. CASE HeldKey(u) # k
                <5>1. HeldKey(u) \in Keys
                    BY <1>2, <3>2, HeldKeyTyped
                <5> QED BY <1>6, <4>2, <5>1
            <4> QED BY <4>1, <4>2
        <3> QED BY <3>1, <3>2, HeldKept
    <2> QED BY <2>1, <2>2
<1>11. ASSUME NEW u \in Workers PROVE OwnOK(u)'
    <2>1. CASE u = w
        <3>1. Key(w)' = k /\ One(work[w].fresh)' = 0 /\ kind'[work'[w].job] = kind[j]
            BY <1>1, <1>5 DEF Key, One, j, k
        <3>2. CASE kind[j] = "Delete"
            <4>1. message'[Key(w)'].values = NoValues
                BY <1>6, <3>1, <3>2 DEF NoMessage
            <4>2. renders(NoValues)
                BY DEF renders, NoValues
            <4>3. renders(message'[Key(w)'].values)
                BY <4>1, <4>2
            <4> QED BY <2>1, <3>1, <3>2, <4>3 DEF OwnOK
        <3>3. CASE kind[j] # "Delete"
            <4>1. own'[w] = message'[k]
                BY <1>1, <1>6, <3>3
            <4>2. Count(own'[w]) \in Nat /\ Notes(own'[w]) \in Nat
                BY <1>1, <1>2, <1>3, CountsTyped
            <4>3. Ahead(own[w], Key(w), One(work[w].fresh), 0)'
                BY <3>1, <4>1, <4>2 DEF Ahead, Count, Notes
            <4> QED BY <1>5, <2>1, <3>1, <4>1, <4>3 DEF OwnOK
        <3> QED BY <3>2, <3>3
    <2>2. CASE u # w
        <3>1. u \in Threads /\ Stays(u) /\ OwnOK(u)
            BY <1>4, <2>2 DEF CopyInv, CopiesInv, Threads
        <3>2. pc'[u] = pc[u] /\ work'[u] = work[u] /\ own'[u] = own[u]
            BY <3>1 DEF Stays
        <3>3. InHand(u)' => InHand(u)
            BY <3>1, <3>2 DEF InHand, Stays
        <3>4. ASSUME InHand(u)
              PROVE  <<u, "own">> \in stale' \/ message'[Key(u)] = message[Key(u)]
            <4>1. pc[u] \notin {"idle", "access"} /\ Key(u) \in Keys
                BY <1>2, <3>4, WorkerTyped DEF InHand, WorkInv
            <4>2. CASE Key(u) = k
                <5>1. k \in robbed
                    BY <1>1, <1>2, <2>2, <4>1, <4>2, KeysApart DEF k
                <5>2. <<u, "own">> \in Overlapping(k)
                    BY <4>1, <4>2, <5>1 DEF Overlapping, Processing
                <5> QED BY <1>1, <2>2, <5>2
            <4>3. CASE Key(u) # k
                BY <1>6, <4>1, <4>3
            <4> QED BY <4>2, <4>3
        <3> QED BY <1>1, <3>1, <3>2, <3>3, <3>4, OwnKept
    <2> QED BY <2>1, <2>2
<1>12. BehaviorInv'
    <2>1. \A i \in Keys : \/ i \in overlapped' \cup deleted'
                          \/ message[i].behavior \subseteq message'[i].behavior
        <3> TAKE i \in Keys
        <3>1. CASE i # k
            BY <1>6, <3>1
        <3>2. CASE i = k
            BY <1>6, <1>7, <1>8, <3>2
        <3> QED BY <3>1, <3>2
    <2>2. \A d \in Clients : pc'[d] = "push" => pc[d] = "push"
        BY <1>4, <1>5 DEF Stays, Threads
    <2>3. \A u \in Workers : pc'[u] = "pushNew" => pc[u] = "pushNew" /\ work'[u] = work[u]
        BY <1>4, <1>5 DEF Stays, Threads
    <2>4. \A i \in Jobs : status'[i] # "absent" => status[i] # "absent" /\ kind'[i] = kind[i]
        BY <1>1
    <2> QED BY <1>7, <2>1, <2>2, <2>3, <2>4, BehaviorKept
<1> QED BY <1>9, <1>10, <1>11, <1>12 DEF CopyInv, CopiesInv

LEMMA NewReadCopies ==
    ASSUME CopyInv, WorkInv', NEW w \in Workers, NewRead(w)
    PROVE  CopyInv'
<1> DEFINE n == Head(work[w].todo)
           types == IF n.persist THEN {"Persist"} ELSE {}
<1>1. /\ pc[w] = "store" /\ StoreRead(w, n.key, n.values, types, FALSE)
      /\ GoTo(w, "putNew") /\ UNCHANGED <<status, tries, kind, own, work>>
      /\ WorkerStep(w) /\ ThreadStep(w)
    BY DEF NewRead, svars, WorkerStep, ThreadStep
<1>2. /\ w \in Threads /\ w \notin Clients /\ WorkInv
      /\ DOMAIN pc = Threads /\ DOMAIN held = Threads
      /\ n \in NewMessage
    BY <1>1, WorkerTyped DEF CopyInv, WorkInv, Types, FormInv, Placed
<1>3. /\ n.key \in Keys /\ Incoming(n.values) /\ types \in SUBSET BehaviorType
      /\ FALSE \in BOOLEAN
    BY <1>2, InputsTyped DEF BehaviorType
<1>4. /\ HeldKey(w)' = n.key
      /\ Notes1(w)' <=> "notes" \in DOMAIN n.values
      /\ n.persist => "Persist" \in types
      /\ Head(work'[w].todo) = n
    BY <1>1, <1>2 DEF HeldKey, Notes1
<1> HIDE DEF n, types
<1>5. PICK m : /\ Formed(m)
               /\ held' = [held EXCEPT ![w] = Merged(m, n.values, types, FALSE)]
               /\ \/ m = message[n.key] /\ stale' = stale \ {<<w, "held">>}
                  \/ stale' = stale \cup {<<w, "held">>}
    BY <1>1, <1>2, <1>3, ReadEffect
<1>6. UNCHANGED <<message, overlapped, deleted, applied, noted>>
    BY <1>1 DEF StoreRead
<1>7. pc'[w] = "putNew" /\ held'[w] = Merged(m, n.values, types, FALSE)
    BY <1>1, <1>2, <1>5 DEF GoTo
<1>8. /\ Count(held'[w]) = Count(m)
      /\ Notes(held'[w]) = IF "notes" \in DOMAIN n.values THEN Notes(m) + 1 ELSE Notes(m)
      /\ held'[w].behavior = m.behavior \cup types
    <2>1. /\ Count(Merged(m, n.values, types, FALSE)) = Count(m)
          /\ Notes(Merged(m, n.values, types, FALSE)) =
                IF "notes" \in DOMAIN n.values THEN Notes(m) + 1 ELSE Notes(m)
          /\ Merged(m, n.values, types, FALSE).behavior = m.behavior \cup types
        BY <1>3, <1>5, MergedFormed
    <2> QED BY <1>7, <2>1
<1>9. HeldOK(w)'
    <2>1. <<w, "held">> \notin stale' => m = message'[n.key]
        BY <1>5, <1>6
    <2>2. ASSUME m = message'[n.key]
          PROVE  Ahead(held[w], HeldKey(w), 0, One(Notes1(w)))'
        <3>1. Count(m) \in Nat /\ Notes(m) \in Nat
            BY <1>5, CountsTyped
        <3>2. One(Notes1(w))' = IF "notes" \in DOMAIN n.values THEN 1 ELSE 0
            BY <1>4 DEF One
        <3>3. /\ Count(held'[w]) = Count(message'[n.key]) + 0
              /\ Notes(held'[w]) = Notes(message'[n.key]) + One(Notes1(w))'
              /\ message'[n.key].behavior \subseteq held'[w].behavior
            BY <1>8, <2>2, <3>1, <3>2
        <3> QED BY <1>4, <3>3 DEF Ahead
    <2>3. n.persist => "Persist" \in held'[w].behavior
        BY <1>4, <1>8
    <2> QED BY <1>2, <1>4, <2>1, <2>2, <2>3 DEF HeldOK
<1>10. OwnOK(w)'
    <2>1. InHand(w)' => InHand(w)
        BY <1>1, <1>5 DEF InHand
    <2>2. OwnOK(w)
        BY DEF CopyInv, CopiesInv
    <2>3. pc'[w] # "effect"
        BY <1>7
    <2> QED BY <1>1, <1>6, <2>1, <2>2, <2>3, OwnKept
<1>11. \A j \in Jobs : status'[j] # "absent" => status[j] # "absent"
    BY <1>1
<1>12. pc'[w] \notin {"push", "pushNew"}
    BY <1>7
<1> QED BY <1>1, <1>6, <1>9, <1>10, <1>11, <1>12, QuietWorkerCopies

LEMMA NewPushCopies ==
    ASSUME CopyInv, WorkInv', NEW w \in Workers, NewPush(w)
    PROVE  CopyInv'
<1> DEFINE k == HeldKey(w)
<1>1. /\ pc[w] = "pushNew" /\ Next1(w)
      /\ work' = [work EXCEPT ![w].todo = Tail(@)]
      /\ UNCHANGED <<message, held, own, stale, overlapped, deleted, applied, noted>>
    BY DEF NewPush
<1>2. /\ w \in Threads /\ WorkInv /\ k \in Keys /\ work[w] \in Work
      /\ work[w].then = "finish" /\ DOMAIN pc = Threads /\ DOMAIN work = Workers
      /\ work[w].job \in Jobs /\ status[work[w].job] = "processing"
    BY <1>1, WorkerTyped DEF CopyInv, WorkInv, Types, Placed
<1>3. \A u \in Threads \ {w} : Stays(u)
    BY <1>2, OtherThreadsStay DEF ThreadStep, WorkerStep
<1>4. /\ work'[w].job = work[w].job /\ work'[w].fresh = work[w].fresh
      /\ pc'[w] \in {"store", "finish"}
    BY <1>1, <1>2 DEF Next1, GoTo, Work
<1>5. PICK j \in Jobs : StorePush(j, k, "Persist")
    BY DEF NewPush
<1>6. /\ KeyOf[j] = k /\ status[j] = "absent" /\ kind'[j] = "Persist"
      /\ \A i \in Jobs \ {j} : kind'[i] = kind[i] /\ status'[i] = status[i]
    BY <1>2, <1>5 DEF StorePush, Submit, WorkInv, Types, ServiceInv, ServiceTypeOK
<1>7. Behaves(k, "Persist")
    BY <1>1 DEF CopyInv, BehaviorInv
<1> HIDE DEF k
<1>8. BehaviorInv'
    <2>1. \A i \in Jobs : status'[i] # "absent" =>
             \/ status[i] # "absent" /\ kind'[i] = kind[i]
             \/ Behaves(KeyOf[i], kind'[i])
        BY <1>6, <1>7
    <2>2. \A d \in Clients : pc'[d] = "push" => pc[d] = "push"
        BY <1>3, <1>4 DEF Stays, Threads
    <2>3. \A u \in Workers : pc'[u] = "pushNew" => pc[u] = "pushNew" /\ work'[u] = work[u]
        BY <1>3, <1>4 DEF Stays, Threads
    <2> QED BY <1>1, <2>1, <2>2, <2>3, BehaviorKept
<1>9. HeldOK(w)'
    BY <1>4 DEF HeldOK
<1>10. OwnOK(w)'
    <2>1. InHand(w)' => InHand(w)
        BY <1>1 DEF InHand
    <2>2. OwnOK(w)
        BY DEF CopyInv, CopiesInv
    <2>3. kind'[work[w].job] = kind[work[w].job]
        BY <1>2, <1>6
    <2> QED BY <1>1, <1>4, <2>1, <2>2, <2>3, OwnKept
<1>11. \A i \in Jobs : status[i] # "absent" => kind'[i] = kind[i]
    BY <1>6
<1> QED BY <1>1, <1>2, <1>3, <1>8, <1>9, <1>10, <1>11, QuietCopies

LEMMA ThrowsCopies ==
    ASSUME CopyInv, WorkInv', NEW w \in Workers, Throws(w)
    PROVE  CopyInv'
<1>1. /\ UNCHANGED <<status, tries, message, kind, overlapped, deleted, applied, noted>>
      /\ WorkerStep(w) /\ ThreadStep(w) /\ pc[w] \notin {"idle", "access"}
    BY DEF Throws, svars, WorkerStep, ThreadStep
<1>2. CASE Return(w)
    BY <1>1, <1>2, ReturnCopies DEF svars
<1>3. CASE ~Return(w)
    <2>1. /\ GoTo(w, "catch") /\ work' = [work EXCEPT ![w].todo = <<>>]
          /\ UNCHANGED <<held, own, stale>>
        BY <1>3 DEF Throws
    <2>2. /\ w \in Threads /\ work[w] \in Work
          /\ DOMAIN pc = Threads /\ DOMAIN work = Workers
        BY WorkerTyped DEF CopyInv, WorkInv, Types
    <2>3. /\ pc'[w] = "catch" /\ work'[w].job = work[w].job
          /\ work'[w].fresh = work[w].fresh
        BY <2>1, <2>2 DEF GoTo, Work
    <2>4. OwnOK(w)'
        <3>1. InHand(w)' => InHand(w)
            BY <1>1, <2>1 DEF InHand
        <3>2. OwnOK(w)
            BY DEF CopyInv, CopiesInv
        <3> QED BY <1>1, <2>1, <2>3, <3>1, <3>2, OwnKept
    <2> QED BY <1>1, <2>3, <2>4, QuietWorkerCopies
<1> QED BY <1>2, <1>3

LEMMA CatchCopies ==
    ASSUME CopyInv, WorkInv', NEW w \in Workers, Catch(w)
    PROVE  CopyInv'
<1>1. /\ UNCHANGED <<status, tries, message, kind, overlapped, deleted, applied, noted>>
      /\ WorkerStep(w) /\ ThreadStep(w) /\ pc[w] = "catch"
    BY DEF Catch, svars, WorkerStep, ThreadStep
<1>2. /\ w \in Threads /\ work[w] \in Work
      /\ DOMAIN pc = Threads /\ DOMAIN work = Workers
    BY WorkerTyped DEF CopyInv, WorkInv, Types
<1>3. CASE Return(w)
    BY <1>1, <1>3, ReturnCopies DEF svars
<1>4. ASSUME NEW result, Left(w, FALSE, result), canRun(w, "Error"), GoTo(w, "effect"),
             work' = [work EXCEPT ![w].then = IF @ = "over" THEN @ ELSE "fail"],
             UNCHANGED <<held, stale>>
      PROVE  CopyInv'
    <2>1. /\ pc'[w] = "effect" /\ work'[w].job = work[w].job
          /\ work'[w].fresh = work[w].fresh
        BY <1>2, <1>4 DEF GoTo, Work
    <2>2. work'[w].fresh = (FALSE \/ work[w].fresh)
        BY <1>2, <2>1 DEF Work
    <2>3. FALSE \in BOOLEAN /\ renders(own[w].values)
        BY <1>4 DEF canRun
    <2>4. OwnOK(w)'
        BY <1>1, <1>4, <2>1, <2>2, <2>3, LeftOK
    <2> QED BY <1>1, <2>1, <2>4, QuietWorkerCopies
<1>5. ASSUME GoTo(w, IF work[w].then = "over" THEN "over" ELSE "fail"),
             UNCHANGED <<work, held, own, stale>>
      PROVE  CopyInv'
    <2>1. pc'[w] \in {"fail", "over"}
        BY <1>2, <1>5 DEF GoTo
    <2>2. OwnOK(w)'
        <3>1. InHand(w)' => InHand(w)
            BY <1>1, <1>5 DEF InHand
        <3>2. OwnOK(w)
            BY DEF CopyInv, CopiesInv
        <3> QED BY <1>1, <1>5, <2>1, <3>1, <3>2, OwnKept
    <2> QED BY <1>1, <2>1, <2>2, QuietWorkerCopies
<1> QED BY <1>3, <1>4, <1>5 DEF Catch

LEMMA EndCopies ==
    ASSUME CopyInv, WorkInv', NEW w \in Workers, Complete(w) \/ GiveBack(w) \/ Crash(w)
    PROVE  CopyInv'
<1>1. /\ WorkerStep(w) \/ Crash(w)
      /\ Return(w)
      /\ UNCHANGED <<message, kind, overlapped, deleted, applied, noted>>
      /\ UNCHANGED status \/ Finish(work[w].job) \/ Fail(work[w].job)
    BY DEF WorkerStep, Complete, GiveBack, Crash, svars
<1> QED BY <1>1, ReturnCopies

\* A complete that throws leaves the copy in hand, for the Error behavior.
LEMMA CompleteThrowsCopies ==
    ASSUME CopyInv, WorkInv', NEW w \in Workers, CompleteThrows(w)
    PROVE  CopyInv'
<1>1. /\ UNCHANGED <<message, kind, held, own, stale, overlapped, deleted, applied,
                     noted>>
      /\ pc[w] = "finish" /\ GoTo(w, "catch")
      /\ work' = [work EXCEPT ![w].then = "over"]
    BY DEF CompleteThrows, history
<1>2. ThreadStep(w) /\ OwnOK(w)
    BY DEF ThreadStep, CopyInv, CopiesInv
<1>3. /\ w \in Threads /\ work[w] \in Work
      /\ DOMAIN pc = Threads /\ DOMAIN work = Workers
    BY WorkerTyped DEF CopyInv, WorkInv, Types
<1>4. /\ pc'[w] = "catch" /\ work'[w].job = work[w].job
      /\ work'[w].fresh = work[w].fresh
    BY <1>1, <1>3 DEF GoTo, Work
<1>5. OwnOK(w)'
    <2>1. InHand(w)' => InHand(w)
        BY <1>1 DEF InHand
    <2> QED BY <1>1, <1>2, <1>4, <2>1, OwnKept
<1>6. \A j \in Jobs : status'[j] # "absent" => status[j] # "absent"
    <2>1. status[work[w].job] # "absent"
        BY <1>1, WorkerTyped DEF CopyInv, WorkInv, Placed
    <2>2. Finish(work[w].job) \/ UNCHANGED status
        BY DEF CompleteThrows
    <2> QED BY <2>1, <2>2 DEF Finish, CopyInv, WorkInv, Types, ServiceInv,
                              ServiceTypeOK
<1> QED BY <1>1, <1>2, <1>4, <1>5, <1>6, QuietWorkerCopies

\* A step that changes neither copies nor messages.
LEMMA SameCopies ==
    ASSUME CopyInv, WorkInv',
           UNCHANGED <<message, kind, pc, held, own, work, stale, overlapped, deleted,
                       applied, noted>>,
           \A j \in Jobs : status'[j] # "absent" => status[j] # "absent"
    PROVE  CopyInv'
<1>1. \A t \in Threads : Stays(t)
    BY DEF Stays
<1>2. \A t \in Threads : HeldOK(t)'
    BY <1>1, HeldKept DEF CopyInv, CopiesInv
<1>3. ASSUME NEW w \in Workers PROVE OwnOK(w)'
    <2>1. OwnOK(w) /\ (InHand(w)' <=> InHand(w))
        BY DEF CopyInv, CopiesInv, InHand
    <2> QED BY <2>1, OwnKept
<1>4. LostOnlyByOverlap'
    BY DEF CopyInv, LostOnlyByOverlap, Count, Notes
<1>5. BehaviorInv'
    BY BehaviorKept
<1> QED BY <1>2, <1>3, <1>4, <1>5 DEF CopyInv, CopiesInv

LEMMA ReaderCopies ==
    ASSUME CopyInv, WorkInv', NEW j \in Jobs, Recover(j) \/ ReadAgain(j)
    PROVE  CopyInv'
<1>1. UNCHANGED <<message, kind, pc, held, own, work, stale, overlapped, deleted,
                  applied, noted>>
    BY DEF Recover, ReadAgain, history
<1>2. Finish(j) \/ UNCHANGED status
    BY DEF Recover, ReadAgain
<1>3. \A i \in Jobs : status'[i] # "absent" => status[i] # "absent"
    BY <1>2 DEF Finish, CopyInv, WorkInv, Types, ServiceInv, ServiceTypeOK
<1> QED BY <1>1, <1>3, SameCopies

-----------------------------------------------------------------------------
(* The theorems                                                            *)

LEMMA InitCopies ==
    Init => CopyInv
<1> SUFFICES ASSUME Init PROVE CopyInv
    OBVIOUS
<1>1. \A c \in Clients : pc[c] = "new"
    BY DEF Init, Threads
<1>2. \A w \in Workers : pc[w] = "idle"
    BY StoreAssumption DEF Init, Threads
<1>3. CopiesInv
    BY <1>1, <1>2 DEF CopiesInv, HeldOK, OwnOK, InHand, Threads
<1>4. BehaviorInv
    BY <1>1, <1>2 DEF BehaviorInv, Init, ServiceInit
<1>5. LostOnlyByOverlap
    BY NoMessageFormed DEF LostOnlyByOverlap, Init
<1> QED BY <1>3, <1>4, <1>5, InitWork DEF CopyInv

LEMMA NextKeepsCopies ==
    CopyInv /\ [Next]_vars => CopyInv'
<1> SUFFICES ASSUME CopyInv, [Next]_vars PROVE CopyInv'
    OBVIOUS
<1>1. WorkInv'
    BY NextKeepsWork DEF CopyInv
<1>2. CASE UNCHANGED vars
    BY <1>1, <1>2, SameCopies DEF vars, svars, history
<1>3. CASE \E c \in Clients : ClientStep(c) \/ ClientCrash(c)
    BY <1>1, <1>3, ClientReadCopies, ClientPutCopies, ClientPushCopies,
       ClientCrashCopies DEF ClientStep
<1>4. CASE \E w \in Workers, j \in Jobs : Pop(w, j)
    BY <1>1, <1>4, PopCopies
<1>5. CASE \E w \in Workers : WorkerStep(w) \/ Crash(w) \/ CompleteThrows(w)
    BY <1>1, <1>5, AccessCopies, RunCopies, EffectCopies, NewReadCopies, NewPutCopies,
       NewPushCopies, ThrowsCopies, CatchCopies, EndCopies, CompleteThrowsCopies
       DEF WorkerStep
<1>6. CASE \E j \in Jobs : Recover(j) \/ ReadAgain(j)
    BY <1>1, <1>6, ReaderCopies
<1>7. CASE \E k \in Keys : Expire(k)
    BY <1>1, <1>7, SameCopies DEF Expire, history
<1> QED BY <1>2, <1>3, <1>4, <1>5, <1>6, <1>7 DEF Next

LEMMA CopiesInvariant == Spec => []CopyInv
<1> QED BY InitCopies, NextKeepsCopies, PTL DEF Spec

\* Every count and every note that was put is still there, unless a storeMessage
\* overlapped, or a job of a key that was released from under a worker: by the
\* completion of a job that was left in work, by a complete that threw, or by a
\* complete job that was read again (Queue.java:131 and 138, Message.java:172).
THEOREM NothingElseIsLost == Spec => []LostOnlyByOverlap
<1>1. CopyInv => LostOnlyByOverlap
    BY DEF CopyInv
<1> QED BY <1>1, CopiesInvariant, PTL

\* A job finds the behavior it was submitted for, unless the message was deleted
\* or a put overlapped (ResourceRoadie.storeMessage, Processor.pullJob).
THEOREM JobsFindBehaviors == Spec => []JobFindsBehavior
<1>1. CopyInv => JobFindsBehavior
    <2> SUFFICES ASSUME CopyInv, NEW w \in Workers, pc[w] = "access"
                 PROVE  Key(w) \notin overlapped \cup deleted =>
                           kind[work[w].job] \in message[Key(w)].behavior
        BY DEF JobFindsBehavior
    <2>1. work[w].job \in Jobs /\ status[work[w].job] # "absent"
        BY WorkerTyped DEF CopyInv, WorkInv, Placed
    <2>2. Behaves(Key(w), kind[work[w].job])
        BY <2>1 DEF CopyInv, BehaviorInv, Key
    <2> QED BY <2>2 DEF Behaves
<1> QED BY <1>1, CopiesInvariant, PTL

\* A job changes or deletes only a message whose values make a script, unless a
\* put overlapped (JavaScriptProcessorTemplate.java:59).
THEOREM ScriptsOnly == Spec => JobsChangeScripts
<1>1. CopyInv =>
         \A w \in Workers :
            /\ pc[w] = "effect" /\ pc'[w] # "effect"
            /\ message'[Key(w)] # message[Key(w)]
            /\ <<w, "own">> \notin stale
            => renders(message[Key(w)].values)
    BY DEF CopyInv, CopiesInv, OwnOK, InHand
<1> QED BY <1>1, CopiesInvariant, PTL DEF JobsChangeScripts

=============================================================================
