---------------------------- MODULE InMemoryQueue ----------------------------
(***************************************************************************)
(* InMemoryQueue: the transport of the default instance, two               *)
(* ConcurrentLinkedQueues of job UUIDs.  read polls the head and adds to   *)
(* the tail, so that a message is read again until it is deleted; when the *)
(* head is empty, the tail becomes the head.                               *)
(*                                                                         *)
(* Each ConcurrentLinkedQueue is thread safe, the two fields that refer to *)
(* them are plain: a thread loads a field, then calls the queue it found   *)
(* there, which may no longer be the head or the tail.  Loading a field    *)
(* and asking the queue whether it is empty is one step.                   *)
(***************************************************************************)
EXTENDS Naturals, Sequences, FiniteSets, SequencesExt

CONSTANTS
    Ids,      \* job UUIDs
    Writers,  \* threads in Queue.push, each writes one id
    IdOf,     \* IdOf[w]: the id that writer w writes
    Readers,  \* threads in Queue.pop, complete and error
    Queues,   \* the queue objects, enough for the head, the tail and each thread
    NoId,
    NoQueue   \* no reference

Threads == Writers \cup Readers

ASSUME InMemoryQueueAssumption ==
    /\ Writers \cap Readers = {}
    /\ IdOf \in [Writers -> Ids]
    /\ \A v, w \in Writers : IdOf[v] = IdOf[w] => v = w
    /\ NoId \notin Ids
    /\ NoQueue \notin Queues
    /\ IsFiniteSet(Queues) /\ IsFiniteSet(Threads)
    /\ Cardinality(Queues) >= 2 + Cardinality(Threads)

VARIABLES
    items,  \* items[q]: the UUIDs of queue object q
    head,
    tail,
    pc,     \* pc[t]: the next access of thread t
    ref,    \* ref[t]: the queue object t loaded and is to call
    id,     \* id[t]: the UUID t has in hand
    job,    \* job[i]: where the stored job of i stands: open, complete or error
    popping,\* the readers inside Queue.pop
    deleted,\* history: the UUIDs that were deleted
    missed, \* history: delete found a job in Error in neither queue
    raced   \* history: a swap overlapped another, or an add to the old head

fields == <<head, tail>>
jobs == <<job, popping>>
history == <<deleted, missed, raced>>
vars == <<items, fields, pc, ref, id, jobs, history>>

-----------------------------------------------------------------------------
WriterPC == {"write", "writeAdd", "written"}
ReaderPC ==
    {"idle", "tail", "swap", "swapHead", "swapTail", "poll", "polled",
     "add", "added"}
    \cup {"read", "removeHead", "orTail", "removeTail"}

TypeOK ==
    /\ items \in [Queues -> Seq(Ids)]
    /\ head \in Queues /\ tail \in Queues
    /\ pc \in [Threads -> WriterPC \cup ReaderPC]
    /\ ref \in [Threads -> Queues \cup {NoQueue}]
    /\ id \in [Threads -> Ids \cup {NoId}]
    /\ \A t \in Readers :
           pc[t] \in {"add", "added", "read", "removeHead", "orTail", "removeTail"}
           <=> id[t] \in Ids
    /\ job \in [Ids -> {"open", "complete", "error"}]
    /\ popping \subseteq Readers
    /\ deleted \subseteq Ids
    /\ missed \in BOOLEAN
    /\ raced \in BOOLEAN

\* The constructor makes the two queue objects.
Init ==
    /\ items = [q \in Queues |-> <<>>]
    /\ head = CHOOSE q \in Queues : TRUE
    /\ tail = CHOOSE q \in Queues : q # head
    /\ pc = [t \in Threads |-> IF t \in Writers THEN "write" ELSE "idle"]
    /\ ref = [t \in Threads |-> NoQueue]
    /\ id = [t \in Threads |-> IF t \in Writers THEN IdOf[t] ELSE NoId]
    /\ job = [i \in Ids |-> "open"]
    /\ popping = {}
    /\ deleted = {}
    /\ missed = FALSE
    /\ raced = FALSE

GoTo(t, label) == pc' = [pc EXCEPT ![t] = label]

Load(t, queue) == ref' = [ref EXCEPT ![t] = queue]

Called(t) == Load(t, NoQueue)

Add(t) == items' = [items EXCEPT ![ref[t]] = Append(@, id[t])]

\* pop returns or throws.
Returns(t) == popping' = popping \ {t}

\* A new queue object: one nobody refers to any more.
Fresh ==
    CHOOSE q \in Queues \ {head, tail} : \A t \in Threads : ref[t] # q

-----------------------------------------------------------------------------
(* write                                                                   *)

WriteLoad(t) ==
    /\ pc[t] = "write"
    /\ Load(t, head)
    /\ GoTo(t, "writeAdd")
    /\ UNCHANGED <<items, fields, id, jobs, history>>

WriteAdd(t) ==
    /\ pc[t] = "writeAdd"
    /\ Add(t)
    /\ GoTo(t, "written")
    /\ Called(t)
    /\ UNCHANGED <<fields, id, jobs, history>>

-----------------------------------------------------------------------------
(* read and swap                                                           *)

ReadHead(t) ==
    /\ pc[t] = "idle"
    /\ GoTo(t, IF items[head] = <<>> THEN "tail" ELSE "poll")
    /\ popping' = popping \cup {t}
    /\ UNCHANGED <<items, fields, ref, id, job, history>>

\* Mutant: a read does not go back to what was read before.
ReadNeverSwaps(t) ==
    /\ pc[t] = "tail"
    /\ GoTo(t, "poll")
    /\ UNCHANGED <<items, fields, ref, id, jobs, history>>

ReadTail(t) ==
    /\ pc[t] = "tail"
    /\ GoTo(t, IF items[tail] = <<>> THEN "poll" ELSE "swap")
    /\ UNCHANGED <<items, fields, ref, id, jobs, history>>

SwapLoad(t) ==
    /\ pc[t] = "swap"
    /\ Load(t, tail)
    /\ GoTo(t, "swapHead")
    /\ UNCHANGED <<items, fields, id, jobs, history>>

\* Whether another thread is to swap as well.
SwapsToo(t) ==
    \E u \in Threads \ {t} : pc[u] \in {"tail", "swap", "swapHead", "swapTail"}

\* Whether a write, or the add of a read, reached the head after t found it
\* empty, or is about to: it loaded the head that t replaces.
AddsToHead(t) ==
    \/ items[head] # <<>>
    \/ \E u \in Threads \ {t} : pc[u] \in {"writeAdd", "added"} /\ ref[u] = head

\* Mutant: the head is dropped too.
SwapBoth(t) ==
    /\ pc[t] = "swapHead"
    /\ head' = Fresh
    /\ items' = [items EXCEPT ![Fresh] = <<>>]
    /\ raced' = (raced \/ SwapsToo(t) \/ AddsToHead(t))
    /\ GoTo(t, "swapTail")
    /\ Called(t)
    /\ UNCHANGED <<tail, id, jobs, deleted, missed>>

SwapHead(t) ==
    /\ pc[t] = "swapHead"
    /\ head' = ref[t]
    /\ raced' = (raced \/ SwapsToo(t) \/ AddsToHead(t))
    /\ GoTo(t, "swapTail")
    /\ Called(t)
    /\ UNCHANGED <<items, tail, id, jobs, deleted, missed>>

SwapTail(t) ==
    /\ pc[t] = "swapTail"
    /\ tail' = Fresh
    /\ items' = [items EXCEPT ![Fresh] = <<>>]
    /\ raced' = (raced \/ SwapsToo(t))
    /\ GoTo(t, "poll")
    /\ UNCHANGED <<head, ref, id, jobs, deleted, missed>>

PollLoad(t) ==
    /\ pc[t] = "poll"
    /\ Load(t, head)
    /\ GoTo(t, "polled")
    /\ UNCHANGED <<items, fields, id, jobs, history>>

\* Mutant: the null of an empty queue is not looked at.
PollNull(t) ==
    /\ pc[t] = "polled"
    /\ items[ref[t]] = <<>>
    /\ GoTo(t, "add")
    /\ Called(t)
    /\ UNCHANGED <<items, fields, id, jobs, history>>

\* An empty queue: read returns null, and so does pop.
PollNothing(t) ==
    /\ pc[t] = "polled"
    /\ items[ref[t]] = <<>>
    /\ GoTo(t, "idle")
    /\ Returns(t)
    /\ Called(t)
    /\ UNCHANGED <<items, fields, id, job, history>>

\* Mutant: the message is read but stays in the head.
Peek(t) ==
    /\ pc[t] = "polled"
    /\ items[ref[t]] # <<>>
    /\ id' = [id EXCEPT ![t] = Head(items[ref[t]])]
    /\ GoTo(t, "add")
    /\ Called(t)
    /\ UNCHANGED <<items, fields, jobs, history>>

Poll(t) ==
    /\ pc[t] = "polled"
    /\ items[ref[t]] # <<>>
    /\ id' = [id EXCEPT ![t] = Head(items[ref[t]])]
    /\ items' = [items EXCEPT ![ref[t]] = Tail(@)]
    /\ GoTo(t, "add")
    /\ Called(t)
    /\ UNCHANGED <<fields, jobs, history>>

AddLoad(t) ==
    /\ pc[t] = "add"
    /\ Load(t, tail)
    /\ GoTo(t, "added")
    /\ UNCHANGED <<items, fields, id, jobs, history>>

ReadAdd(t) ==
    /\ pc[t] = "added"
    /\ Add(t)
    /\ GoTo(t, "read")
    /\ Called(t)
    /\ UNCHANGED <<fields, id, jobs, history>>

-----------------------------------------------------------------------------
(* pop and pullJob on a message that was read, up to the delete: the record *)
(* is read and put back in one step (JobQueue has what may happen between). *)
(* Left out: pop's loop itself stores as Complete a job that is Processing  *)
(* and was not modified recently, deletes its message and goes on.          *)

Drop(t) ==
    /\ id' = [id EXCEPT ![t] = NoId]
    /\ GoTo(t, "idle")

\* A job in Error is skipped: pop's loop goes on.
Skip(t) ==
    /\ pc[t] = "read"
    /\ job[id[t]] = "error"
    /\ Drop(t)
    /\ UNCHANGED <<items, fields, ref, jobs, history>>

\* The key is being processed, or the job is put back to be retried, or it is
\* Complete, which makes complete throw.
Leave(t) ==
    /\ pc[t] = "read"
    /\ job[id[t]] # "error"
    /\ Drop(t)
    /\ Returns(t)
    /\ UNCHANGED <<items, fields, ref, job, history>>

\* pullJob stores the job as Complete or Error, and enters delete.
End(t) ==
    /\ pc[t] = "read"
    /\ job[id[t]] = "open"
    /\ \E st \in {"complete", "error"} : job' = [job EXCEPT ![id[t]] = st]
    /\ Returns(t)
    /\ Load(t, head)
    /\ GoTo(t, "removeHead")
    /\ UNCHANGED <<items, fields, id, history>>

-----------------------------------------------------------------------------
(* delete                                                                  *)

RemoveFrom(t) ==
    /\ items' = [items EXCEPT ![ref[t]] = RemoveFirst(@, id[t])]
    /\ deleted' = deleted \cup {id[t]}
    /\ Drop(t)

RemoveHead(t) ==
    /\ pc[t] = "removeHead"
    /\ \/ Contains(items[ref[t]], id[t]) /\ RemoveFrom(t)
       \/ /\ ~Contains(items[ref[t]], id[t])
          /\ GoTo(t, "orTail")
          /\ UNCHANGED <<items, id, deleted>>
    /\ Called(t)
    /\ UNCHANGED <<fields, jobs, missed, raced>>

\* Mutant: delete looks in the head only, and says nothing.
ForgetTail(t) ==
    /\ pc[t] = "orTail"
    /\ Drop(t)
    /\ UNCHANGED <<items, fields, ref, jobs, history>>

OrTailLoad(t) ==
    /\ pc[t] = "orTail"
    /\ Load(t, tail)
    /\ GoTo(t, "removeTail")
    /\ UNCHANGED <<items, fields, id, jobs, history>>

\* delete throws when the message is in neither queue.
RemoveTail(t) ==
    /\ pc[t] = "removeTail"
    /\ \/ /\ Contains(items[ref[t]], id[t])
          /\ RemoveFrom(t)
          /\ UNCHANGED missed
       \/ /\ ~Contains(items[ref[t]], id[t])
          /\ missed' = (missed \/ job[id[t]] = "error")
          /\ Drop(t)
          /\ UNCHANGED <<items, deleted>>
    /\ Called(t)
    /\ UNCHANGED <<fields, jobs, raced>>

-----------------------------------------------------------------------------
Write(t) == WriteLoad(t) \/ WriteAdd(t)

Read(t) ==
    \/ ReadHead(t) \/ ReadTail(t) \/ SwapLoad(t) \/ SwapHead(t) \/ SwapTail(t)
    \/ PollLoad(t) \/ PollNothing(t) \/ Poll(t) \/ AddLoad(t) \/ ReadAdd(t)

Work(t) == Skip(t) \/ Leave(t) \/ End(t)

Delete(t) == RemoveHead(t) \/ OrTailLoad(t) \/ RemoveTail(t)

ReaderStep(t) == Read(t) \/ Work(t) \/ Delete(t)

Next ==
    \/ \E t \in Writers : Write(t)
    \/ \E t \in Readers : ReaderStep(t)

Spec == Init /\ [][Next]_vars

\* Calls return; polls keep arriving, so that a reader always has a next step.
Fairness ==
    /\ WF_pc(\E t \in Writers : Write(t))
    /\ \A t \in Readers : []<><<ReaderStep(t)>>_pc

FairSpec == Spec /\ Fairness

-----------------------------------------------------------------------------
(* Properties                                                              *)

\* Where i is: its places in the two queues, and the readers that polled it
\* and did not add it yet.
Places(i) ==
    UNION {{q} \X {n \in DOMAIN items[q] : items[q][n] = i} : q \in {head, tail}}
InHand(i) == {t \in Readers : pc[t] \in {"add", "added"} /\ id[t] = i}

\* A message is never in the queue twice, however reads, swaps and deletes
\* interleave: read moves it (InMemoryQueue.read).
AtMostOnce ==
    \A i \in Ids : Cardinality(Places(i)) + Cardinality(InHand(i)) <= 1

\* Reading must not delete (Queue.java:208): a message that was written stays
\* until it is deleted, unless a swap overlapped another swap, or an add to the
\* head it replaces (InMemoryQueue.swap).
KeptUnlessRaced ==
    \A w \in Writers :
        pc[w] = "written" /\ ~raced /\ IdOf[w] \notin deleted =>
            Places(IdOf[w]) \cup InHand(IdOf[w]) # {}

\* A message that stays in the queue is read again and again (InMemoryQueue.read):
\* the fairness of Read in JobQueue.
ReadAgainAndAgain ==
    \A w \in Writers :
        \/ <>(raced \/ IdOf[w] \in deleted)
        \/ []<>(\E t \in Readers : pc[t] = "read" /\ id[t] = IdOf[w])

\* Every call of pop returns, although its loop skips jobs in Error for as long
\* as it reads some: only a job parked in Error whose message a delete missed
\* (InMemoryQueue.java:84) may keep a poll in the loop (Queue.java:90).
PollsReturn ==
    \A t \in Readers :
        \/ []<>(t \notin popping)
        \/ <>missed
=============================================================================
