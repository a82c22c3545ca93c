# bigdatahowto in TLA+

A model of the job processing framework in `modules/` and `runtime/`: clients
store *messages* with JavaScript *behaviors* and submit *jobs*; polls make
workers run the behaviors, store what comes out and submit further jobs. Every
server keeps its state in three services it shares with all others: a
*Resource* (documents by key: files or S3), a *transport* of job UUIDs
(in-memory or SQS) and a *Cache* (in-memory or ElastiCache) that locks message
keys. None of them has transactions, so the interesting behavior is what
happens between two calls.

Parse with `tlasany M.tla`, check with `tlc -config X.cfg MCM`, prove with
`tlapm M.tla`.

## The system

| Part | State | Operations | Hard behavior |
|---|---|---|---|
| Queue, Job (`bd-core/Queue.java`, `Job.java`) | job records in the Resource: state, tries, modified date | `push`, `pop`, `complete`, `error` | the record, the message in the transport and the key in the cache change one call at a time; redelivery; staleness |
| Processor (`Processor.java`) | none of its own | `pullJob`, `handleProcessingResult` | retry, give up, the Error behavior in the catch block, early returns |
| Cache (`InMemoryCache`, `ElastiCache`) | locked keys | put-if-absent, remove | expiry while the work goes on; a key released by someone else |
| Transport (`InMemoryQueue`, `SqsQueue`) | UUIDs; invisible for a while after a read (SQS) | `write`, `read`, `delete` | at least once; a read does not consume; `swap` of two plain fields |
| Message store (`ResourceRoadie`, `Resource`, `Message`) | messages: values, behaviors, owners | `storeMessage`, `updateMessage`, `deleteMessage`, `accessMessage`, `mergeValues` | read, merge, put back without a lock |
| Message keys (`MessageKey`) | none | constructor, `makeKey` | several spellings of one key: documents go by one name, locks by another |
| Users (`UserRoadie`, `User`, `UserContext`) | users, owners of contexts | `register`, `getUser`, `accessUserContext` | check then put, fresh documents over stored ones |
| Authenticator (`BdAuthenticator`) | none | `authorize`, `provision` | the answer is used some calls later |
| Behavior engine (`defaults/js`) | none | `process`, `error`, `composeScript` | may throw, return nothing, take any time; a message's values become part of the script |
| API and runtime (`Bd.java`, `Application.scala`) | two static instances, one made by a Scala object | `addMessage`, `processJob`, `register`, queries | each post and poll in a Future of its own |

Calls: `Application` → `Bd` → `ResourceRoadie.storeMessage` → `Authenticator`,
`Resource`; then `Queue.push` → `Resource`, transport. A poll: `Bd.processJob` →
`Processor.pullJob` → `Queue.pop` → transport, `Resource`, `Cache`; then the
behavior, `ResourceRoadie`, `Queue.push` for new messages, and `Queue.complete`
or `Queue.error`.

What makes each part correct: a job that was accepted is settled, its tries are
bounded, Complete means that it ran, and it is not taken back (queue); two jobs
of one key never overlap (cache); no message leaves the transport before its job
ended (transport); nothing a job stored is lost, nothing it asked for is missing
(messages); a context belongs to somebody who was not refused it, who registered
is registered, and only owners change a message (users). Several of these hold
only under conditions; the observations below say where the code breaks them.

## Modules

| Module | Models | In detail |
|---|---|---|
| `JobQueue` | `Queue`, `Job`, `pullJob`, with the Cache and the SQS or in-memory transport | `push[j]` and `pc[w]` are the next calls of a pushing thread and of a worker; `cur[w]` is the worker's `Job` instance, a copy of `record[j]` that may be stale; `hidden` and `lock` count down |
| `JobService` | what the queue promises | `Submit`, `Take`, `Finish`, `Fail` on one `status` per job |
| `JobQueueRefinement` | `JobQueue` implements `JobService` | a job in a worker's hands stands where its instance is, any other where its record is |
| `JobQueueProofs`, `JobQueueMutexProofs`, `JobQueueServiceProofs` | proofs about `JobQueue` | each EXTENDS the one before it; see below |
| `JobQueueTimelyProofs` | proofs about `JobQueue` with either transport | EXTENDS `JobQueueProofs` |
| `InMemoryQueue` | `InMemoryQueue` | heap of queue objects, the fields `head` and `tail`, one field load or queue call per step |
| `InMemoryQueueProofs` | proofs about `InMemoryQueue` | see below |
| `MessageValues` | `Message.mergeValues`, `JavaScriptProcessorTemplate` | pure operators on null, texts, numbers, lists and maps |
| `MessageStore` | `Bd.addMessage`, `storeMessage`, `pullJob` with `handleProcessingResult`, the Error behavior | EXTENDS `JobService` for the states of jobs, and `MessageValues`; `locked` is the Cache, `held[t]` the message `storeMessage` has in hand, `own[w]` the one `pullJob` has |
| `MessageStoreProofs`, `MessageCopiesProofs` | proofs about `MessageStore` | what jobs do, and what becomes of the messages they write; see below |
| `MessageKey` | the constructor of `MessageKey`, `NewMessage.makeKey` | pure operators on sequences of slashes and words |
| `Users` | `UserRoadie`, `BdAuthenticator`, where `storeMessage` and `pullJob` call them | EXTENDS `MessageKey`; one get or put per step; `request` is what the threads are asked for, `jobKey[t]` the key a job locks, `assertions` tells whether the JVM runs with `-ea` |
| `UsersProofs` | proofs about `Users` | see below |
| `MC*` | instances for TLC | constants only |

`JobQueue` is the heart. Its actions are the calls of the code in the code's
order: for instance `complete` is `CompleteRelease` (`cache.remove`, then
`toComplete`, which throws from other states than Processing), `CompletePut`
and `Delete`. `readyToProcess` is kept with the fall through of its switch:
`GetJob` goes on to `release` for a record that is neither Queued nor fresh.
A record's `fresh` counts the ticks for which `modifiedDate` is less than five
seconds ago; `older` is the record it replaced, which a stale read of S3 may
still answer. `Hazards` names what may go wrong in an instance.

`MessageStore` does not repeat the queue's calls: jobs go through the states of
`JobService`, which `JobQueue` is shown to implement when nothing disturbs it, and
an operation of the queue is one step unless it fails half way. What excludes the
jobs of one key from one another is not assumed: it is `locked`, the keys in the
Cache, which `Pop` takes and `Complete` and `GiveBack` remove. A worker that returns
early, throws out of `pullJob` or dies leaves its job in work and its key in the
Cache. From then on

- the key may expire (`Expire`, with ElastiCache), and another job of it start;
- `Recover`, the next reader after five seconds, completes the job, as
  `readyToProcess` does (observation 1), and removes the key, whoever holds it by
  then (observation 2);
- `complete` may throw after it removed the key (`CompleteThrows`): the catch block
  then runs the Error behavior without the key. If the put of Complete was made,
  `toQueued` and `toError` throw, the message stays in the transport, and each later
  read of it removes the key again (`ReadAgain`).

`robbed` is the history of keys that were removed while a worker had a job of them,
`recovered` that of jobs that a reader completed. Of the queue in a state where
such a thing has happened there is no abstract specification, so `MessageStore`
translates these steps from the code itself. `StepsOfService` is the link: as long
as no job is left in work and no key was removed under a worker, every step is one
of `JobService`.

The values of a message have three names, as in the word count of the demo page:
`count`, which Persist behaviors increase; `notes`, a list that what is stored
adds to; and `result`, which each run leaves as it likes. `mergeValues` adds to
lists and maps and replaces all else. A run first renders the values into its
script, and values that make no script (a null, a text nested where the template
does not quote it) make every behavior of the message throw; `isScript` says which
do, for lists nested in lists at most once. A new message that a behavior asks for
may have a Persist behavior, which asks for none itself. A read during a write
may find an empty document (`TornReads`), as `FileResource` empties a file before
it writes it and `Resource.get` takes no text for no document.

`Users` names documents after the aggregate root key of a request's key and locks
after the key as it was spelled when the message was created, as the code does.
Posts of all four behavior types are authorized twice, when they are stored and
when their job runs. A call may fail before or after its effect, which ends the
request.

## Runs

Safety under faults first, then what holds without them.

| Run | Question | Bounds |
|---|---|---|
| `queue_faults` | What holds whatever happens: crashes, calls that throw, refusals, handlers that throw, redelivery, slow pushes, early polls, stale reads, removals of keys that are lost, work that outlives every timeout (`TypeOK`, `MessageHasRecord`, `FinalIsEarned`, `DeletedOnlyOnceEnded`) | 1 job, 2 workers, 2 faults, all 9 kinds; 3.5 million states |
| `queue_undisturbed` | Does the queue keep its promise when nothing goes wrong? `TriesAreAttempts`, `DoneIsDone`, `JobsStaySettled`, `ImplementsService` | 2 jobs of one key, 2 workers |
| `queue_early_poll` | ... and when a poll overtakes the push of the job it reads, or ElastiCache loses a removal? `KeyMutex`, `CompleteMeansRun`, `JobsSettle` | the same, 1 fault |
| `queue_in_memory` | ... and with `InMemoryQueue` and `InMemoryCache`, where a message that was read can be read again at once and a key never expires, as long as no behavior takes the five seconds of `readyToProcess`? `CompleteMeansRun`, `SettledUnlessKeyLost` | 2 jobs of one key, 2 workers, 1 try, 1 fault; work takes 1 tick, a record is fresh for 2; 273,000 states |
| `in_memory_queue` | Does `InMemoryQueue` keep its messages (`AtMostOnce`, `KeptUnlessRaced`), rotate (`ReadAgainAndAgain`), and does `pop`'s loop over it end (`PollsReturn`)? | 2 writers, 2 readers, 6 queue objects; 841,000 states |
| `store_delete` | Two clients, a Delete behavior, new messages with behaviors, calls that throw, jobs left in work whose keys expire or are removed under another worker: counts and notes (`LostOnlyByOverlap`), behaviors (`JobFindsBehavior`), new messages and their jobs (`CompleteHasEffects`, `RepeatsAreTries`), and jobs of one key (`StepsOfService`) | 2 keys, 4 jobs, 2 workers, 2 tries; the stem's result is a null; 879,000 states |
| `store_error` | An Error behavior, two new messages of one key without behavior, threads that die, `complete` and `error` that fail half way, complete jobs that are read again, torn reads: counts and notes (`LostOnlyByOverlap`), repeated notes (`RepeatsAreTries`), what jobs may change (`JobsChangeScripts`), and every job comes to an end (`JobsEnd`) | 2 keys, 2 jobs, 2 workers, 2 tries, 2 faults; the word's values make no script until the Error behavior is stored with others; 144,000 states |
| `users` | Owners, registrations, permissions and locks (`OwnerWasAccepted`, `RegistrationsAddUp`, `RegistersAgain`, `OnlyOwnersChange`, `JobsOverlapOnlyIfRespelled`) | 3 users, 5 requests in 3 workloads, 6 spellings, 1 failure, with and without assertions; 325,000 states |
| `queue_crash`, `queue_leaked_lock`, `queue_retries`, `users_register` | each shows one observation below | the smallest instance that does |

The workloads of `users`: a host and a rival register one context while a guest
stores a message there that the host deletes under another spelling; a message is
stored, read by others, and others ask for what they may not; users register again
and again. Each has requests whose key is refused.

Why the bounds are enough for the cases that matter: a key is contended by two
jobs or not at all; staleness takes one worker that read and another that wrote;
two tries make a retry and a last try (`queue_in_memory` has one: what two workers
do to the tries of one job there is `queue_retries`); two ticks of invisibility against one of
work tell apart the orders of the timeouts that the code depends on (5 s, 30 s
and 30 s are only compared with each other and with the time work takes). In
`queue_in_memory` time passes while a worker is busy, so a job in work is read by
the other one before, during and after the attempt. With two ticks of work instead
of one its record would not be fresh any more: the other worker completes it and
`CompleteMeansRun` is violated, as observation 1 says. Two
faults combine every pair of them. One failure among five requests meets every
call of each of them. `in_memory_queue` has a queue object for every reference
there can be, so allocation never fails. Symmetry is used between workers, in
runs without liveness only.

Deadlock is not checked in runs whose requests are finite (all but
`in_memory_queue`): there the system may come to rest.

### Fairness

A thread that is in a call goes on (`WF` of its steps; a reader of
`InMemoryQueue` polls anew when it is done, so its steps simply recur): the JVM schedules it and
the call returns or throws. Time passes. Polls keep arriving: nothing in the
server runs a job of itself, so whoever operates it requests `/job/poll`
(`runtime/conf/routes:11`, `Application.scala:44`) again and again, and the
liveness properties say what the queue promises such an operator. That a particular visible message is
read in the end, although other messages may be read first each time, is `SF` of
`Read` in `JobQueue`; SQS samples its servers, and for `InMemoryQueue` the run
`in_memory_queue` shows it (`ReadAgainAndAgain`). In `Users` it is enough
that some thread goes on while one can: no request goes on for ever, so all come
to an end. In `MessageStore` a queued
job is weakly fair to be taken and one that was left in work to be completed by a
later read, as messages are delivered again and polls keep arriving; faults are
finitely many, keys are removed or expire. Nothing forces a behavior to succeed, a
message to be stored without overlap or a fault to happen.

## Proofs

All theorems hold for every set of jobs, keys, users, workers and other threads
and for all periods, under the ASSUME of the module they are about, which TLC
evaluates in every run. Every invariant and action property that a passing run
checks is proved, and so is `ImplementsService`; what is left is named at the end.

`JobQueueProofs` assumes `ConstantsAssumption` only: anything may go wrong,
any number of times, stale reads included. The properties are not inductive:
that a record in Error was attempted `MaxTries` times depends on the instances
that workers still have in hand and may put, and on the records that may still be
read. `IInv` adds, for the record and the one it replaced (`JobInv`) and for each
instance by the next call of its worker (`Good`), that tries never exceed
attempts, that a state past Queued was earned by attempts, and that a worker
about to delete has stored a final state (`ended`, which is never taken back).
From it follow `TypeCorrect`, `RecordsExist`, `FinalStatesAreEarned` and, as
an action property, `DeletionsAreEarned`.

`JobQueueMutexProofs` adds `Undisturbed`: SQS and ElastiCache, no fault but
polls that overtake a push and removals of keys that are lost, and a call of
`pullJob` takes less time than a message stays invisible and than a key stays
locked. The code bounds no call of `pullJob`, so this is an assumption about the
behaviors. `MInv` then says that the message of a job in hand is in the transport
and invisible for at least the time its worker has left (`HiddenInv`), so that a
job is in one pair of hands (`OneHandInv`); the same for keys (`LockInv`,
`OneKeyInv`); that a message that can be read again is neither in work nor done
(`TakenInv`), for which one needs that no time passes between the puts of a push
(`PushInv`); and that inside the try block the instance is Processing
(`WorkInv`). `KeysAreExclusive` and `CompleteJobsRan` follow. `Undisturbed` is
needed: `queue_crash` and `queue_leaked_lock` violate the two properties without
it.

`JobQueueServiceProofs` adds `Orderly`: undisturbed, and no poll reads a job
whose push is under way. An early poll takes the job in Created, and the last put
of the push then stores it as Queued with no tries over whatever it became, so
tries would no longer count attempts, nor would an end be kept. `SInv` is `MInv`
and a story of each job (`JobStory`: Processing only in the hands of a worker,
tries counted, the behavior applied at most once) and of each busy worker
(`HandStory`: its instance agrees with the record, or is ahead of it by the put
it makes next). That the worker is the only one, from `MInv`, is why its put
takes nothing back. `TriesCountAttempts` and `EndsAreKept` follow, and
`QueueImplementsService`: with the status of a job read from the instance of its
worker, where it has one, each call is one step of `JobService` or leaves it
alone: `PushPutQueued` is `Submit`, `Start` is `Take`, `CompleteRelease` is
`Finish` and `ErrorRelease` is `Fail`, as they change the instance and free the
key; the puts that follow are stutters.

`JobQueueTimelyProofs` asks less than `Undisturbed`, for `CompleteMeansRun` alone:
either transport and either cache, keys that stay locked or expire early, messages
that are read again at any time, calls of `complete` that throw. `Timely` is that
work takes less than `FreshFor`, and that no worker dies, returns early or reads a
stale record. Several workers may then have instances of one job, so the invariant
speaks of time instead of exclusion: a Processing record whose job was not applied
has a worker who tries it and for whom the record's freshness and the time it has
spent are together at least `FreshFor` (`InTime`, `Tried`). A worker that finds
the record not fresh would need somebody who has spent `FreshFor`, which nobody
does: it completes only jobs that were applied. `TimelyJobsRan` follows, which covers `queue_in_memory`.
Both conditions are needed: `queue_crash` has a worker that dies, and with longer
work TLC finds the property violated (see the bounds above).

`InMemoryQueueProofs` has no hypotheses but the assumption on its constants.
That a message is at most once in the two queues is not inductive: a reader or
writer that loaded a field may add to a queue object that was swapped away
meanwhile. `QInv` therefore speaks of all queue
objects (`OnceInv`: a message is in one of them or in one thread's hands),
of which threads have a reference to call (`CallInv`), and, as long as nothing
raced, that what was loaded is still current (`SwapInv`) and that every message
written is somewhere (`KeptInv`). `QueueTypes`, `MessagesAtMostOnce` and
`MessagesAreKept` follow; the second counts places from these facts.

`MessageStoreProofs` assumes `StoreAssumption`: clients post a `result`
or nothing, a new message has a `result`, a list of one note, both or neither, and
no thread is both client and worker. That is the word count of the demo page; the
values of results, the number of new messages and of faults, and whether keys
expire are free. `WorkInv`
says what workers have by their place in `pullJob` (`Placed`) and that
one worker has a job, and that two workers have jobs of one key only if the key
was removed under one of them, while a worker's key is in the Cache unless it is
`robbed` (`ApartInv`): this comes from the keys in the Cache, not from
`JobService`, and `ServiceSteps` follows.
`CompleteHasEffects` needs, per worker, that each new message
its run asked for is stored or still to do (`Progress`), for jobs that their own
worker completes; those that a reader completed are not covered, and may lack
them (observation 1). `RepeatsAreTries` needs
that the attempt under way has stored so much less than it may as is still to do
(`Repeated`, `HowMany` counts new messages of a key in what is left). So
`StoreTypes`, `CompleteJobsHaveEffects`, `TriesBoundRepeats` and, as an action
property, `ServiceSteps`.

`MessageCopiesProofs` proves what becomes of the messages, from the same
assumption: torn reads, deaths of threads, keys that expire or are removed under a
worker and completions that throw included. `LostOnlyByOverlap` compares what is
stored with the puts that were made, but a put stores a copy read earlier: for each
thread about to put, `HeldOK` and `OwnOK` say that the copy is the message now
stored with what the thread adds to it, unless the copy is marked stale. A put marks
the other copies of its message, and the put of a marked copy adds the message to
`overlapped`. A job's own put marks what `storeMessage` has in hand, and what other
jobs have in hand only if the key was removed under a worker (`Overlapping`): that
jobs do not overwrite one another's results otherwise is proved from `ApartInv`,
not exempted.
`BehaviorInv` says that a submitted job's behavior is stored, because what is
merged adds behaviors and removes none. `NothingElseIsLost`,
`JobsFindBehaviors` and, as an action property, `ScriptsOnly` follow.

`UsersProofs` assumes `UsersAssumption`: any users, spellings and requests, any
number of failures. `OnlyOwnersChange` speaks of what is stored, and the code
decides on what it read, so `IInv` relates the two for each thread by its next
call: what a thread has in hand is what is stored, unless another thread wrote
since (`Fresh`); a thread about to write may do so, by the message in hand
(`Allowed`), where a user who was read as registered has registered
(`UsersKnown`). For the overlap of jobs it says that messages, copies and the keys
of jobs have spellings their message was created with (`Named`, `MessagesNamed`)
and that two jobs in work have different locks (`LocksApart`). Only a write can
make another thread's `Fresh` false, and it marks that thread `late`
(`WriteKeepsIInv`); every other step leaves the other threads alone
(`OthersKeep`). `TypeCorrect`, `OwnerAccepted`, `OverlapRespelled` and, as an
action property, `OwnersChange` follow. With it every safety property of
`users` is proved.

Only model-checked: liveness under fairness (`JobsSettle`, `JobsStaySettled`,
`SettledUnlessKeyLost`, `ReadAgainAndAgain`, `PollsReturn`, `JobsEnd`,
`RegistrationsAddUp`, `RegistersAgain`), which is out of the prover's reach. Of the operators on keys and values
(`MessageKey`, `MessageValues`) only what the proofs above need is proved: that a
merge keeps counts and notes, and that a note that comes in is added to them.

## Observations

Each of the first four is a run that TLC answers with a counterexample.

1. `queue_crash`. A worker that dies, or leaves `pullJob` early, leaves a
   Processing record; the next reader after five seconds completes it
   (`Queue.java:125`). The job is reported Complete and never ran, or ran without
   the new messages it asked for having been stored, which is why
   `CompleteHasEffects` speaks of jobs that their own worker completed. With
   `InMemoryQueue`, whose messages stay readable, nobody need die: a behavior that
   runs for more than five seconds is completed by another poll before it is done.
2. `queue_leaked_lock`. When `pullJob` returns at `Processor.java:55`, its key
   stays locked; the completion of that job later removes the key from under
   another worker, and two workers run jobs of one key. Any job that is left in
   work does this, once its key has expired; in `MessageStore` the key is then
   `robbed`, and the second of the two jobs overwrites what the first one stored.
3. `queue_retries`. With `InMemoryQueue` two workers hold instances of one job
   and put back stale tries: it is attempted more than `maximumTries` times.
4. `users_register`. `getUser` puts a fresh user over a registration that was
   stored after its read; the user is unregistered for good.
5. `InMemoryQueue.swap` loses what is in the tail when two readers swap at
   once, and a message written between the emptiness test and the swap.
   `KeptUnlessRaced` names exactly these cases, so every other loss would
   violate it.
6. `storeMessage` overwrites what a job stored meanwhile. The comment at
   `ResourceRoadie.java:55` warns of it. `LostOnlyByOverlap` says that a count or a
   note is lost only by this or by two jobs of one key that overlap after it was
   removed under a worker (observations 2 and 14). Observations 3 and 8 and the
   limits below are outside of `MessageStore`.
7. A registration that is repeated and stops after `getUser` put a fresh user
   undoes the one that had succeeded (`UserRoadie.java:38`); `RegistrationsAddUp`
   exempts this case, which is the fourth observation with a failure instead of
   a second request.
8. With a stale read of S3 (`CONCURRENCY.md:142`) a worker takes a job that
   another one has in work for an old Created or Processing one, completes it and
   releases the key under that worker. Whatever is read, no job ends unearned and
   no message is deleted early (`queue_faults`).
9. `InMemoryCache.put` never lets a key expire (`InMemoryCache.java:26`): one key
   that stays locked blocks its jobs for ever. `SettledUnlessKeyLost` says that
   this is the only way for a job not to end there.
10. `pop` does not return while it reads jobs in Error whose message a delete
   missed (`Queue.java:90`, `InMemoryQueue.java:84`); `PollsReturn` says that
   nothing else keeps it in the loop.
11. A null that a behavior leaves in its message, or a text in a nested list,
   makes the template throw: all behaviors of that message fail from then on,
   Delete and Error included, until a store replaces the value.
12. Messages created at the same time under several spellings of one key are one
   document with several locks: their jobs overlap.
13. `Job.java:160` says that a job is queued from Created only; retries queue it
   from Processing. AUTH.md:51 lets all users modify public messages;
   `BdAuthenticator` lets registered owners only, in line with AUTH.md:61.
14. When `complete` throws after it removed the key (`Queue.java:138`), in its put
   or its delete, the catch block of `pullJob` runs the Error behavior of the message
   without the key. If Complete was stored, `toQueued` and `toError` throw out of
   `pullJob`, and the message stays in the transport: each later read calls
   `complete`, which removes the key again before `toComplete` throws, under whichever
   worker holds it.
15. Of two users who register one context at once both are told that they own it
   (`UserRoadie.java:65`). `OwnerWasAccepted` says that the owner is one of them; the
   other one finds out when a request is refused.

Properties with an exception for overlaps (`LostOnlyByOverlap`,
`JobFindsBehavior`, `OnlyOwnersChange`, `KeptUnlessRaced`) carry a history
variable that records the overlap in the narrowest terms we found; they do not
exempt the key for other reasons, and TLC finds each violated when a guard of
the code is dropped.

## Limits of the models

- A document is written at once, but for the empty file in `MessageStore`. A
  stale read answers with the record before the last one, for job records
  only. A file that a dying server leaves half-written is not modelled.
- A delete with an old SQS receipt handle deletes the message.
- Plain Java fields are read afresh by every access (`InMemoryQueue`): older
  values, which the memory model would allow, are not modelled. Loading a field
  and asking the queue found there whether it is empty is one step.
- `JobQueue` has the promise of the in-memory transport, not its races: the
  losses of observation 5 and a `delete` that misses a message between `poll`
  and `add` are in `InMemoryQueue` only.
- In `MessageStore` a job is in the hands of one worker at a time, as
  `JobQueueMutexProofs` shows with SQS for work shorter than the invisibility of a
  message. A message that SQS delivers a second time while its job is in work, and an
  in-memory reader that puts back a stale instance (observation 3), are in `JobQueue`
  only, as is behavior that outlives its key.
- A job left in work is completed in `MessageStore`, however soon it is read. With
  SQS its message is invisible for longer than its record is fresh. With
  `InMemoryQueue` a read within five seconds queues it again (`Queue.java:121`) and, if
  its key was removed already, runs it again; that is in `JobQueue` only.
- `push` is one step in `MessageStore`; that it may stop half way is in `JobQueue`. A
  worker's death between the take of the key and the put of Processing, which leaves
  the job queued and the key locked, is in `JobQueue` too.
- `TornReads` is of `FileResource` and `KeysExpire` of `ElastiCache`: no server has
  both, and a run with both has the behaviors of either. Each run has at most two jobs
  of a key; the theorems have any number.
- In `MessageStore` requests are authorized; in `Users` a job is refused or
  succeeds, and gives back its key either way.
- In `MessageStore` the Error behavior asks for no new messages, and the names of
  values are identifiers.

### Not modelled

- The scripts themselves and Rhino's conversions: a run is any of the results,
  returns and exceptions a script could come to.
- `queryJob`, `queryMetaData` and the display and polls of the demo page: they
  change nothing on the server. The behavior the demo page posts is the instance
  of `MessageStore`.
- `clear` of the transport and the cache, and `InMemoryCache.get`: tests only.
- `Bd.defaultInstance` and `productionInstance` called by two threads at once:
  the one caller in the repository is a Scala object, which the JVM makes once.
- `BdProperties`, the style sheets and the JavaScript under `htdocs/js` (jQuery,
  Bootstrap, marked). These three libraries are nearly all of the repository's
  JavaScript, but none of its logic: a count of the modelled share of the
  repository by that language finds nothing, while the framework's own code, in
  Java and Scala, is modelled except for what this list names.

## Plan

Done, in this order: `JobQueue` with its runs and proofs, `JobService` and the
refinement, `MessageStore`, `Users`, `InMemoryQueue`; then stale reads and lost
removals in `JobQueue`, the loop of `pop` in `InMemoryQueue`, `MessageKey` and
failures in `Users`, `MessageValues`, torn reads and dying clients in
`MessageStore`, and `UsersProofs`.

Proved so far: `JobQueue` under faults, its mutual exclusion, its implementation
of `JobService`, `CompleteMeansRun` with either transport, `InMemoryQueue`,
`MessageStore`, its steps of `JobService` included, and `Users`.

Theorems worth proving next: that keys of one aggregate root name one document
(`MessageKey`), and that a merge keeps every entry it is not given
(`mergeValues`).
