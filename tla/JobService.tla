----------------------------- MODULE JobService -----------------------------
(***************************************************************************)
(* What the job queue promises to the rest of the system, whatever the     *)
(* calls it is made of: a job is submitted once, worked on by one worker   *)
(* at a time and never together with a job of the same key, tried a        *)
(* bounded number of times, and then it is complete or in error for good.  *)
(***************************************************************************)
EXTENDS Integers

CONSTANTS
    Jobs,     \* job UUIDs
    KeyOf,    \* KeyOf[j]: the key of the message job j works on
    MaxTries  \* Processor.maximumTries

ASSUME MaxTriesAssumption == MaxTries \in Nat \ {0}

VARIABLES
    status,   \* status[j]: where job j stands
    tries     \* tries[j]: how often work on j was started

JobStatus == {"absent", "queued", "processing", "complete", "error"}

ServiceTypeOK ==
    /\ status \in [Jobs -> JobStatus]
    /\ tries \in [Jobs -> 0 .. MaxTries]

ServiceInit ==
    /\ status = [j \in Jobs |-> "absent"]
    /\ tries = [j \in Jobs |-> 0]

\* Queue.push
Submit(j) ==
    /\ status[j] = "absent"
    /\ status' = [status EXCEPT ![j] = "queued"]
    /\ UNCHANGED tries

\* Mutant: the try is not counted.
StartUncounted(j) ==
    /\ status[j] = "queued"
    /\ status' = [status EXCEPT ![j] = "processing"]
    /\ UNCHANGED tries

\* The end of Queue.pop, once its key is locked.
StartWork(j) ==
    /\ status[j] = "queued"
    /\ status' = [status EXCEPT ![j] = "processing"]
    /\ tries' = [tries EXCEPT ![j] = @ + 1]

KeyBusy(k) == \E j \in Jobs : status[j] = "processing" /\ KeyOf[j] = k

\* Queue.pop
Take(j) == ~KeyBusy(KeyOf[j]) /\ StartWork(j)

\* Queue.complete
Finish(j) ==
    /\ status[j] = "processing"
    /\ status' = [status EXCEPT ![j] = "complete"]
    /\ UNCHANGED tries

\* Mutant: one try too many.
FailOnceMore(j) ==
    /\ status[j] = "processing"
    /\ status' = [status EXCEPT ![j] =
                     IF tries[j] <= MaxTries THEN "queued" ELSE "error"]
    /\ UNCHANGED tries

\* pullJob's catch block and Queue.error: a retry, or the end.
Fail(j) ==
    /\ status[j] = "processing"
    /\ status' = [status EXCEPT ![j] =
                     IF tries[j] < MaxTries THEN "queued" ELSE "error"]
    /\ UNCHANGED tries

ServiceNext == \E j \in Jobs : Submit(j) \/ Take(j) \/ Finish(j) \/ Fail(j)

ServiceSpec == ServiceInit /\ [][ServiceNext]_<<status, tries>>
=============================================================================
