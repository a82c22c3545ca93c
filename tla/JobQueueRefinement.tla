------------------------- MODULE JobQueueRefinement -------------------------
(***************************************************************************)
(* JobQueue implements JobService when nothing disturbs it.                *)
(***************************************************************************)
EXTENDS JobQueue

Stage(st) ==
    CASE st \in {"None", "Created"} -> "absent"
      [] st = "Queued"     -> "queued"
      [] st = "Processing" -> "processing"
      [] st = "Complete"   -> "complete"
      [] st = "Error"      -> "error"

\* The workers that have stored j as Processing and not returned yet.
Hands(j) ==
    {w \in Workers : cur[w].job = j /\ pc[w] \notin {"idle", "get", "lock", "start"}}

\* A job in hand stands where its worker's instance is, which runs ahead of
\* the record: the key is free and the job settled before the put.
StatusOf(j) ==
    IF Hands(j) = {} THEN Stage(record[j].state)
    ELSE Stage(cur[CHOOSE w \in Hands(j) : TRUE].state)

Service == INSTANCE JobService
    WITH status <- [j \in Jobs |-> StatusOf(j)],
         tries  <- [j \in Jobs |-> record[j].tries]

\* Every step of push, pop, complete, error and pullJob is a step of the
\* service or none: the queue loses no job, never has two jobs of one key in
\* work, counts every try and never takes back a final state.
ImplementsService == Service!ServiceSpec
=============================================================================
