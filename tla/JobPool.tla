------------------------------ MODULE JobPool ------------------------------
(***************************************************************************)
(* What src/utils/thread_pool.h promises of a pool, without queue,         *)
(* semaphores or descriptors: a submitted job is started once, finishes    *)
(* and can be collected once; at most N jobs run at a time; the pool       *)
(* closes only when no submitted job is running, and none is waiting       *)
(* unless there is no worker left to run it; nothing happens to a job that *)
(* is not done when the pool has closed.                                   *)
(***************************************************************************)
EXTENDS Naturals, FiniteSets

CONSTANTS N, Jobs

VARIABLES
    stage,   \* life of each job
    deserted,\* the pool has lost its last worker
    closed   \* pool_destroy has returned

Stages == {"new", "queued", "running", "done", "collected"}

Init ==
    /\ stage = [j \in Jobs |-> "new"]
    /\ deserted = FALSE
    /\ closed = FALSE

Running == {j \in Jobs : stage[j] = "running"}

\* pool_submit
Submit(j) ==
    /\ ~closed
    /\ stage[j] = "new"
    /\ stage' = [stage EXCEPT ![j] = "queued"]
    /\ UNCHANGED <<deserted, closed>>

\* A worker takes the job; there is one worker per running job.
Start(j) ==
    /\ ~closed /\ ~deserted
    /\ stage[j] = "queued"
    /\ Cardinality(Running) < N
    /\ stage' = [stage EXCEPT ![j] = "running"]
    /\ UNCHANGED <<deserted, closed>>

\* The job's function has returned and its JobId can be awaited.
Finish(j) ==
    /\ ~closed
    /\ stage[j] = "running"
    /\ stage' = [stage EXCEPT ![j] = "done"]
    /\ UNCHANGED <<deserted, closed>>

\* pool_await returns.  A JobId that was not awaited before pool_destroy can
\* still be awaited after it.
Collect(j) ==
    /\ stage[j] = "done"
    /\ stage' = [stage EXCEPT ![j] = "collected"]
    /\ UNCHANGED <<deserted, closed>>

\* A signal ends the last worker, which is idle then.
Desert ==
    /\ ~deserted
    /\ Running = {}
    /\ deserted' = TRUE
    /\ UNCHANGED <<stage, closed>>

\* pool_destroy returns.
Close ==
    /\ ~closed
    /\ Running = {}
    /\ \A j \in Jobs : stage[j] # "queued" \/ deserted
    /\ closed' = TRUE
    /\ UNCHANGED <<stage, deserted>>

Next ==
    \/ \E j \in Jobs : Submit(j) \/ Start(j) \/ Finish(j) \/ Collect(j)
    \/ Desert
    \/ Close

Spec == Init /\ [][Next]_<<stage, deserted, closed>>
=============================================================================
