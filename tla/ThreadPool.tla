----------------------------- MODULE ThreadPool -----------------------------
(***************************************************************************)
(* The worker pool both servers run their connections on                  *)
(* (src/utils/thread_pool.c).  A client thread pushes a job descriptor     *)
(* onto the job queue and posts the counting semaphore jobs_available; a   *)
(* worker waits for the semaphore, checks that the queue is not empty,     *)
(* pops, runs the job, stores its result and posts the descriptor's own    *)
(* status semaphore; pool_await waits for that semaphore and frees the     *)
(* descriptor.  pool_destroy submits and awaits one shutdown job per       *)
(* worker, then joins the workers and releases the pool.                   *)
(*                                                                         *)
(* Every sem_wait may return early because a signal handler ran on its     *)
(* thread (no handler is installed with SA_RESTART).  A worker then ends,  *)
(* pool_await returns its error with the job unfinished and the            *)
(* descriptor unfreed, and a tqueue_pop returns NULL.                      *)
(*                                                                         *)
(* A queue operation is one step here; module TQueue shows that the        *)
(* semaphore inside the queue makes it one.                                *)
(***************************************************************************)
EXTENDS Naturals, Sequences, FiniteSets

CONSTANTS
    N,              \* worker_threads_amount
    Jobs,           \* the descriptors that clients may allocate and submit
    Clients,        \* the threads that submit and await jobs
    Destroyer,      \* the client that creates and destroys the pool
    NoJob,          \* "no descriptor"
    MaxInterrupts   \* bound: how many sem_wait calls a signal interrupts

Workers == 1..N

\* The shutdown descriptor of round i of pool_destroy is named i.
JobIds == Jobs \cup Workers

ASSUME PoolAssumption ==
    /\ N \in Nat \ {0}
    /\ IsFiniteSet(Clients)
    /\ Destroyer \in Clients
    /\ Jobs \cap Workers = {}
    /\ NoJob \notin JobIds
    /\ MaxInterrupts \in Nat

VARIABLES
    queue,          \* job_queue: the descriptors, oldest first
    jobs_available, \* value of the counting semaphore
    mem,            \* memory of a descriptor: "none", "live" or "freed"
    status,         \* value of the descriptor's status semaphore
    ran,            \* how often the descriptor's job_function has returned
    wpc,            \* where each worker is
    wjob,           \* current_job of each worker
    cpc,            \* where each client is inside pool_submit / pool_await
    cjob,           \* the descriptor that call is about
    handles,        \* JobIds returned by pool_submit and not yet awaited
    dropped,        \* history: descriptors whose pool_await was interrupted
    phase,          \* life of the pool
    count,          \* loop variable i of pool_create and pool_destroy
    interrupts      \* interrupted sem_wait calls so far

jobVars    == <<mem, status, ran>>
workerVars == <<wpc, wjob>>
clientVars == <<cpc, cjob, handles, dropped>>
poolVars   == <<phase, count>>
vars == <<queue, jobs_available, jobVars, workerVars, clientVars, poolVars, interrupts>>

Init ==
    /\ queue = <<>>
    /\ jobs_available = 0
    /\ mem = [j \in JobIds |-> "none"]
    /\ status = [j \in JobIds |-> 0]
    /\ ran = [j \in JobIds |-> 0]
    /\ wpc = [w \in Workers |-> "none"]
    /\ wjob = [w \in Workers |-> NoJob]
    /\ cpc = [c \in Clients |-> "out"]
    /\ cjob = [c \in Clients |-> NoJob]
    /\ handles = {}
    /\ dropped = {}
    /\ phase = "create"
    /\ count = 0
    /\ interrupts = 0

-----------------------------------------------------------------------------
(* pool_create: the loop that starts the workers.                          *)

\* One pthread_create.  The last one makes pool_create return success.
CreateWorker ==
    /\ phase = "create"
    /\ wpc' = [wpc EXCEPT ![count + 1] = "start"]
    /\ phase' = IF count + 1 = N THEN "open" ELSE "create"
    /\ count' = IF count + 1 = N THEN 0 ELSE count + 1
    /\ UNCHANGED <<queue, jobs_available, jobVars, wjob, clientVars, interrupts>>

\* malloc or pthread_create fails: pool_create returns its error at once and
\* leaves the workers it already started waiting for a job.
CreateFails ==
    /\ phase = "create"
    /\ phase' = "create_failed"
    /\ UNCHANGED <<queue, jobs_available, jobVars, workerVars, clientVars, count, interrupts>>

-----------------------------------------------------------------------------
(* int_pool_submit.                                                        *)

\* Fault: shutdown jobs are inserted at the head of the queue.
PushJobAtHead(c, j) ==
    /\ cpc[c] = "out"
    /\ mem[j] = "none"
    /\ mem' = [mem EXCEPT ![j] = "live"]
    /\ queue' = IF j \in Workers THEN <<j>> \o queue ELSE Append(queue, j)
    /\ cpc' = [cpc EXCEPT ![c] = "post"]
    /\ cjob' = [cjob EXCEPT ![c] = j]
    /\ UNCHANGED <<jobs_available, status, ran, workerVars, handles, dropped, phase, count, interrupts>>

\* The descriptor is allocated and initialised, then pushed.
PushJob(c, j) ==
    /\ cpc[c] = "out"
    /\ mem[j] = "none"
    /\ mem' = [mem EXCEPT ![j] = "live"]
    /\ queue' = Append(queue, j)
    /\ cpc' = [cpc EXCEPT ![c] = "post"]
    /\ cjob' = [cjob EXCEPT ![c] = j]
    /\ UNCHANGED <<jobs_available, status, ran, workerVars, handles, dropped, phase, count, interrupts>>

\* Fault: jobs_available is not posted.
PostJobForgotten(c) ==
    /\ cpc[c] = "post"
    /\ cjob[c] \notin Workers
    /\ cpc' = [cpc EXCEPT ![c] = "out"]
    /\ cjob' = [cjob EXCEPT ![c] = NoJob]
    /\ handles' = handles \cup {cjob[c]}
    /\ UNCHANGED <<queue, jobs_available, jobVars, workerVars, dropped, poolVars, interrupts>>

\* jobs_available is posted and pool_submit returns the JobId.
PostJob(c) ==
    /\ cpc[c] = "post"
    /\ cjob[c] \notin Workers
    /\ jobs_available' = jobs_available + 1
    /\ cpc' = [cpc EXCEPT ![c] = "out"]
    /\ cjob' = [cjob EXCEPT ![c] = NoJob]
    /\ handles' = handles \cup {cjob[c]}
    /\ UNCHANGED <<queue, jobVars, workerVars, dropped, poolVars, interrupts>>

\* The same in pool_destroy, which passes the JobId to impl_pool_await at once.
PostShutdownJob(c) ==
    /\ cpc[c] = "post"
    /\ cjob[c] \in Workers
    /\ jobs_available' = jobs_available + 1
    /\ cpc' = [cpc EXCEPT ![c] = "wait"]
    /\ UNCHANGED <<queue, jobVars, workerVars, cjob, handles, dropped, poolVars, interrupts>>

\* pool_submit, for a thread that still may use the pool.
Submit(c, j) ==
    /\ phase = "open"
    /\ PushJob(c, j)

-----------------------------------------------------------------------------
(* pool_await / impl_pool_await.                                           *)

\* A thread that holds a JobId calls pool_await with it.
AwaitJob(c, j) ==
    /\ cpc[c] = "out"
    /\ j \in handles
    /\ handles' = handles \ {j}
    /\ cpc' = [cpc EXCEPT ![c] = "wait"]
    /\ cjob' = [cjob EXCEPT ![c] = j]
    /\ UNCHANGED <<queue, jobs_available, jobVars, workerVars, dropped, poolVars, interrupts>>

\* Fault: pool_await does not wait for the status semaphore.
AwaitWakeUnsynchronised(c) ==
    /\ cpc[c] = "wait"
    /\ cpc' = [cpc EXCEPT ![c] = "free"]
    /\ UNCHANGED <<queue, jobs_available, jobVars, workerVars, cjob, handles, dropped, poolVars, interrupts>>

\* sem_wait on the descriptor's status semaphore returns.
AwaitWake(c) ==
    /\ cpc[c] = "wait"
    /\ status[cjob[c]] > 0
    /\ status' = [status EXCEPT ![cjob[c]] = @ - 1]
    /\ cpc' = [cpc EXCEPT ![c] = "free"]
    /\ UNCHANGED <<queue, jobs_available, mem, ran, workerVars, cjob, handles, dropped, poolVars, interrupts>>

\* The status semaphore is destroyed, the result read and the descriptor
\* freed.  After a shutdown job the loop of pool_destroy goes on.
AwaitFree(c) ==
    /\ cpc[c] = "free"
    /\ mem' = [mem EXCEPT ![cjob[c]] = "freed"]
    /\ cpc' = [cpc EXCEPT ![c] = "out"]
    /\ cjob' = [cjob EXCEPT ![c] = NoJob]
    /\ count' = IF cjob[c] \in Workers THEN count + 1 ELSE count
    /\ UNCHANGED <<queue, jobs_available, status, ran, workerVars, handles, dropped, phase, interrupts>>

\* sem_wait on the status semaphore returns -1 because a signal handler ran on
\* this thread: JOB_ERROR_SEM_WAIT is returned at once.  Nobody has waited for
\* the job, nobody frees its descriptor, and the caller has given the JobId up.
\* pool_destroy ignores the result and goes on with its loop.
AwaitInterrupted(c) ==
    /\ cpc[c] = "wait"
    /\ interrupts < MaxInterrupts
    /\ interrupts' = interrupts + 1
    /\ dropped' = dropped \cup {cjob[c]}
    /\ cpc' = [cpc EXCEPT ![c] = "out"]
    /\ cjob' = [cjob EXCEPT ![c] = NoJob]
    /\ count' = IF cjob[c] \in Workers THEN count + 1 ELSE count
    /\ UNCHANGED <<queue, jobs_available, jobVars, workerVars, handles, phase>>

-----------------------------------------------------------------------------
(* thread_pool_worker_thread_function.                                     *)

\* The startup function has run; the worker enters its loop.
WorkerStart(w) ==
    /\ wpc[w] = "start"
    /\ wpc' = [wpc EXCEPT ![w] = "wait"]
    /\ UNCHANGED <<queue, jobs_available, jobVars, wjob, clientVars, poolVars, interrupts>>

\* Fault: the worker does not block while the semaphore is zero.
WorkerWakeUnblocked(w) ==
    /\ wpc[w] = "wait"
    /\ jobs_available' = jobs_available - 1
    /\ wpc' = [wpc EXCEPT ![w] = "check"]
    /\ UNCHANGED <<queue, jobVars, wjob, clientVars, poolVars, interrupts>>

\* sem_wait(jobs_available) returns 0.
WorkerWake(w) ==
    /\ wpc[w] = "wait"
    /\ jobs_available > 0
    /\ jobs_available' = jobs_available - 1
    /\ wpc' = [wpc EXCEPT ![w] = "check"]
    /\ UNCHANGED <<queue, jobVars, wjob, clientVars, poolVars, interrupts>>

\* Fault: the result of the interrupted sem_wait is not looked at.
WorkerInterruptedIgnored(w) ==
    /\ wpc[w] = "wait"
    /\ interrupts < MaxInterrupts
    /\ interrupts' = interrupts + 1
    /\ wpc' = [wpc EXCEPT ![w] = "check"]
    /\ UNCHANGED <<queue, jobs_available, jobVars, wjob, clientVars, poolVars>>

\* sem_wait(jobs_available) returns -1 because a signal handler ran on this
\* thread: the worker returns WORKER_ERROR_SEM_WAIT and is gone.
WorkerInterrupted(w) ==
    /\ wpc[w] = "wait"
    /\ interrupts < MaxInterrupts
    /\ interrupts' = interrupts + 1
    /\ wpc' = [wpc EXCEPT ![w] = "failed"]
    /\ UNCHANGED <<queue, jobs_available, jobVars, wjob, clientVars, poolVars>>

\* The hand-written assertion: an empty queue ends the whole process.  A
\* tqueue_is_empty that was interrupted answers "not empty", like one that was
\* not.
WorkerCheck(w) ==
    /\ wpc[w] = "check"
    /\ wpc' = [wpc EXCEPT ![w] = IF queue = <<>> THEN "abort" ELSE "pop"]
    /\ UNCHANGED <<queue, jobs_available, jobVars, wjob, clientVars, poolVars, interrupts>>

\* A shutdown job is told apart by its function pointer.
Dispatch(j) == IF j \in Workers THEN "bye" ELSE "run"

\* Fault: the element that is taken stays in the queue.
WorkerPopKeeps(w) ==
    /\ wpc[w] = "pop"
    /\ wjob' = [wjob EXCEPT ![w] = IF queue = <<>> THEN NoJob ELSE Head(queue)]
    /\ wpc' = [wpc EXCEPT ![w] = IF queue = <<>> THEN "abort" ELSE Dispatch(Head(queue))]
    /\ UNCHANGED <<queue, jobs_available, jobVars, clientVars, poolVars, interrupts>>

\* tqueue_pop, which asserts again that the queue is not empty.
WorkerPop(w) ==
    /\ wpc[w] = "pop"
    /\ queue' = IF queue = <<>> THEN queue ELSE Tail(queue)
    /\ wjob' = [wjob EXCEPT ![w] = IF queue = <<>> THEN NoJob ELSE Head(queue)]
    /\ wpc' = [wpc EXCEPT ![w] = IF queue = <<>> THEN "abort" ELSE Dispatch(Head(queue))]
    /\ UNCHANGED <<jobs_available, jobVars, clientVars, poolVars, interrupts>>

\* tqueue_pop returns NULL because a signal came while it waited for the queue's
\* semaphore; the worker dereferences it, and the process dies.
WorkerPopInterrupted(w) ==
    /\ wpc[w] = "pop"
    /\ interrupts < MaxInterrupts
    /\ interrupts' = interrupts + 1
    /\ wpc' = [wpc EXCEPT ![w] = "crash"]
    /\ UNCHANGED <<queue, jobs_available, jobVars, wjob, clientVars, poolVars>>

\* job_function returns and its value is stored in the descriptor.
WorkerRun(w) ==
    /\ wpc[w] = "run"
    /\ ran' = [ran EXCEPT ![wjob[w]] = @ + 1]
    /\ wpc' = [wpc EXCEPT ![w] = "done"]
    /\ UNCHANGED <<queue, jobs_available, mem, status, wjob, clientVars, poolVars, interrupts>>

\* Fault: the status semaphore is not posted.
WorkerDoneUnposted(w) ==
    /\ wpc[w] = "done"
    /\ wjob' = [wjob EXCEPT ![w] = NoJob]
    /\ wpc' = [wpc EXCEPT ![w] = "wait"]
    /\ UNCHANGED <<queue, jobs_available, jobVars, clientVars, poolVars, interrupts>>

\* The descriptor's status semaphore is posted; the worker loops.
WorkerDone(w) ==
    /\ wpc[w] = "done"
    /\ status' = [status EXCEPT ![wjob[w]] = @ + 1]
    /\ wjob' = [wjob EXCEPT ![w] = NoJob]
    /\ wpc' = [wpc EXCEPT ![w] = "wait"]
    /\ UNCHANGED <<queue, jobs_available, mem, ran, clientVars, poolVars, interrupts>>

\* Fault: the worker leaves without posting the shutdown job.
WorkerByeUnposted(w) ==
    /\ wpc[w] = "bye"
    /\ wjob' = [wjob EXCEPT ![w] = NoJob]
    /\ wpc' = [wpc EXCEPT ![w] = "leave"]
    /\ UNCHANGED <<queue, jobs_available, jobVars, clientVars, poolVars, interrupts>>

\* A shutdown job: the status semaphore is posted "before leaving".
WorkerBye(w) ==
    /\ wpc[w] = "bye"
    /\ status' = [status EXCEPT ![wjob[w]] = @ + 1]
    /\ wjob' = [wjob EXCEPT ![w] = NoJob]
    /\ wpc' = [wpc EXCEPT ![w] = "leave"]
    /\ UNCHANGED <<queue, jobs_available, mem, ran, clientVars, poolVars, interrupts>>

\* The thread frees its argument and returns.
WorkerExit(w) ==
    /\ wpc[w] = "leave"
    /\ wpc' = [wpc EXCEPT ![w] = "exited"]
    /\ UNCHANGED <<queue, jobs_available, jobVars, wjob, clientVars, poolVars, interrupts>>

WorkerStep(w) ==
    \/ WorkerStart(w) \/ WorkerWake(w) \/ WorkerCheck(w) \/ WorkerPop(w)
    \/ WorkerRun(w) \/ WorkerDone(w) \/ WorkerBye(w) \/ WorkerExit(w)

-----------------------------------------------------------------------------
(* pool_destroy.                                                           *)

\* The owner of the pool calls pool_destroy.  Nobody may submit from here on;
\* jobs that are queued or running are allowed, and so are JobIds that nobody
\* has awaited.
BeginDestroy ==
    /\ phase = "open"
    /\ cpc[Destroyer] = "out"
    /\ phase' = "shutdown"
    /\ UNCHANGED <<queue, jobs_available, jobVars, workerVars, clientVars, count, interrupts>>

\* One round of the first loop submits its shutdown job; PostJob, AwaitWake and
\* AwaitFree are the rest of the round.
DestroyRound ==
    /\ phase = "shutdown"
    /\ count < N
    /\ PushJob(Destroyer, count + 1)

\* The first loop is over.
BeginJoin ==
    /\ phase = "shutdown"
    /\ count = N
    /\ cpc[Destroyer] = "out"
    /\ phase' = "join"
    /\ count' = 0
    /\ UNCHANGED <<queue, jobs_available, jobVars, workerVars, clientVars, interrupts>>

\* pthread_join of one worker.
JoinWorker ==
    /\ phase = "join"
    /\ count < N
    /\ wpc[count + 1] \in {"exited", "failed"}
    /\ count' = count + 1
    /\ UNCHANGED <<queue, jobs_available, jobVars, workerVars, clientVars, phase, interrupts>>

\* The thread array is freed, the queue and the semaphore are destroyed.
ReleasePool ==
    /\ phase = "join"
    /\ count = N
    /\ phase' = "destroyed"
    /\ UNCHANGED <<queue, jobs_available, jobVars, workerVars, clientVars, count, interrupts>>

DestroyStep == DestroyRound \/ BeginJoin \/ JoinWorker \/ ReleasePool

-----------------------------------------------------------------------------

ClientStep(c) == PostJob(c) \/ PostShutdownJob(c) \/ AwaitWake(c) \/ AwaitFree(c)

\* The pool is gone, or pool_create reported an error and the server exits.
Stopped ==
    /\ phase \in {"destroyed", "create_failed"}
    /\ UNCHANGED vars

Next ==
    \/ CreateWorker
    \/ CreateFails
    \/ \E c \in Clients : \E j \in Jobs : Submit(c, j)
    \/ \E c \in Clients : \E j \in handles : AwaitJob(c, j)
    \/ \E c \in Clients : ClientStep(c) \/ AwaitInterrupted(c)
    \/ \E w \in Workers : WorkerStep(w)
    \/ \E w \in Workers : WorkerInterrupted(w) \/ WorkerPopInterrupted(w)
    \/ BeginDestroy
    \/ DestroyStep
    \/ Stopped

Spec == Init /\ [][Next]_vars

\* Every thread is scheduled, every job_function returns.  Nobody is obliged to
\* submit, to await or to destroy.
Fairness ==
    /\ WF_vars(CreateWorker)
    /\ \A w \in Workers : WF_vars(WorkerStep(w))
    /\ \A c \in Clients : WF_vars(ClientStep(c))
    /\ WF_vars(DestroyStep)

FairSpec == Spec /\ Fairness

-----------------------------------------------------------------------------
(* Properties.                                                             *)

\* Every variable keeps the values its C declaration and use allow; in
\* particular neither semaphore is ever decremented below zero.
TypeOK ==
    /\ queue \in Seq(JobIds)
    /\ jobs_available \in Nat
    /\ mem \in [JobIds -> {"none", "live", "freed"}]
    /\ status \in [JobIds -> Nat]
    /\ ran \in [JobIds -> Nat]
    /\ wpc \in [Workers -> {"none", "start", "wait", "check", "pop", "run", "done",
                            "bye", "leave", "exited", "failed", "abort", "crash"}]
    /\ wjob \in [Workers -> JobIds \cup {NoJob}]
    /\ cpc \in [Clients -> {"out", "post", "wait", "free"}]
    /\ cjob \in [Clients -> JobIds \cup {NoJob}]
    /\ handles \subseteq Jobs
    /\ dropped \subseteq JobIds
    /\ phase \in {"create", "create_failed", "open", "shutdown", "join", "destroyed"}
    /\ count \in 0..N
    /\ interrupts \in 0..MaxInterrupts

\* No worker ever finds the queue empty after sem_wait(jobs_available): the
\* "Expected to have elements in the queue at this stage" exit of the worker
\* loop and the assertion of tqueue_pop are unreachable, although the check
\* and the pop are separate critical sections that other workers run between.
NeverEmptyAfterWait ==
    \A w \in Workers :
        /\ wpc[w] # "abort"
        /\ wpc[w] \in {"check", "pop"} => queue # <<>>

\* A descriptor that the queue, a worker or a caller of the pool still refers
\* to has not been freed: pool_await frees it only after the worker's last
\* access, its post of the status semaphore.  The queue and the semaphore of the
\* pool are released only when no worker thread can touch them any more.
NoUseAfterFree ==
    /\ \A i \in 1..Len(queue) : mem[queue[i]] = "live"
    /\ \A w \in Workers : wjob[w] # NoJob => mem[wjob[w]] = "live"
    /\ \A c \in Clients : cpc[c] # "out" => mem[cjob[c]] = "live"
    /\ \A j \in handles : mem[j] = "live"
    /\ phase = "destroyed" => \A w \in Workers : wpc[w] \in {"exited", "failed"}

\* Every worker thread was ended by a signal.
Deserted == \A w \in Workers : wpc[w] = "failed"

\* The result pool_await reads is there and is final: a user job runs at most
\* once, and it has run whenever its status semaphore was posted or it was
\* freed.  "It is shutdown after ALL remaining jobs are finished": when
\* pool_destroy releases the pool, every job that was ever pushed has run,
\* awaited or not.  That holds although an interrupted await of a shutdown job
\* lets the rounds and the joins run ahead of the jobs: the last worker to be
\* joined took its shutdown job from behind them, unless signals ended all
\* workers.
ExactlyOnce ==
    \A j \in Jobs :
        /\ ran[j] <= 1
        /\ (status[j] > 0 \/ mem[j] = "freed") => ran[j] = 1
        /\ phase = "destroyed" /\ mem[j] # "none" => ran[j] = 1 \/ Deserted

\* "each thread receives the shutdown job": whoever destroys the pool sees every
\* worker thread end that way.
EachThreadGetsShutdownJob ==
    (phase = "shutdown") ~> (\A w \in Workers : wpc[w] = "exited")

\* A signal has ended a worker thread, or the process: from then on the pool may
\* block.  An interrupted pool_await is no excuse.
WorkerLost == \E w \in Workers : wpc[w] \in {"failed", "crash"}

\* Every submitted job is run, whatever the pool's owner does meanwhile.
EveryJobRuns ==
    \A j \in Jobs : (mem[j] = "live") ~> (ran[j] = 1 \/ WorkerLost)

\* pool_await and pool_destroy, the calls that wait for workers, return.
CallsReturn ==
    /\ \A c \in Clients : (cpc[c] = "wait") ~> (cpc[c] = "out" \/ WorkerLost)
    /\ (phase = "shutdown") ~> (phase = "destroyed" \/ WorkerLost)
-----------------------------------------------------------------------------
(* The pool implements JobPool.                                            *)

\* The stage of a user job, read off its descriptor and its holders.  A job
\* is done from the post of its status semaphore to the free.
StageOf(j) ==
    IF mem[j] = "none" THEN "new"
    ELSE IF mem[j] = "freed" THEN "collected"
    ELSE IF \E w \in Workers : wjob[w] = j THEN "running"
    ELSE IF ran[j] = 0 THEN "queued"
    ELSE "done"

JP == INSTANCE JobPool WITH
        stage  <- [j \in Jobs |-> StageOf(j)],
        deserted <- Deserted,
        closed <- phase = "destroyed"

\* The semaphores and the queue of thread_pool.c implement the pool its
\* header describes.
ImplementsJobPool == JP!Spec
=============================================================================
