----------------------------- MODULE HttpServer -----------------------------
(***************************************************************************)
(* The life of the HTTP server (src/http/server.c): the listener thread,   *)
(* which accepts connections and hands each to the pool; the connection    *)
(* handlers, which run on the pool's workers and may cancel the listener;  *)
(* the main thread, which joins the listener, awaits what is left in       *)
(* job_id_queue, destroys the pool and releases everything.  The pool is   *)
(* ThreadPool itself: its actions are conjoined with the threads' steps.   *)
(*                                                                         *)
(* Cancellation is deferred: it acts when the listener enters or waits in  *)
(* a cancellation point, and poll, accept and sem_wait all are one, so a   *)
(* pending cancellation ends the listener at "poll", at "accept", before   *)
(* either queue operation and inside pool_await.                           *)
(*                                                                         *)
(* SIGINT is not blocked in any thread and its handler is installed        *)
(* without SA_RESTART, so it may be delivered to every thread, and it      *)
(* makes the poll or sem_wait that the thread is in fail.                  *)
(***************************************************************************)
EXTENDS ThreadPool

CONSTANTS
    Listener,          \* the client of the pool that is the listener thread
    HttpMaxQueueSize,  \* HTTP_MAX_QUEUE_SIZE
    HasShutdownRoute,  \* whether the routes contain the shutdown route
    MaxAcceptErrors    \* bound: accept calls that return an error (0 or 1)

ASSUME ServerAssumption ==
    /\ Clients = {Listener, Destroyer}
    /\ Listener # Destroyer
    /\ HttpMaxQueueSize \in Nat
    /\ HasShutdownRoute \in BOOLEAN
    /\ MaxAcceptErrors \in {0, 1}

VARIABLES
    lpc,        \* where the listener is
    ljob,       \* the connection, then JobId, in its hands
    excess,     \* remaining_size - boundary while it shortens job_id_queue
    job_ids,    \* job_id_queue
    cancel,     \* a cancellation request is pending for the listener
    signal,     \* g_signal_received
    conn,       \* each connection, from the listen backlog to its handler's end
    mpc         \* where the main thread is

listenerVars == <<lpc, ljob, excess>>
serverVars   == <<listenerVars, job_ids, cancel, signal, conn, mpc>>
allVars      == <<vars, serverVars>>

ServerInit ==
    /\ Init
    /\ lpc = "none"
    /\ ljob = NoJob
    /\ excess = 0
    /\ job_ids = <<>>
    /\ cancel = FALSE
    /\ signal = FALSE
    /\ conn = [j \in Jobs |-> "none"]
    /\ mpc = "start"

Main == Destroyer

\* How a handler may leave its connection: closed by its reader; left open,
\* because the handler gave up before it had a descriptor for it; or handed to
\* a web socket thread.
Handled == {"closed", "leaked", "handed"}

-----------------------------------------------------------------------------
(* The world: clients connect, somebody presses Ctrl-C.                    *)

\* The kernel completes a connection and puts it into the listen backlog.
Connect(j) ==
    /\ conn[j] = "none"
    /\ mpc # "done"
    /\ conn' = [conn EXCEPT ![j] = "backlog"]
    /\ UNCHANGED <<vars, listenerVars, job_ids, cancel, signal, mpc>>

\* SIGINT is delivered to a thread where it interrupts nothing: the main
\* thread in pthread_join, a worker that runs a job, any thread that is not
\* blocked at the moment.  The handler sets the flag.  The signalfd the listener
\* polls does not become readable, because SIGINT is not blocked.
SigIntElsewhere ==
    /\ ~signal
    /\ mpc \notin {"start", "done", "failed"}
    /\ signal' = TRUE
    /\ UNCHANGED <<vars, listenerVars, job_ids, cancel, conn, mpc>>

\* SIGINT is delivered to the listener in poll: poll fails, the flag is seen,
\* and the thread returns.
SigIntInPoll ==
    /\ lpc = "poll"
    /\ ~cancel
    /\ signal' = TRUE
    /\ lpc' = "ended"
    /\ UNCHANGED <<vars, ljob, excess, job_ids, cancel, conn, mpc>>

-----------------------------------------------------------------------------
(* http_listener_thread_function.                                          *)

\* poll times out after five seconds: the inner loop polls again, without a
\* look at the flag.
PollTimeout ==
    /\ lpc = "poll"
    /\ UNCHANGED allVars

\* poll reports a connection; the flag is looked at first.
PollReady ==
    /\ lpc = "poll"
    /\ ~cancel
    /\ \E j \in Jobs : conn[j] = "backlog"
    /\ lpc' = IF signal THEN "ended" ELSE "accept"
    /\ UNCHANGED <<vars, ljob, excess, job_ids, cancel, signal, conn, mpc>>

\* accept, and the argument for the handler is filled in.
Accept(j) ==
    /\ lpc = "accept"
    /\ ~cancel
    /\ conn[j] = "backlog"
    /\ conn' = [conn EXCEPT ![j] = "open"]
    /\ ljob' = j
    /\ lpc' = "submit"
    /\ UNCHANGED <<vars, excess, job_ids, cancel, signal, mpc>>

\* accept fails for one connection: the listener returns LISTENER_ERROR_ACCEPT
\* and with it the whole server stops accepting.
AcceptFails(j) ==
    /\ MaxAcceptErrors > 0
    /\ lpc = "accept"
    /\ ~cancel
    /\ conn[j] = "backlog"
    /\ conn' = [conn EXCEPT ![j] = "closed"]
    /\ lpc' = "ended"
    /\ UNCHANGED <<vars, ljob, excess, job_ids, cancel, signal, mpc>>

\* pool_submit pushes the job.
ListenerPush ==
    /\ lpc = "submit"
    /\ ~cancel
    /\ Submit(Listener, ljob)
    /\ lpc' = "post"
    /\ UNCHANGED <<ljob, excess, job_ids, cancel, signal, conn, mpc>>

\* pool_submit posts jobs_available and returns.
ListenerPost ==
    /\ lpc = "post"
    /\ PostJob(Listener)
    /\ lpc' = "enqueue"
    /\ UNCHANGED <<ljob, excess, job_ids, cancel, signal, conn, mpc>>

\* How many JobIds are awaited when job_id_queue has grown to this size.
Excess(size) == IF size > HttpMaxQueueSize THEN size - size \div 2 ELSE 0

\* The JobId is pushed, then the queue's size is read.
ListenerEnqueue ==
    /\ lpc = "enqueue"
    /\ ~cancel
    /\ job_ids' = Append(job_ids, ljob)
    /\ ljob' = NoJob
    /\ excess' = Excess(Len(job_ids'))
    /\ lpc' = IF excess' > 0 THEN "drain" ELSE "poll"
    /\ UNCHANGED <<vars, cancel, signal, conn, mpc>>

\* Fault: the awaited JobId stays in the queue.
ListenerDrainKeeps ==
    /\ lpc = "drain"
    /\ ~cancel
    /\ ljob' = Head(job_ids)
    /\ AwaitJob(Listener, Head(job_ids))
    /\ lpc' = "await"
    /\ UNCHANGED <<excess, job_ids, cancel, signal, conn, mpc>>

\* The oldest JobId is popped and pool_await entered.
ListenerDrain ==
    /\ lpc = "drain"
    /\ ~cancel
    /\ ljob' = Head(job_ids)
    /\ job_ids' = Tail(job_ids)
    /\ AwaitJob(Listener, Head(job_ids))
    /\ lpc' = "await"
    /\ UNCHANGED <<excess, cancel, signal, conn, mpc>>

ListenerWake ==
    /\ lpc = "await"
    /\ ~cancel
    /\ AwaitWake(Listener)
    /\ lpc' = "free"
    /\ UNCHANGED <<ljob, excess, job_ids, cancel, signal, conn, mpc>>

ListenerFree ==
    /\ lpc = "free"
    /\ AwaitFree(Listener)
    /\ ljob' = NoJob
    /\ excess' = excess - 1
    /\ lpc' = IF excess' > 0 THEN "drain" ELSE "poll"
    /\ UNCHANGED <<job_ids, cancel, signal, conn, mpc>>

\* SIGINT is delivered to the listener in pool_await: the JobId is given up, and
\* the loop goes on with the next one.
SigIntInListenerAwait ==
    /\ lpc = "await"
    /\ ~cancel
    /\ AwaitInterrupted(Listener)
    /\ signal' = TRUE
    /\ ljob' = NoJob
    /\ excess' = excess - 1
    /\ lpc' = IF excess' > 0 THEN "drain" ELSE "poll"
    /\ UNCHANGED <<job_ids, cancel, conn, mpc>>

\* The cancellation points of the listener's loop.
CancellationPoints == {"poll", "accept", "submit", "enqueue", "drain", "await"}

\* The pending cancellation acts.
ListenerCancelled ==
    /\ cancel
    /\ lpc \in CancellationPoints
    /\ lpc' = "ended"
    /\ UNCHANGED <<vars, ljob, excess, job_ids, cancel, signal, conn, mpc>>

ListenerStep ==
    \/ PollReady
    \/ \E j \in Jobs : Accept(j)
    \/ ListenerPush \/ ListenerPost \/ ListenerEnqueue
    \/ ListenerDrain \/ ListenerWake \/ ListenerFree
    \/ ListenerCancelled

-----------------------------------------------------------------------------
(* http_socket_connection_handler, on the pool's workers.                  *)

\* A request for the shutdown route: the answer is sent, then the listener is
\* cancelled.  The handler goes on with its connection afterwards.  A request
\* that comes after the listener has been joined finds nothing to cancel.
ShutdownRequest(w) ==
    /\ HasShutdownRoute
    /\ wpc[w] = "run"
    /\ cancel' = TRUE
    /\ UNCHANGED <<vars, listenerVars, job_ids, signal, conn, mpc>>

\* The handler returns, and its connection is closed, left or handed on.
HandlerReturns(w) ==
    /\ WorkerRun(w)
    /\ \E how \in Handled : conn' = [conn EXCEPT ![wjob[w]] = how]
    /\ UNCHANGED <<listenerVars, job_ids, cancel, signal, mpc>>

\* The rest of the worker loop.
WorkerLoop(w) ==
    /\ \/ WorkerStart(w) \/ WorkerWake(w) \/ WorkerCheck(w) \/ WorkerPop(w)
       \/ WorkerDone(w) \/ WorkerBye(w) \/ WorkerExit(w)
    /\ UNCHANGED serverVars

\* SIGINT is delivered to a worker that waits for a job or for the job queue.
SigIntAtWorker(w) ==
    /\ WorkerInterrupted(w) \/ WorkerPopInterrupted(w)
    /\ signal' = TRUE
    /\ UNCHANGED <<listenerVars, job_ids, cancel, conn, mpc>>

-----------------------------------------------------------------------------
(* start_http_server.                                                      *)

PoolCreateStep ==
    /\ mpc = "start"
    /\ CreateWorker
    /\ UNCHANGED serverVars

\* pool_create fails and the server does not start.
PoolCreateFails ==
    /\ mpc = "start"
    /\ CreateFails
    /\ mpc' = "failed"
    /\ UNCHANGED <<listenerVars, job_ids, cancel, signal, conn>>

\* The pool is there; the listener thread is created and joined.
StartListener ==
    /\ mpc = "start"
    /\ phase = "open"
    /\ lpc' = "poll"
    /\ mpc' = "join"
    /\ UNCHANGED <<vars, ljob, excess, job_ids, cancel, signal, conn>>

MainJoin ==
    /\ mpc = "join"
    /\ lpc = "ended"
    /\ mpc' = "drain"
    /\ UNCHANGED <<vars, listenerVars, job_ids, cancel, signal, conn>>

MainDrain ==
    /\ mpc = "drain"
    /\ job_ids # <<>>
    /\ AwaitJob(Main, Head(job_ids))
    /\ job_ids' = Tail(job_ids)
    /\ mpc' = "await"
    /\ UNCHANGED <<listenerVars, cancel, signal, conn>>

MainWake ==
    /\ mpc = "await"
    /\ AwaitWake(Main)
    /\ UNCHANGED serverVars

MainFree ==
    /\ mpc = "await"
    /\ AwaitFree(Main)
    /\ mpc' = "drain"
    /\ UNCHANGED <<listenerVars, job_ids, cancel, signal, conn>>

\* SIGINT is delivered to the main thread in pool_await, either its own call or
\* the one for a shutdown job inside pool_destroy: it is over at once.
SigIntInMainAwait ==
    /\ mpc \in {"await", "destroy"}
    /\ AwaitInterrupted(Main)
    /\ signal' = TRUE
    /\ mpc' = IF mpc = "await" THEN "drain" ELSE mpc
    /\ UNCHANGED <<listenerVars, job_ids, cancel, conn>>

\* Nothing is left in job_id_queue: pool_destroy is called.
MainDestroy ==
    /\ mpc = "drain"
    /\ job_ids = <<>>
    /\ BeginDestroy
    /\ mpc' = "destroy"
    /\ UNCHANGED <<listenerVars, job_ids, cancel, signal, conn>>

\* The steps of pool_destroy.
MainDestroyStep ==
    /\ mpc = "destroy"
    /\ DestroyStep \/ ClientStep(Main)
    /\ UNCHANGED serverVars

\* Fault: the contexts are freed without destroying the pool first.
MainCleanupEarly ==
    /\ mpc = "drain"
    /\ mpc' = "done"
    /\ conn' = [j \in Jobs |-> IF conn[j] = "backlog" THEN "closed" ELSE conn[j]]
    /\ UNCHANGED <<vars, listenerVars, job_ids, cancel, signal>>

\* The queue is destroyed, the socket closed (with what is in its backlog), and
\* contexts, managers, options and global data are freed.
MainCleanup ==
    /\ mpc = "destroy"
    /\ phase = "destroyed"
    /\ mpc' = "done"
    /\ conn' = [j \in Jobs |-> IF conn[j] = "backlog" THEN "closed" ELSE conn[j]]
    /\ UNCHANGED <<vars, listenerVars, job_ids, cancel, signal>>

MainStep ==
    \/ PoolCreateStep \/ StartListener \/ MainJoin
    \/ MainDrain \/ MainWake \/ MainFree
    \/ MainDestroy \/ MainDestroyStep \/ MainCleanup

ServerStopped ==
    /\ mpc \in {"done", "failed"}
    /\ UNCHANGED allVars

ServerNext ==
    \/ \E j \in Jobs : Connect(j) \/ AcceptFails(j)
    \/ SigIntElsewhere \/ SigIntInPoll \/ SigIntInListenerAwait \/ SigIntInMainAwait
    \/ ListenerStep \/ PollTimeout
    \/ \E w \in Workers :
          ShutdownRequest(w) \/ HandlerReturns(w) \/ WorkerLoop(w) \/ SigIntAtWorker(w)
    \/ MainStep \/ PoolCreateFails
    \/ ServerStopped

ServerSpec == ServerInit /\ [][ServerNext]_allVars

\* Threads are scheduled and handlers return; nobody is obliged to connect, to
\* ask for the shutdown or to send a signal.
ServerFairness ==
    /\ WF_allVars(ListenerStep)
    /\ WF_allVars(MainStep)
    /\ \A w \in Workers : WF_allVars(HandlerReturns(w) \/ WorkerLoop(w))

FairServerSpec == ServerSpec /\ ServerFairness

-----------------------------------------------------------------------------
(* Properties.                                                             *)

\* Every variable keeps the type its declaration gives it.
ServerTypeOK ==
    /\ TypeOK
    /\ lpc \in {"none", "poll", "accept", "submit", "post", "enqueue", "drain", "await",
                "free", "ended"}
    /\ ljob \in Jobs \cup {NoJob}
    /\ excess \in Nat
    /\ job_ids \in Seq(Jobs)
    /\ cancel \in BOOLEAN /\ signal \in BOOLEAN
    /\ conn \in [Jobs -> {"none", "backlog", "open"} \cup Handled]
    /\ mpc \in {"start", "failed", "join", "drain", "await", "destroy", "done"}

\* job_id_queue never holds more than one JobId above HTTP_MAX_QUEUE_SIZE,
\* however fast connections arrive and however long their handlers run.
JobIdQueueBounded == Len(job_ids) <= HttpMaxQueueSize + 1

\* Every JobId in job_id_queue still belongs to a live descriptor and is there
\* once: neither the listener's shortening of the queue nor the main thread's
\* draining awaits a job twice.
JobIdsLive ==
    /\ \A i \in 1..Len(job_ids) : mem[job_ids[i]] = "live" /\ job_ids[i] \in handles
    /\ \A i, k \in 1..Len(job_ids) : job_ids[i] = job_ids[k] => i = k

\* The queue of JobIds is what its two users, the listener and the main thread,
\* rely on: well formed, bounded, and only of jobs that can still be awaited.
JobIdQueueInv == ServerTypeOK /\ JobIdQueueBounded /\ JobIdsLive

\* Contexts, routes and web socket manager outlive the handlers that use them,
\* and every job that was submitted has been finished by then, also when the
\* await of a shutdown job was interrupted; only signals that end every worker
\* leave jobs behind.
ResourcesOutliveHandlers ==
    mpc = "done" =>
        /\ \A w \in Workers : wpc[w] \in {"exited", "failed"}
        /\ \A j \in Jobs : mem[j] # "none" =>
              Deserted \/ (ran[j] = 1 /\ conn[j] \in Handled)

\* "you need to pool_await every job_id before calling pool_destroy": when the
\* main thread enters pool_destroy, every submitted job has been awaited.
AwaitedBeforeDestroy ==
    mpc = "destroy" => \A j \in Jobs : mem[j] \in {"none", "freed"}

\* The same with its two exceptions: a shutdown request may cancel the listener
\* with a JobId in its hands, and a SIGINT may interrupt the pool_await of a
\* JobId.  Nothing else, in particular no order of accepting, shortening the
\* queue and draining it, makes the server forget a job.
AwaitedOrGivenUp ==
    mpc = "destroy" /\ ~cancel =>
        \A j \in Jobs : mem[j] \in {"none", "freed"} \/ j \in dropped

\* The end of the server is orderly: the main thread has awaited what it can
\* before pool_destroy, and releases nothing that a handler still uses.
OrderlyEnd == AwaitedOrGivenUp /\ ResourcesOutliveHandlers

\* A shutdown request stops the listener, and once the listener has ended, for
\* whatever reason, the whole server ends.
ServerEnds ==
    /\ cancel ~> (lpc = "ended")
    /\ (lpc = "ended") ~> (mpc = "done" \/ WorkerLost)

\* Every accepted connection gets a handler that runs to its end, unless the
\* listener is cancelled with the connection in its hands.
AcceptedIsServed ==
    \A j \in Jobs :
        (conn[j] = "open") ~> (conn[j] \in Handled \/ cancel \/ WorkerLost)

\* SIGINT ends the server without any further help: "it aborts on POLLIN from
\* the socket_fd or the signalFd".
SigIntEndsServer == (signal /\ mpc # "failed") ~> (mpc = "done")
=============================================================================
