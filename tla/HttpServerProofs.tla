-------------------------- MODULE HttpServerProofs --------------------------
(***************************************************************************)
(* Proofs about ThreadPool and HttpServer, for any number of workers,      *)
(* clients, jobs and connections and any HTTP_MAX_QUEUE_SIZE.  Every step  *)
(* of the server is a step of the pool or leaves it alone, so the pool's   *)
(* invariant, the first half of this module, holds in the server too.      *)
(***************************************************************************)
EXTENDS HttpServer, FiniteSetTheorems, TLAPS

-----------------------------------------------------------------------------
(* The thread pool.                                                        *)

\* What the type invariant needs beside itself: the loop variable of
\* pool_create and pool_destroy stays below N while a round is in progress, and
\* only the thread in pool_destroy is ever busy with a shutdown descriptor, and
\* a worker holds a descriptor of the right kind exactly while it handles one.
CallInv ==
    /\ phase = "create" => count < N /\ \A w \in Workers : w > count => wpc[w] = "none"
    /\ \A c \in Clients : cpc[c] = "out" <=> cjob[c] = NoJob
    /\ \A c \in Clients : cjob[c] \in Workers =>
          c = Destroyer /\ phase = "shutdown" /\ count < N
    /\ \A w \in Workers :
          IF wpc[w] \in {"run", "done"} THEN wjob[w] \in Jobs
          ELSE IF wpc[w] = "bye" THEN wjob[w] \in Workers
          ELSE wjob[w] = NoJob

TypeInv == TypeOK /\ CallInv

\* A pool whose pool_create has not begun satisfies the invariant.
LEMMA InitTypeInv == Init => TypeInv
  BY PoolAssumption DEF Init, TypeInv, TypeOK, CallInv, JobIds, Workers

\* Every step of a client, a worker and the pool's owner preserves it.
LEMMA NextTypeInv == TypeInv /\ [Next]_vars => TypeInv'
<1> SUFFICES ASSUME TypeInv, [Next]_vars PROVE TypeInv'
  OBVIOUS
<1> USE PoolAssumption DEF TypeInv, TypeOK, CallInv, jobVars, workerVars,
        clientVars, poolVars
<1> Workers \subseteq JobIds /\ Jobs \subseteq JobIds /\ NoJob \notin Workers
  BY DEF JobIds
<1>1. CASE CreateWorker
  <2>0. count \in Nat /\ count < N /\ count + 1 \in Workers /\ count + 1 > count
    BY <1>1 DEF CreateWorker, Workers
  <2>1. count \in Nat /\ count < N /\ count + 1 \in Workers /\ wjob[count + 1] = NoJob
    <3>1. wpc[count + 1] = "none"
      BY <1>1, <2>0 DEF CreateWorker
    <3> QED
      BY <2>0, <3>1
  <2>2. phase' \in {"open", "create"} /\ count' \in 0..N
    BY <1>1, <2>1 DEF CreateWorker
  <2>3. TypeOK'
    BY <1>1, <2>1, <2>2 DEF CreateWorker
  <2>4. phase' = "create" => count' < N /\ \A w \in Workers : w > count' => wpc'[w] = "none"
    BY <1>1, <2>1 DEF CreateWorker, Workers
  <2>5. \A w \in Workers : IF wpc'[w] \in {"run", "done"} THEN wjob'[w] \in Jobs
                           ELSE IF wpc'[w] = "bye" THEN wjob'[w] \in Workers
                           ELSE wjob'[w] = NoJob
    BY <1>1, <2>1 DEF CreateWorker
  <2>6. \A c \in Clients : cjob[c] \notin Workers
    BY <1>1 DEF CreateWorker
  <2> QED
    BY <1>1, <2>3, <2>4, <2>5, <2>6 DEF CreateWorker
<1>2. CASE CreateFails
  BY <1>2 DEF CreateFails
<1>3. ASSUME NEW c \in Clients, NEW j \in JobIds, PushJob(c, j),
             j \in Workers => c = Destroyer /\ phase = "shutdown" /\ count < N
      PROVE  TypeInv'
  BY <1>3 DEF PushJob
<1>4. ASSUME NEW c \in Clients, NEW j \in Jobs, Submit(c, j) PROVE TypeInv'
  BY <1>3, <1>4 DEF Submit
<1>5. ASSUME NEW c \in Clients, NEW j \in handles, AwaitJob(c, j) PROVE TypeInv'
  BY <1>5 DEF AwaitJob
<1>6. ASSUME NEW c \in Clients, PostJob(c) \/ PostShutdownJob(c) PROVE TypeInv'
  <2>1. CASE PostJob(c)
    <3>1. cjob[c] \in Jobs
      BY <2>1 DEF PostJob, JobIds
    <3> QED
      BY <2>1, <3>1 DEF PostJob
  <2>2. CASE PostShutdownJob(c)
    BY <2>2 DEF PostShutdownJob
  <2> QED
    BY <1>6, <2>1, <2>2
<1>7. ASSUME NEW c \in Clients, AwaitWake(c) PROVE TypeInv'
  BY <1>7 DEF AwaitWake
<1>8. ASSUME NEW c \in Clients, AwaitFree(c) PROVE TypeInv'
  BY <1>8 DEF AwaitFree
<1>16. ASSUME NEW c \in Clients, AwaitInterrupted(c) PROVE TypeInv'
  <2>1. cjob[c] \in JobIds
    BY <1>16 DEF AwaitInterrupted
  <2>2. interrupts' \in 0..MaxInterrupts /\ count' \in 0..N /\ dropped' \subseteq JobIds
    BY <1>16, <2>1 DEF AwaitInterrupted
  <2> QED
    BY <1>16, <2>1, <2>2 DEF AwaitInterrupted
<1>9. ASSUME NEW w \in Workers,
             WorkerStep(w) \/ WorkerInterrupted(w) \/ WorkerPopInterrupted(w)
      PROVE  TypeInv'
  <2>1. CASE WorkerStart(w)
    BY <2>1 DEF WorkerStart
  <2>2. CASE WorkerWake(w)
    BY <2>2 DEF WorkerWake
  <2>3. CASE WorkerCheck(w)
    BY <2>3 DEF WorkerCheck
  <2>4. CASE WorkerPop(w)
    <3>1. CASE queue = <<>>
      BY <2>4, <3>1 DEF WorkerPop
    <3>2. CASE queue # <<>>
      <4>1. Head(queue) \in JobIds /\ Tail(queue) \in Seq(JobIds)
        BY <3>2
      <4>2. CASE Head(queue) \in Workers
        BY <2>4, <3>2, <4>1, <4>2 DEF WorkerPop, Dispatch
      <4>3. CASE Head(queue) \in Jobs
        BY <2>4, <3>2, <4>1, <4>3 DEF WorkerPop, Dispatch
      <4> QED
        BY <4>1, <4>2, <4>3 DEF JobIds
    <3> QED
      BY <3>1, <3>2
  <2>5. CASE WorkerRun(w)
    BY <2>5 DEF WorkerRun
  <2>6. CASE WorkerDone(w)
    BY <2>6 DEF WorkerDone
  <2>7. CASE WorkerBye(w)
    BY <2>7 DEF WorkerBye
  <2>8. CASE WorkerExit(w)
    BY <2>8 DEF WorkerExit
  <2>9. CASE WorkerInterrupted(w)
    BY <2>9 DEF WorkerInterrupted
  <2>10. CASE WorkerPopInterrupted(w)
    BY <2>10 DEF WorkerPopInterrupted
  <2> QED
    BY <1>9, <2>1, <2>2, <2>3, <2>4, <2>5, <2>6, <2>7, <2>8, <2>9, <2>10 DEF WorkerStep
<1>10. CASE BeginDestroy
  BY <1>10 DEF BeginDestroy
<1>11. CASE DestroyRound
  <2>1. count + 1 \in Workers
    BY <1>11 DEF DestroyRound, Workers
  <2> QED
    BY <1>3, <1>11, <2>1 DEF DestroyRound
<1>12. CASE BeginJoin
  BY <1>12 DEF BeginJoin
<1>13. CASE JoinWorker
  BY <1>13 DEF JoinWorker
<1>14. CASE ReleasePool
  BY <1>14 DEF ReleasePool
<1>15. CASE UNCHANGED vars
  BY <1>15 DEF vars
<1> QED
  BY <1>1, <1>2, <1>4, <1>5, <1>6, <1>7, <1>8, <1>9, <1>10, <1>11, <1>12, <1>13,
     <1>14, <1>15, <1>16 DEF Next, ClientStep, DestroyStep, Stopped

\* Every variable of the pool keeps its type in every behaviour: no semaphore
\* is taken below zero, and the loops of pool_create and pool_destroy stay
\* within the worker array.
THEOREM TypeCorrect == Spec => []TypeOK
<1>1. TypeInv => TypeOK
  BY DEF TypeInv
<1> QED
  BY InitTypeInv, NextTypeInv, <1>1, PTL DEF Spec

-----------------------------------------------------------------------------
(* The queue is never empty when a worker looks into it.  The invariant    *)
(* needed counts tickets: every queued descriptor is paid for by one unit  *)
(* of jobs_available, by a client that has pushed and not yet posted, or   *)
(* by a worker that has taken a unit and not yet popped, or died in the    *)
(* attempt.                                                                *)

Posting  == {c \in Clients : cpc[c] = "post"}
Claiming == {w \in Workers : wpc[w] \in {"check", "pop", "crash"}}

Balance ==
    /\ Len(queue) = jobs_available + Cardinality(Posting) + Cardinality(Claiming)
    /\ \A w \in Workers : wpc[w] # "abort"

\* The threads that hold a ticket can be counted.
LEMMA FiniteTickets ==
    /\ IsFiniteSet(Posting) /\ Cardinality(Posting) \in Nat
    /\ IsFiniteSet(Claiming) /\ Cardinality(Claiming) \in Nat
<1>1. IsFiniteSet(Workers)
  BY PoolAssumption, FS_Interval DEF Workers
<1>2. IsFiniteSet(Posting) /\ IsFiniteSet(Claiming)
  BY <1>1, PoolAssumption, FS_Subset DEF Posting, Claiming
<1> QED
  BY <1>2, FS_CardinalityType

\* A worker that has taken a unit of jobs_available finds the queue non-empty.
LEMMA ClaimImpliesQueued ==
    ASSUME TypeOK, Balance, NEW w \in Workers, wpc[w] \in {"check", "pop"}
    PROVE  Len(queue) > 0 /\ queue # <<>>
<1>1. w \in Claiming
  BY DEF Claiming
<1>2. Cardinality(Claiming) # 0
  BY <1>1, FiniteTickets, FS_EmptySet
<1>3. Len(queue) > 0
  BY <1>2, FiniteTickets DEF TypeOK, Balance
<1> QED
  BY <1>3

\* Before pool_create nothing is queued and nobody holds a ticket.
LEMMA InitBalance == Init => Balance
<1> SUFFICES ASSUME Init PROVE Balance
  OBVIOUS
<1>1. Posting = {} /\ Claiming = {}
  BY DEF Init, Posting, Claiming
<1> QED
  BY <1>1, FS_EmptySet DEF Init, Balance

\* Every step moves a ticket along with its descriptor, or neither.
LEMMA NextBalance == TypeInv /\ Balance /\ [Next]_vars => Balance'
<1> SUFFICES ASSUME TypeInv, Balance, [Next]_vars PROVE Balance'
  OBVIOUS
<1>0. TypeOK
  BY DEF TypeInv
<1>a. ASSUME Posting' = Posting, Claiming' = Claiming, UNCHANGED <<queue, jobs_available>>,
             \A w \in Workers : wpc'[w] # "abort"
      PROVE  Balance'
  BY <1>a DEF Balance
<1> USE DEF jobVars, workerVars, clientVars, poolVars
<1>1. CASE CreateWorker
  <2>1. Claiming' = Claiming /\ \A w \in Workers : wpc'[w] # "abort"
    <3>1. count + 1 \in Workers /\ wpc[count + 1] = "none"
      BY <1>1, PoolAssumption DEF CreateWorker, TypeInv, TypeOK, CallInv, Workers
    <3> QED
      BY <1>0, <1>1, <3>1 DEF CreateWorker, Claiming, TypeOK, Balance
  <2> QED
    BY <1>a, <1>1, <2>1 DEF CreateWorker, Posting
<1>2. CASE CreateFails \/ BeginDestroy \/ BeginJoin \/ JoinWorker \/ ReleasePool
  BY <1>a, <1>2 DEF CreateFails, BeginDestroy, BeginJoin, JoinWorker, ReleasePool,
     Posting, Claiming, Balance
<1>3. ASSUME NEW c \in Clients, NEW j \in JobIds, PushJob(c, j) PROVE Balance'
  <2>1. Posting' = Posting \cup {c} /\ c \notin Posting
    BY <1>0, <1>3 DEF PushJob, Posting, TypeOK
  <2>2. Cardinality(Posting') = Cardinality(Posting) + 1
    BY <2>1, FiniteTickets, FS_AddElement
  <2>3. Claiming' = Claiming /\ UNCHANGED <<wpc, jobs_available>>
    BY <1>3 DEF PushJob, Claiming
  <2>4. Len(queue') = Len(queue) + 1
    BY <1>0, <1>3 DEF PushJob, TypeOK
  <2> QED
    BY <1>0, <2>2, <2>3, <2>4, FiniteTickets DEF Balance, TypeOK
<1>4. ASSUME NEW c \in Clients, PostJob(c) \/ PostShutdownJob(c) PROVE Balance'
  <2>1. Posting' = Posting \ {c} /\ c \in Posting
    BY <1>0, <1>4 DEF PostJob, PostShutdownJob, Posting, TypeOK
  <2>2. Cardinality(Posting') = Cardinality(Posting) - 1
    BY <2>1, FiniteTickets, FS_RemoveElement
  <2>3. Claiming' = Claiming /\ UNCHANGED <<wpc, queue>> /\ jobs_available' = jobs_available + 1
    BY <1>4 DEF PostJob, PostShutdownJob, Claiming
  <2> QED
    BY <1>0, <2>2, <2>3, FiniteTickets DEF Balance, TypeOK
<1>5. ASSUME NEW c \in Clients, AwaitWake(c) \/ AwaitFree(c) \/ AwaitInterrupted(c)
      PROVE  Balance'
  <2>1. Posting' = Posting
    BY <1>0, <1>5 DEF AwaitWake, AwaitFree, AwaitInterrupted, Posting, TypeOK
  <2> QED
    BY <1>a, <1>5, <2>1 DEF AwaitWake, AwaitFree, AwaitInterrupted, Claiming, Balance
<1>6. ASSUME NEW c \in Clients, NEW j \in handles, AwaitJob(c, j) PROVE Balance'
  <2>1. Posting' = Posting
    BY <1>0, <1>6 DEF AwaitJob, Posting, TypeOK
  <2> QED
    BY <1>a, <1>6, <2>1 DEF AwaitJob, Claiming, Balance
<1>7. ASSUME NEW w \in Workers, WorkerWake(w) PROVE Balance'
  <2>1. Claiming' = Claiming \cup {w} /\ w \notin Claiming
    BY <1>0, <1>7 DEF WorkerWake, Claiming, TypeOK
  <2>2. Cardinality(Claiming') = Cardinality(Claiming) + 1
    BY <2>1, FiniteTickets, FS_AddElement
  <2>3. /\ Posting' = Posting /\ UNCHANGED queue
        /\ jobs_available > 0 /\ jobs_available' = jobs_available - 1
    BY <1>7 DEF WorkerWake, Posting
  <2>4. \A v \in Workers : wpc'[v] # "abort"
    BY <1>0, <1>7 DEF WorkerWake, TypeOK, Balance
  <2>5. jobs_available \in Nat /\ Len(queue) = jobs_available + Cardinality(Posting) + Cardinality(Claiming)
    BY <1>0 DEF Balance, TypeOK
  <2>6. Len(queue') = jobs_available' + Cardinality(Posting') + Cardinality(Claiming')
    BY <2>2, <2>3, <2>5, FiniteTickets
  <2> QED
    BY <2>4, <2>6 DEF Balance
<1>8. ASSUME NEW w \in Workers, WorkerCheck(w) PROVE Balance'
  <2>1. queue # <<>>
    BY <1>0, <1>8, ClaimImpliesQueued DEF WorkerCheck
  <2>2. Claiming' = Claiming /\ \A v \in Workers : wpc'[v] # "abort"
    BY <1>0, <1>8, <2>1 DEF WorkerCheck, Claiming, TypeOK, Balance
  <2> QED
    BY <1>a, <1>8, <2>2 DEF WorkerCheck, Posting
<1>9. ASSUME NEW w \in Workers, WorkerPop(w) PROVE Balance'
  <2>1. queue # <<>> /\ Len(queue) > 0
    BY <1>0, <1>9, ClaimImpliesQueued DEF WorkerPop
  <2>2. wpc' = [wpc EXCEPT ![w] = Dispatch(Head(queue))] /\ queue' = Tail(queue)
    BY <1>9, <2>1 DEF WorkerPop
  <2>3. Dispatch(Head(queue)) \in {"bye", "run"}
    BY DEF Dispatch
  <2>4. Claiming' = Claiming \ {w} /\ w \in Claiming /\ \A v \in Workers : wpc'[v] # "abort"
    BY <1>0, <1>9, <2>2, <2>3 DEF WorkerPop, Claiming, TypeOK, Balance
  <2>5. Cardinality(Claiming') = Cardinality(Claiming) - 1
    BY <2>4, FiniteTickets, FS_RemoveElement
  <2>6. Len(queue') = Len(queue) - 1
    BY <1>0, <2>1, <2>2 DEF TypeOK
  <2>7. Posting' = Posting /\ UNCHANGED jobs_available
    BY <1>9 DEF WorkerPop, Posting
  <2> QED
    BY <1>0, <2>4, <2>5, <2>6, <2>7, FiniteTickets DEF Balance, TypeOK
<1>10. ASSUME NEW w \in Workers,
              \/ WorkerStart(w) \/ WorkerRun(w) \/ WorkerDone(w)
              \/ WorkerBye(w) \/ WorkerExit(w) \/ WorkerInterrupted(w)
              \/ WorkerPopInterrupted(w)
       PROVE Balance'
  <2>1. /\ Claiming' = Claiming /\ \A v \in Workers : wpc'[v] # "abort"
        /\ UNCHANGED <<queue, jobs_available, cpc>>
    BY <1>0, <1>10 DEF WorkerStart, WorkerRun, WorkerDone, WorkerBye, WorkerExit,
       WorkerInterrupted, WorkerPopInterrupted, Claiming, TypeOK, Balance
  <2> QED
    BY <1>a, <2>1 DEF Posting
<1>11. CASE UNCHANGED vars
  BY <1>a, <1>11 DEF vars, Posting, Claiming, Balance
<1>12. ASSUME NEW c \in Clients, NEW j \in Jobs, Submit(c, j) PROVE Balance'
  BY <1>3, <1>12 DEF Submit, JobIds
<1>13. CASE DestroyRound
  <2>1. count + 1 \in JobIds
    BY <1>13, PoolAssumption DEF DestroyRound, TypeInv, TypeOK, JobIds, Workers
  <2> QED
    BY <1>3, <1>13, <2>1, PoolAssumption DEF DestroyRound
<1> QED
  BY <1>1, <1>2, <1>4, <1>5, <1>6, <1>7, <1>8, <1>9, <1>10, <1>11, <1>12, <1>13
     DEF Next, ClientStep, WorkerStep, DestroyStep, Stopped

\* The exit of the worker loop on an empty queue and the assertion in
\* tqueue_pop are dead code, for any number of workers, clients and jobs and
\* also when signals kill workers.
THEOREM QueueNeverEmpty == Spec => []NeverEmptyAfterWait
<1>1. TypeInv /\ Balance => NeverEmptyAfterWait
  BY ClaimImpliesQueued DEF TypeInv, Balance, NeverEmptyAfterWait
<1> QED
  BY InitTypeInv, NextTypeInv, InitBalance, NextBalance, <1>1, PTL DEF Spec

-----------------------------------------------------------------------------
(* The life of a job descriptor: none is used after pool_await freed it,   *)
(* every job runs exactly once before the pool is gone, and the pool       *)
(* implements JobPool.                                                     *)

Queued(j) == \E i \in 1..Len(queue) : queue[i] = j
Held(j)   == \E w \in Workers : wjob[w] = j

\* Nobody but the caller of pool_await refers to j any more, and its result
\* is there.
Finished(j) == ~Queued(j) /\ ~Held(j) /\ (j \in Jobs => ran[j] = 1)

\* The queue holds each descriptor once, before its job has run.
QueuedInv ==
    /\ \A i, k \in 1..Len(queue) : queue[i] = queue[k] => i = k
    /\ \A i \in 1..Len(queue) :
          mem[queue[i]] = "live" /\ status[queue[i]] = 0 /\ ran[queue[i]] = 0

\* A descriptor belongs to one worker from the pop to the post of its status.
HeldInv ==
    /\ \A v, w \in Workers : wjob[v] = wjob[w] /\ wjob[w] # NoJob => v = w
    /\ \A w \in Workers : wjob[w] # NoJob =>
          /\ mem[wjob[w]] = "live" /\ status[wjob[w]] = 0
          /\ ran[wjob[w]] = IF wpc[w] = "done" THEN 1 ELSE 0
          /\ ~Queued(wjob[w])

\* A descriptor belongs to one caller: the thread inside pool_submit or
\* pool_await, or whoever keeps its JobId.
CalledInv ==
    /\ \A c, d \in Clients : cjob[c] = cjob[d] /\ cjob[d] # NoJob => c = d
    /\ \A c \in Clients : cjob[c] # NoJob => mem[cjob[c]] = "live" /\ cjob[c] \notin handles
    /\ \A j \in handles : mem[j] = "live"
    /\ \A c \in Clients : cpc[c] = "free" => status[cjob[c]] = 0 /\ Finished(cjob[c])

\* What the semaphore and the memory of a descriptor say about its job.
LifeInv ==
    \A j \in JobIds :
        /\ mem[j] = "none" => status[j] = 0 /\ ran[j] = 0
        /\ mem[j] = "freed" => status[j] = 0 /\ (j \in Jobs => ran[j] = 1)
        /\ status[j] \in {0, 1}
        /\ status[j] = 1 => (j \in Jobs => ran[j] = 1)
        /\ mem[j] = "live" =>
              \/ Queued(j) \/ Held(j) \/ status[j] = 1
              \/ \E c \in Clients : cpc[c] = "free" /\ cjob[c] = j

OwnInv == QueuedInv /\ HeldInv /\ CalledInv /\ LifeInv

\* Before pool_create there is no descriptor.
LEMMA InitOwn == Init => OwnInv
<1> SUFFICES ASSUME Init PROVE OwnInv
  OBVIOUS
<1> USE DEF Init
<1>1. Len(queue) = 0
  OBVIOUS
<1>2. QueuedInv /\ HeldInv
  BY <1>1 DEF QueuedInv, HeldInv
<1>3. CalledInv /\ LifeInv
  BY <1>1 DEF CalledInv, LifeInv
<1> QED
  BY <1>2, <1>3 DEF OwnInv

\* Every step hands a descriptor on from one owner to the next.
LEMMA NextOwn == TypeInv /\ OwnInv /\ [Next]_vars => OwnInv'
<1> SUFFICES ASSUME TypeInv, OwnInv, [Next]_vars PROVE OwnInv'
  OBVIOUS
<1>0. TypeOK /\ CallInv /\ QueuedInv /\ HeldInv /\ CalledInv /\ LifeInv
  BY DEF TypeInv, OwnInv
<1>w. Workers \subseteq JobIds /\ Jobs \subseteq JobIds /\ NoJob \notin JobIds
  BY PoolAssumption DEF JobIds
<1>q. \A i \in 1..Len(queue) : queue[i] \in JobIds
  BY <1>0 DEF TypeOK
<1> USE DEF jobVars, workerVars, clientVars, poolVars
<1>1. CASE CreateWorker
  <2>1. count + 1 \in Workers /\ wpc[count + 1] = "none" /\ wjob[count + 1] = NoJob
    <3>1. count + 1 \in Workers /\ count + 1 > count
      BY <1>0, <1>1, PoolAssumption DEF CreateWorker, TypeOK, CallInv, Workers
    <3>2. wpc[count + 1] = "none"
      BY <1>0, <1>1, <3>1 DEF CreateWorker, CallInv
    <3> QED
      BY <1>0, <3>1, <3>2 DEF CallInv
  <2>2. HeldInv'
    BY <1>0, <1>1, <2>1 DEF CreateWorker, HeldInv, TypeOK, Queued
  <2> QED
    BY <1>0, <1>1, <2>2 DEF CreateWorker, OwnInv, QueuedInv, CalledInv, LifeInv,
       Finished, Queued, Held
<1>2. CASE CreateFails \/ BeginDestroy \/ BeginJoin \/ JoinWorker \/ ReleasePool
  BY <1>0, <1>2 DEF CreateFails, BeginDestroy, BeginJoin, JoinWorker, ReleasePool, OwnInv,
     QueuedInv, HeldInv, CalledInv, LifeInv, Finished, Queued, Held
<1>3. ASSUME NEW c \in Clients, NEW j \in JobIds, PushJob(c, j) PROVE OwnInv'
  <2>1. /\ mem[j] = "none" /\ mem' = [mem EXCEPT ![j] = "live"]
        /\ status[j] = 0 /\ ran[j] = 0 /\ UNCHANGED <<status, ran, wpc, wjob, handles>>
        /\ cjob[c] = NoJob
        /\ cpc' = [cpc EXCEPT ![c] = "post"] /\ cjob' = [cjob EXCEPT ![c] = j]
    BY <1>0, <1>3 DEF PushJob, LifeInv, CallInv
  <2>2. /\ Len(queue') = Len(queue) + 1 /\ Len(queue) \in Nat /\ queue'[Len(queue) + 1] = j
        /\ \A i \in 1..Len(queue) : queue'[i] = queue[i]
    BY <1>0, <1>3 DEF PushJob, TypeOK
  <2>3. ~Queued(j) /\ ~Held(j) /\ (\A d \in Clients : cjob[d] # j) /\ j \notin handles
    BY <1>0, <1>w, <2>1 DEF QueuedInv, HeldInv, CalledInv, Queued, Held
  <2>4. \A k : Queued(k)' <=> (Queued(k) \/ k = j)
    BY <2>2 DEF Queued
  <2>5. \A k : Held(k)' <=> Held(k)
    BY <2>1 DEF Held
  <2>6. QueuedInv'
    <3>1. \A i \in 1..Len(queue) : queue'[i] \in JobIds /\ queue'[i] # j
      BY <1>q, <2>2, <2>3 DEF Queued
    <3>2. \A i \in 1..Len(queue') : i \in 1..Len(queue) \/ i = Len(queue) + 1
      BY <2>2
    <3>3. \A i, k \in 1..Len(queue') : queue'[i] = queue'[k] => i = k
      BY <1>0, <2>2, <3>1, <3>2 DEF QueuedInv
    <3>4. \A i \in 1..Len(queue') :
             mem'[queue'[i]] = "live" /\ status'[queue'[i]] = 0 /\ ran'[queue'[i]] = 0
      <4>1. \A i \in 1..Len(queue) : mem'[queue[i]] = "live" /\ queue'[i] = queue[i]
        BY <1>0, <2>1, <2>2, <3>1 DEF QueuedInv, TypeOK
      <4>2. mem'[j] = "live"
        BY <1>0, <2>1 DEF TypeOK
      <4> QED
        BY <1>0, <2>1, <2>2, <3>2, <4>1, <4>2 DEF QueuedInv
    <3> QED
      BY <3>3, <3>4 DEF QueuedInv
  <2>7. HeldInv'
    BY <1>0, <2>1, <2>3, <2>4 DEF HeldInv, Held, TypeOK
  <2>8. CalledInv'
    BY <1>0, <1>w, <2>1, <2>3, <2>4, <2>5 DEF CalledInv, Finished, TypeOK
  <2>9. LifeInv'
    BY <1>0, <2>1, <2>4, <2>5 DEF LifeInv, TypeOK, CallInv
  <2> QED
    BY <2>6, <2>7, <2>8, <2>9 DEF OwnInv
<1>4. ASSUME NEW c \in Clients, NEW j \in Jobs, Submit(c, j) PROVE OwnInv'
  BY <1>3, <1>4 DEF Submit, JobIds
<1>5. CASE DestroyRound
  <2>1. count + 1 \in JobIds
    BY <1>0, <1>5, PoolAssumption DEF DestroyRound, TypeOK, JobIds, Workers
  <2> QED
    BY <1>3, <1>5, <2>1, PoolAssumption DEF DestroyRound
<1>6. ASSUME NEW c \in Clients, UNCHANGED <<queue, mem, status, ran, wpc, wjob>>,
             CalledInv', \A d \in Clients : cpc[d] = "free" => cpc'[d] = "free" /\ cjob'[d] = cjob[d]
      PROVE  OwnInv'
  <2>1. LifeInv'
    BY <1>0, <1>6 DEF LifeInv, Queued, Held
  <2> QED
    BY <1>0, <1>6, <2>1 DEF OwnInv, QueuedInv, HeldInv, Queued, Held
<1>7. ASSUME NEW c \in Clients, PostJob(c) PROVE OwnInv'
  <2>1. cjob[c] # NoJob
    BY <1>0, <1>7 DEF PostJob, CallInv
  <2>2. CalledInv'
    BY <1>0, <1>7, <2>1 DEF PostJob, CalledInv, Finished, Queued, Held, TypeOK
  <2> QED
    BY <1>0, <1>6, <1>7, <2>2 DEF PostJob, TypeOK
<1>8. ASSUME NEW c \in Clients, PostShutdownJob(c) PROVE OwnInv'
  <2>2. CalledInv'
    BY <1>0, <1>8 DEF PostShutdownJob, CalledInv, Finished, Queued, Held, TypeOK
  <2> QED
    BY <1>0, <1>6, <1>8, <2>2 DEF PostShutdownJob, TypeOK
<1>9. ASSUME NEW c \in Clients, NEW j \in handles, AwaitJob(c, j) PROVE OwnInv'
  <2>1. cjob[c] = NoJob
    BY <1>0, <1>9 DEF AwaitJob, CallInv
  <2>2. CalledInv'
    BY <1>0, <1>9, <2>1 DEF AwaitJob, CalledInv, Finished, Queued, Held, TypeOK
  <2> QED
    BY <1>0, <1>6, <1>9, <2>2 DEF AwaitJob, TypeOK
<1>10. ASSUME NEW c \in Clients, AwaitWake(c) PROVE OwnInv'
  <2> DEFINE j == cjob[c]
  <2>1. j \in JobIds /\ j # NoJob
    BY <1>0, <1>10 DEF AwaitWake, CallInv, TypeOK
  <2>2. /\ status[j] = 1 /\ status' = [status EXCEPT ![j] = 0] /\ cpc' = [cpc EXCEPT ![c] = "free"]
        /\ UNCHANGED <<queue, mem, ran, wpc, wjob, cjob, handles>>
    <3>1. status[j] \in {0, 1} /\ status[j] > 0
      BY <1>0, <1>10, <2>1 DEF AwaitWake, LifeInv
    <3>2. status[j] = 1 /\ status[j] - 1 = 0
      BY <3>1
    <3> QED
      BY <1>10, <3>2 DEF AwaitWake
  <2>3. Finished(j) /\ mem[j] = "live"
    BY <1>0, <2>1, <2>2 DEF Finished, Queued, Held, QueuedInv, HeldInv, LifeInv, CalledInv
  <2> HIDE DEF j
  <2>4. QueuedInv' /\ HeldInv'
    BY <1>0, <2>2, <2>3 DEF QueuedInv, HeldInv, Finished, Queued, Held, TypeOK
  <2>5. CalledInv'
    BY <1>0, <2>1, <2>2, <2>3 DEF CalledInv, Finished, Queued, Held, TypeOK, CallInv, j
  <2>6. LifeInv'
    <3> SUFFICES ASSUME NEW k \in JobIds
                 PROVE  /\ mem[k] = "none" => status'[k] = 0 /\ ran[k] = 0
                        /\ mem[k] = "freed" => status'[k] = 0 /\ (k \in Jobs => ran[k] = 1)
                        /\ status'[k] \in {0, 1}
                        /\ status'[k] = 1 => (k \in Jobs => ran[k] = 1)
                        /\ mem[k] = "live" =>
                              \/ Queued(k) \/ Held(k) \/ status'[k] = 1
                              \/ \E d \in Clients : cpc'[d] = "free" /\ cjob[d] = k
      BY <2>2 DEF LifeInv, Queued, Held
    <3> QED
      BY <1>0, <2>2, <2>3 DEF LifeInv, TypeOK, j
  <2> QED
    BY <2>4, <2>5, <2>6 DEF OwnInv
<1>11. ASSUME NEW c \in Clients, AwaitFree(c) PROVE OwnInv'
  <2> DEFINE j == cjob[c]
  <2>1. j \in JobIds /\ j # NoJob
    BY <1>0, <1>11 DEF AwaitFree, CallInv, TypeOK
  <2>2. /\ mem' = [mem EXCEPT ![j] = "freed"] /\ cpc' = [cpc EXCEPT ![c] = "out"]
        /\ cjob' = [cjob EXCEPT ![c] = NoJob]
        /\ UNCHANGED <<queue, status, ran, wpc, wjob, handles>>
        /\ cpc[c] = "free" /\ status[j] = 0 /\ Finished(j) /\ j \notin handles
    BY <1>0, <1>11, <2>1 DEF AwaitFree, CalledInv
  <2> HIDE DEF j
  <2>4. QueuedInv' /\ HeldInv'
    BY <1>0, <2>2 DEF QueuedInv, HeldInv, Finished, Queued, Held, TypeOK
  <2>5. CalledInv'
    BY <1>0, <1>w, <2>1, <2>2 DEF CalledInv, Finished, Queued, Held, TypeOK, CallInv, j
  <2>6. LifeInv'
    BY <1>0, <2>1, <2>2 DEF LifeInv, Finished, Queued, Held, TypeOK, j
  <2> QED
    BY <2>4, <2>5, <2>6 DEF OwnInv
<1>17. ASSUME NEW c \in Clients, AwaitInterrupted(c) PROVE OwnInv'
  <2>1. /\ cpc[c] = "wait" /\ cpc' = [cpc EXCEPT ![c] = "out"]
        /\ cjob' = [cjob EXCEPT ![c] = NoJob]
        /\ UNCHANGED <<queue, mem, status, ran, wpc, wjob, handles>>
    BY <1>17 DEF AwaitInterrupted
  <2>2. CalledInv'
    BY <1>0, <2>1 DEF CalledInv, Finished, Queued, Held, TypeOK
  <2> QED
    BY <1>0, <1>6, <2>1, <2>2 DEF TypeOK
<1>12. ASSUME NEW w \in Workers, WorkerStart(w) \/ WorkerWake(w) \/ WorkerCheck(w) \/ WorkerExit(w)
              \/ WorkerInterrupted(w) \/ WorkerPopInterrupted(w)
       PROVE OwnInv'
  <2>1. wjob[w] = NoJob /\ UNCHANGED <<queue, mem, status, ran, wjob, cpc, cjob, handles>>
        /\ \A v \in Workers : v # w => wpc'[v] = wpc[v]
    BY <1>0, <1>12 DEF WorkerStart, WorkerWake, WorkerCheck, WorkerExit, WorkerInterrupted,
       WorkerPopInterrupted, CallInv, TypeOK
  <2>2. HeldInv'
    BY <1>0, <2>1 DEF HeldInv, Queued
  <2> QED
    BY <1>0, <2>1, <2>2 DEF OwnInv, QueuedInv, CalledInv, LifeInv, Finished, Queued, Held
<1>13. ASSUME NEW w \in Workers, WorkerPop(w) PROVE OwnInv'
  <2>1. CASE queue = <<>>
    <3>1. wjob' = wjob /\ wjob[w] = NoJob /\ UNCHANGED <<queue, mem, status, ran, cpc, cjob, handles>>
          /\ \A v \in Workers : v # w => wpc'[v] = wpc[v]
      BY <1>0, <1>13, <2>1 DEF WorkerPop, CallInv, TypeOK
    <3>2. HeldInv'
      BY <1>0, <3>1 DEF HeldInv, Queued
    <3> QED
      BY <1>0, <3>1, <3>2 DEF OwnInv, QueuedInv, CalledInv, LifeInv, Finished, Queued, Held
  <2>2. CASE queue # <<>>
    <3> DEFINE j == queue[1]
    <3>1. /\ Len(queue) \in Nat /\ Len(queue) > 0 /\ Len(queue') = Len(queue) - 1
          /\ \A i \in 1..Len(queue') : i + 1 \in 1..Len(queue) /\ queue'[i] = queue[i + 1]
          /\ Head(queue) = j
      BY <1>0, <1>13, <2>2 DEF WorkerPop, TypeOK
    <3>2. /\ wjob' = [wjob EXCEPT ![w] = j] /\ UNCHANGED <<mem, status, ran, cpc, cjob, handles>>
          /\ wpc' = [wpc EXCEPT ![w] = Dispatch(j)] /\ wjob[w] = NoJob
          /\ Dispatch(j) # "done"
      BY <1>0, <1>13, <2>2, <3>1 DEF WorkerPop, CallInv, Dispatch
    <3>3. 1 \in 1..Len(queue) /\ j \in JobIds /\ Queued(j) /\ ~Held(j)
          /\ mem[j] = "live" /\ status[j] = 0 /\ ran[j] = 0
      BY <1>0, <1>q, <1>w, <3>1 DEF Queued, QueuedInv, HeldInv, Held
    <3>4. \A k : Queued(k)' <=> Queued(k) /\ k # j
      <4>1. \A i \in 1..Len(queue) : i # 1 => i - 1 \in 1..Len(queue') /\ queue'[i - 1] = queue[i]
        BY <3>1
      <4>2. \A i \in 1..Len(queue) : i # 1 => queue[i] # j
        BY <1>0, <3>3 DEF QueuedInv
      <4>3. \A i \in 1..Len(queue') : i + 1 # 1
        BY <3>1
      <4>4. ASSUME NEW k, Queued(k)' PROVE Queued(k) /\ k # j
        <5>1. PICK i \in 1..Len(queue') : queue'[i] = k
          BY <4>4 DEF Queued
        <5>2. PICK m : m = i + 1
          OBVIOUS
        <5>3. m \in 1..Len(queue) /\ m # 1 /\ queue[m] = k
          BY <3>1, <4>3, <5>1, <5>2
        <5> QED
          BY <4>2, <5>3 DEF Queued
      <4>5. ASSUME NEW k, Queued(k), k # j PROVE Queued(k)'
        <5>1. PICK m \in 1..Len(queue) : queue[m] = k
          BY <4>5 DEF Queued
        <5>2. m # 1
          BY <4>5, <5>1
        <5>3. PICK i : i = m - 1
          OBVIOUS
        <5>4. i \in 1..Len(queue') /\ queue'[i] = k
          BY <4>1, <5>1, <5>2, <5>3
        <5> QED
          BY <5>4 DEF Queued
      <4> QED
        BY <4>4, <4>5, Zenon
    <3>5. \A k \in JobIds : Held(k)' <=> Held(k) \/ k = j
      BY <1>0, <1>w, <3>2 DEF Held, TypeOK
    <3> HIDE DEF j
    <3>6. QueuedInv'
      <4>1. \A i, k \in 1..Len(queue') : queue'[i] = queue'[k] => i = k
        <5>1. \A i, k \in 1..Len(queue') : queue'[i] = queue'[k] => i + 1 = k + 1
          BY <1>0, <3>1 DEF QueuedInv
        <5> QED
          BY <3>1, <5>1
      <4>2. \A i \in 1..Len(queue') : mem'[queue'[i]] = "live" /\ status'[queue'[i]] = 0 /\ ran'[queue'[i]] = 0
        BY <1>0, <3>1, <3>2 DEF QueuedInv
      <4> QED
        BY <4>1, <4>2 DEF QueuedInv
    <3>7. HeldInv'
      <4>1. \A u, v \in Workers : wjob'[u] = wjob'[v] /\ wjob'[v] # NoJob => u = v
        BY <1>0, <3>2, <3>3 DEF HeldInv, Held, TypeOK
      <4>2. \A v \in Workers : wjob'[v] # NoJob =>
              /\ mem'[wjob'[v]] = "live" /\ status'[wjob'[v]] = 0
              /\ ran'[wjob'[v]] = IF wpc'[v] = "done" THEN 1 ELSE 0
              /\ ~(Queued(wjob[v])')
        <5> SUFFICES ASSUME NEW v \in Workers, wjob'[v] # NoJob
                     PROVE  /\ mem[wjob'[v]] = "live" /\ status[wjob'[v]] = 0
                            /\ ran[wjob'[v]] = IF wpc'[v] = "done" THEN 1 ELSE 0
                            /\ ~(Queued(wjob[v])')
          BY <3>2
        <5>1. CASE v = w
          BY <1>0, <3>2, <3>3, <3>4, <5>1 DEF TypeOK, Queued
        <5>2. CASE v # w
          BY <1>0, <3>2, <3>4, <5>2 DEF TypeOK, HeldInv, Queued
        <5> QED
          BY <5>1, <5>2
      <4> QED
        BY <4>1, <4>2 DEF HeldInv
    <3>8. CalledInv'
      <4>1. \A c \in Clients : cpc[c] = "free" => cjob[c] \in JobIds
        BY <1>0 DEF CallInv, TypeOK
      <4>2. \A c \in Clients : cpc[c] = "free" => Finished(cjob[c])'
        BY <1>0, <3>2, <3>3, <3>4, <3>5, <4>1 DEF CalledInv, Finished
      <4> QED
        BY <1>0, <3>2, <4>2 DEF CalledInv
    <3>9. LifeInv'
      BY <1>0, <3>2, <3>4, <3>5 DEF LifeInv
    <3> QED
      BY <3>6, <3>7, <3>8, <3>9 DEF OwnInv
  <2> QED
    BY <2>1, <2>2
<1>14. ASSUME NEW w \in Workers, WorkerRun(w) PROVE OwnInv'
  <2> DEFINE j == wjob[w]
  <2>1. j \in Jobs /\ j \in JobIds /\ j # NoJob
    BY <1>0, <1>w, <1>14 DEF WorkerRun, CallInv
  <2>2. /\ ran[j] = 0 /\ mem[j] = "live" /\ status[j] = 0 /\ ~Queued(j) /\ Held(j)
        /\ \A v \in Workers : wjob[v] = j => v = w
    BY <1>0, <1>14, <2>1 DEF WorkerRun, HeldInv, Held
  <2>3. /\ ran' = [ran EXCEPT ![j] = 1] /\ wpc' = [wpc EXCEPT ![w] = "done"]
        /\ UNCHANGED <<queue, mem, status, wjob, cpc, cjob, handles>>
    BY <1>14, <2>2 DEF WorkerRun
  <2> HIDE DEF j
  <2>4. QueuedInv'
    BY <1>0, <2>2, <2>3 DEF QueuedInv, Queued, TypeOK
  <2>5. HeldInv'
    BY <1>0, <2>1, <2>2, <2>3 DEF HeldInv, Queued, TypeOK, j
  <2>6. CalledInv'
    BY <1>0, <2>2, <2>3 DEF CalledInv, Finished, Queued, Held, TypeOK
  <2>7. LifeInv'
    <3>1. \A k \in JobIds : (Queued(k)' <=> Queued(k)) /\ (Held(k)' <=> Held(k))
      BY <2>3 DEF Queued, Held
    <3>2. ran'[j] = 1 /\ \A k \in JobIds : k # j => ran'[k] = ran[k]
      BY <1>0, <2>1, <2>3 DEF TypeOK
    <3> QED
      BY <1>0, <2>1, <2>2, <2>3, <3>1, <3>2 DEF LifeInv
  <2> QED
    BY <2>4, <2>5, <2>6, <2>7 DEF OwnInv
<1>15. ASSUME NEW w \in Workers, WorkerDone(w) \/ WorkerBye(w) PROVE OwnInv'
  <2> DEFINE j == wjob[w]
  <2>1. j \in JobIds /\ j # NoJob /\ (j \in Jobs => wpc[w] = "done")
    BY <1>0, <1>w, <1>15, PoolAssumption DEF WorkerDone, WorkerBye, CallInv
  <2>2. /\ mem[j] = "live" /\ status[j] = 0 /\ ~Queued(j) /\ Held(j) /\ (j \in Jobs => ran[j] = 1)
        /\ \A v \in Workers : wjob[v] = j => v = w
    BY <1>0, <2>1 DEF HeldInv, Held
  <2>3. /\ status' = [status EXCEPT ![j] = 1] /\ wjob' = [wjob EXCEPT ![w] = NoJob]
        /\ UNCHANGED <<queue, mem, ran, cpc, cjob, handles>>
        /\ \A v \in Workers : v # w => wpc'[v] = wpc[v]
    BY <1>0, <1>15, <2>2 DEF WorkerDone, WorkerBye, TypeOK
  <2>4. \A k \in JobIds : Held(k)' <=> Held(k) /\ k # j
    BY <1>0, <1>w, <2>2, <2>3 DEF Held, TypeOK, j
  <2>5. \A k : Queued(k)' <=> Queued(k)
    BY <2>3 DEF Queued
  <2> HIDE DEF j
  <2>6. QueuedInv'
    BY <1>0, <2>2, <2>3 DEF QueuedInv, Queued, TypeOK
  <2>7. HeldInv'
    BY <1>0, <2>1, <2>2, <2>3, <2>5 DEF HeldInv, TypeOK
  <2>8. CalledInv'
    <3>1. \A c \in Clients : cpc[c] = "free" => cjob[c] \in JobIds
      BY <1>0 DEF CallInv, TypeOK
    <3>2. \A c \in Clients : cpc[c] = "free" => status'[cjob[c]] = 0 /\ Finished(cjob[c])'
      BY <1>0, <2>2, <2>3, <2>4, <2>5, <3>1 DEF CalledInv, Finished, TypeOK
    <3> QED
      BY <1>0, <2>3, <3>2 DEF CalledInv
  <2>9. LifeInv'
    BY <1>0, <2>1, <2>2, <2>3, <2>4, <2>5 DEF LifeInv, TypeOK
  <2> QED
    BY <2>6, <2>7, <2>8, <2>9 DEF OwnInv
<1>16. CASE UNCHANGED vars
  BY <1>0, <1>16 DEF vars, OwnInv, QueuedInv, HeldInv, CalledInv, LifeInv, Finished, Queued, Held
<1> QED
  BY <1>1, <1>2, <1>4, <1>5, <1>7, <1>8, <1>9, <1>10, <1>11, <1>12, <1>13, <1>14, <1>15, <1>16,
     <1>17 DEF Next, ClientStep, WorkerStep, DestroyStep, Stopped

-----------------------------------------------------------------------------
(* The rounds of pool_destroy.                                             *)

\* Workers that have taken a shutdown job, and shutdown jobs that were taken.
Left   == {w \in Workers : wpc[w] \in {"bye", "leave", "exited"}}
Served == {i \in Workers : mem[i] # "none" /\ ~Queued(i)}

\* Nobody submits a shutdown job before pool_destroy.
RoundInv ==
    phase \in {"create", "create_failed", "open"} => \A i \in Workers : mem[i] = "none"

\* No user job is behind a shutdown job, although an interrupted await lets
\* several of them queue up: once one was taken, only shutdown jobs are queued.
FifoInv ==
    /\ \A i, k \in 1..Len(queue) : i < k /\ queue[i] \in Workers => queue[k] \in Workers
    /\ Served # {} => \A k \in 1..Len(queue) : queue[k] \in Workers

\* A worker leaves only with a shutdown job.
LeftInv == Left # {} => Served # {}

\* pool_destroy has joined the first count workers.
JoinInv ==
    /\ phase = "join" => \A w \in Workers : w <= count => wpc[w] \in {"exited", "failed"}
    /\ phase = "destroyed" => \A w \in Workers : wpc[w] \in {"exited", "failed"}

PoolInv == TypeInv /\ OwnInv /\ RoundInv /\ FifoInv /\ LeftInv /\ JoinInv

\* A pool without descriptors and workers satisfies the invariant.
LEMMA InitPoolInv == Init => PoolInv
<1> SUFFICES ASSUME Init PROVE PoolInv
  OBVIOUS
<1>1. Left = {} /\ Served = {}
  BY DEF Init, Left, Served, JobIds
<1>2. RoundInv /\ JoinInv
  BY DEF Init, RoundInv, JoinInv, JobIds
<1>3. FifoInv
  BY <1>1 DEF Init, FifoInv
<1> QED
  BY <1>1, <1>2, <1>3, InitTypeInv, InitOwn DEF PoolInv, LeftInv

\* Only a round of pool_destroy allocates a shutdown descriptor.
LEMMA NextRound == TypeInv /\ OwnInv /\ RoundInv /\ [Next]_vars => RoundInv'
<1> SUFFICES ASSUME TypeInv, OwnInv, RoundInv, [Next]_vars PROVE RoundInv'
  OBVIOUS
<1>0. TypeOK /\ CallInv
  BY DEF TypeInv
<1>w. /\ Workers \subseteq JobIds /\ Jobs \subseteq JobIds /\ \A j \in Jobs : j \notin Workers
  BY PoolAssumption DEF JobIds
<1> USE DEF jobVars, workerVars, clientVars, poolVars
<1>1. CASE CreateWorker \/ CreateFails
  BY <1>1 DEF CreateWorker, CreateFails, RoundInv
<1>2. CASE BeginDestroy \/ BeginJoin \/ JoinWorker \/ ReleasePool \/ DestroyRound
  BY <1>2 DEF BeginDestroy, BeginJoin, JoinWorker, ReleasePool, DestroyRound, PushJob, RoundInv
<1>3. ASSUME NEW c \in Clients, NEW j \in Jobs, Submit(c, j) PROVE RoundInv'
  <2>1. \A i \in Workers : mem'[i] = mem[i]
    BY <1>0, <1>w, <1>3 DEF Submit, PushJob, TypeOK
  <2> QED
    BY <1>3, <2>1 DEF Submit, PushJob, RoundInv
<1>4. ASSUME NEW c \in Clients, NEW j \in handles, AwaitJob(c, j) PROVE RoundInv'
  BY <1>4 DEF AwaitJob, RoundInv
<1>5. ASSUME NEW c \in Clients,
             PostJob(c) \/ PostShutdownJob(c) \/ AwaitWake(c) \/ AwaitInterrupted(c)
      PROVE  RoundInv'
  BY <1>5 DEF PostJob, PostShutdownJob, AwaitWake, AwaitInterrupted, RoundInv
<1>6. ASSUME NEW c \in Clients, AwaitFree(c) PROVE RoundInv'
  <2>1. cjob[c] \in JobIds /\ mem[cjob[c]] = "live"
    BY <1>0, <1>6 DEF AwaitFree, CallInv, TypeOK, OwnInv, CalledInv
  <2> QED
    BY <1>0, <1>6, <1>w, <2>1 DEF AwaitFree, RoundInv, TypeOK
<1>7. ASSUME NEW w \in Workers,
             WorkerStep(w) \/ WorkerInterrupted(w) \/ WorkerPopInterrupted(w)
      PROVE  RoundInv'
  BY <1>7 DEF WorkerStep, WorkerStart, WorkerWake, WorkerCheck, WorkerPop, WorkerRun, WorkerDone,
     WorkerBye, WorkerExit, WorkerInterrupted, WorkerPopInterrupted, RoundInv
<1>8. CASE UNCHANGED vars
  BY <1>8 DEF vars, RoundInv
<1> QED
  BY <1>1, <1>2, <1>3, <1>4, <1>5, <1>6, <1>7, <1>8 DEF Next, ClientStep, DestroyStep, Stopped

\* A joined worker never comes back.
LEMMA NextJoin == TypeInv /\ JoinInv /\ [Next]_vars => JoinInv'
<1> SUFFICES ASSUME TypeInv, JoinInv, [Next]_vars PROVE JoinInv'
  OBVIOUS
<1>0. TypeOK /\ CallInv /\ N \in Nat
  BY PoolAssumption DEF TypeInv
<1> USE DEF jobVars, workerVars, clientVars, poolVars
<1>1. CASE CreateWorker \/ CreateFails
  BY <1>1 DEF CreateWorker, CreateFails, JoinInv
<1>2. CASE BeginDestroy \/ BeginJoin
  BY <1>2 DEF BeginDestroy, BeginJoin, JoinInv, Workers
<1>3. CASE JoinWorker
  <2>1. \A w \in Workers : w <= count + 1 => w <= count \/ w = count + 1
    BY <1>0 DEF TypeOK, Workers
  <2> QED
    BY <1>3, <2>1 DEF JoinWorker, JoinInv
<1>4. CASE ReleasePool
  <2>1. \A w \in Workers : w <= count
    BY <1>0, <1>4 DEF ReleasePool, Workers
  <2> QED
    BY <1>4, <2>1 DEF ReleasePool, JoinInv
<1>5. ASSUME NEW c \in Clients, NEW j, PushJob(c, j) PROVE JoinInv'
  BY <1>5 DEF PushJob, JoinInv
<1>6. ASSUME NEW c \in Clients, NEW j, AwaitJob(c, j) PROVE JoinInv'
  BY <1>6 DEF AwaitJob, JoinInv
<1>7. ASSUME NEW c \in Clients, PostJob(c) \/ PostShutdownJob(c) \/ AwaitWake(c) PROVE JoinInv'
  BY <1>7 DEF PostJob, PostShutdownJob, AwaitWake, JoinInv
<1>8. ASSUME NEW c \in Clients, AwaitFree(c) \/ AwaitInterrupted(c) PROVE JoinInv'
  <2>1. cjob[c] \in Workers => phase = "shutdown"
    BY <1>0 DEF CallInv
  <2> QED
    BY <1>8, <2>1 DEF AwaitFree, AwaitInterrupted, JoinInv
<1>9. ASSUME NEW w \in Workers,
             WorkerStep(w) \/ WorkerInterrupted(w) \/ WorkerPopInterrupted(w)
      PROVE  JoinInv'
  <2>1. /\ UNCHANGED <<phase, count>> /\ wpc[w] \notin {"exited", "failed"}
        /\ \A v \in Workers : v # w => wpc'[v] = wpc[v]
    BY <1>0, <1>9 DEF WorkerStep, WorkerStart, WorkerWake, WorkerCheck, WorkerPop, WorkerRun,
       WorkerDone, WorkerBye, WorkerExit, WorkerInterrupted, WorkerPopInterrupted, TypeOK
  <2> QED
    BY <2>1 DEF JoinInv
<1>10. CASE UNCHANGED vars
  BY <1>10 DEF vars, JoinInv
<1> QED
  BY <1>1, <1>2, <1>3, <1>4, <1>5, <1>6, <1>7, <1>8, <1>9, <1>10, PoolAssumption
     DEF Next, Submit, ClientStep, DestroyStep, DestroyRound, Stopped

\* Only a pop takes a descriptor out of the queue and only a push puts one in,
\* behind all others.
LEMMA QueueSteps ==
    ASSUME TypeInv, OwnInv, [Next]_vars
    PROVE  \/ /\ UNCHANGED queue
              /\ \A i \in Workers : mem'[i] = "none" <=> mem[i] = "none"
              /\ Left' = Left
           \/ \E c \in Clients, j \in JobIds :
                 /\ PushJob(c, j) /\ UNCHANGED <<wpc, phase>>
                 /\ IF j \in Jobs THEN phase = "open"
                    ELSE j \in Workers /\ c = Destroyer /\ phase = "shutdown"
           \/ \E w \in Workers : WorkerPop(w) /\ queue # <<>>
<1>0. TypeOK /\ CallInv
  BY DEF TypeInv
<1>w. /\ Workers \subseteq JobIds /\ Jobs \subseteq JobIds /\ NoJob \notin JobIds
      /\ Destroyer \in Clients /\ \A j \in Jobs : j \notin Workers
  BY PoolAssumption DEF JobIds
<1> USE DEF jobVars, workerVars, clientVars, poolVars
<1> DEFINE Same == /\ UNCHANGED queue
                   /\ \A i \in Workers : mem'[i] = "none" <=> mem[i] = "none"
                   /\ Left' = Left
<1>1. CASE CreateWorker
  <2>1. count + 1 \in Workers /\ wpc[count + 1] = "none"
    <3>1. count + 1 \in Workers /\ count + 1 > count
      BY <1>0, <1>1, PoolAssumption DEF CreateWorker, TypeOK, CallInv, Workers
    <3> QED
      BY <1>0, <1>1, <3>1 DEF CreateWorker, CallInv
  <2>2. Left' = Left
    BY <1>0, <1>1, <2>1 DEF CreateWorker, Left, TypeOK
  <2> QED
    BY <1>1, <2>2 DEF CreateWorker
<1>2. CASE CreateFails \/ BeginDestroy \/ BeginJoin \/ JoinWorker \/ ReleasePool
  BY <1>2 DEF CreateFails, BeginDestroy, BeginJoin, JoinWorker, ReleasePool, Left
<1>3. ASSUME NEW c \in Clients, NEW j \in Jobs, Submit(c, j)
      PROVE  PushJob(c, j) /\ UNCHANGED <<wpc, phase>> /\ phase = "open" /\ j \in JobIds
  BY <1>3, <1>w DEF Submit, PushJob
<1>4. CASE DestroyRound
  <2>1. count + 1 \in Workers
    BY <1>0, <1>4, PoolAssumption DEF DestroyRound, TypeOK, Workers
  <2>2. PushJob(Destroyer, count + 1) /\ UNCHANGED <<wpc, phase>> /\ phase = "shutdown"
    BY <1>4 DEF DestroyRound, PushJob
  <2> QED
    BY <1>w, <2>1, <2>2
<1>5. ASSUME NEW c \in Clients, NEW j \in handles, AwaitJob(c, j) PROVE Same
  BY <1>5 DEF AwaitJob, Left
<1>6. ASSUME NEW c \in Clients, ClientStep(c) \/ AwaitInterrupted(c) PROVE Same
  <2>1. CASE PostJob(c) \/ PostShutdownJob(c) \/ AwaitWake(c) \/ AwaitInterrupted(c)
    BY <2>1 DEF PostJob, PostShutdownJob, AwaitWake, AwaitInterrupted, Left
  <2>2. CASE AwaitFree(c)
    <3>1. cjob[c] \in JobIds /\ mem[cjob[c]] = "live"
      BY <1>0, <2>2 DEF AwaitFree, CallInv, TypeOK, OwnInv, CalledInv
    <3>2. mem' = [mem EXCEPT ![cjob[c]] = "freed"] /\ UNCHANGED <<queue, wpc>>
      BY <2>2 DEF AwaitFree
    <3> QED
      BY <1>0, <1>w, <3>1, <3>2 DEF Left, TypeOK
  <2> QED
    BY <1>6, <2>1, <2>2 DEF ClientStep
<1>7. ASSUME NEW w \in Workers,
             WorkerStep(w) \/ WorkerInterrupted(w) \/ WorkerPopInterrupted(w),
             ~(WorkerPop(w) /\ queue # <<>>)
      PROVE  Same
  <2>1. CASE WorkerPop(w)
    <3>1. wpc' = [wpc EXCEPT ![w] = "abort"] /\ wpc[w] = "pop" /\ UNCHANGED <<mem, queue>>
      BY <1>7, <2>1 DEF WorkerPop
    <3> QED
      BY <1>0, <3>1 DEF Left, TypeOK
  <2>2. CASE \/ WorkerStart(w) \/ WorkerWake(w) \/ WorkerCheck(w) \/ WorkerRun(w)
             \/ WorkerDone(w) \/ WorkerBye(w) \/ WorkerExit(w) \/ WorkerInterrupted(w)
             \/ WorkerPopInterrupted(w)
    <3>1. UNCHANGED <<mem, queue>>
      BY <2>2 DEF WorkerStart, WorkerWake, WorkerCheck, WorkerRun, WorkerDone,
         WorkerBye, WorkerExit, WorkerInterrupted, WorkerPopInterrupted
    <3>2. Left' = Left
      BY <1>0, <2>2 DEF WorkerStart, WorkerWake, WorkerCheck, WorkerRun, WorkerDone,
         WorkerBye, WorkerExit, WorkerInterrupted, WorkerPopInterrupted, Left, TypeOK
    <3> QED
      BY <3>1, <3>2
  <2> QED
    BY <1>7, <2>1, <2>2 DEF WorkerStep
<1>8. CASE UNCHANGED vars
  BY <1>8 DEF vars, Left
<1>9. CASE \E w \in Workers : WorkerStep(w) \/ WorkerInterrupted(w) \/ WorkerPopInterrupted(w)
  BY <1>7, <1>9
<1>10. CASE \E c \in Clients, j \in Jobs : Submit(c, j)
  BY <1>3, <1>10
<1> HIDE DEF Same
<1>11. Same \/ ~Same
  OBVIOUS
<1> QED
  BY <1>1, <1>2, <1>4, <1>5, <1>6, <1>8, <1>9, <1>10 DEF Next, DestroyStep, Stopped, Same

\* What a pop of j does to the queue.
LEMMA PopQueue ==
    ASSUME TypeInv, OwnInv, NEW w \in Workers, WorkerPop(w), queue # <<>>
    PROVE  /\ queue[1] \in JobIds /\ Queued(queue[1]) /\ Len(queue) \in Nat \ {0}
           /\ Len(queue') = Len(queue) - 1
           /\ \A i \in 1..Len(queue') : i + 1 \in 1..Len(queue) /\ queue'[i] = queue[i + 1]
           /\ \A k : Queued(k)' <=> Queued(k) /\ k # queue[1]
           /\ mem' = mem /\ phase' = phase
           /\ wjob' = [wjob EXCEPT ![w] = queue[1]]
           /\ wpc[w] = "pop" /\ wpc' = [wpc EXCEPT ![w] = Dispatch(queue[1])]
<1>0. TypeOK /\ QueuedInv
  BY DEF TypeInv, OwnInv
<1>1. /\ Len(queue) \in Nat \ {0} /\ Len(queue') = Len(queue) - 1 /\ Head(queue) = queue[1]
      /\ \A i \in 1..Len(queue') : i + 1 \in 1..Len(queue) /\ queue'[i] = queue[i + 1]
  BY <1>0 DEF WorkerPop, TypeOK
<1>2. 1 \in 1..Len(queue) /\ queue[1] \in JobIds
  BY <1>0, <1>1 DEF TypeOK
<1>3. \A i \in 1..Len(queue) : i # 1 => i - 1 \in 1..Len(queue') /\ queue'[i - 1] = queue[i]
  BY <1>1
<1>4. \A i \in 1..Len(queue) : i # 1 => queue[i] # queue[1]
  BY <1>0, <1>2 DEF QueuedInv
<1>5. \A i \in 1..Len(queue') : i + 1 # 1
  BY <1>1
<1>6. \A k : Queued(k)' <=> Queued(k) /\ k # queue[1]
  BY <1>1, <1>3, <1>4, <1>5 DEF Queued
<1> QED
  BY <1>1, <1>2, <1>6 DEF WorkerPop, Queued, poolVars, jobVars

\* What a push of j does to the queue.
LEMMA PushQueue ==
    ASSUME TypeInv, NEW c \in Clients, NEW j \in JobIds, PushJob(c, j)
    PROVE  /\ Len(queue) \in Nat /\ Len(queue') = Len(queue) + 1 /\ queue'[Len(queue) + 1] = j
           /\ \A i \in 1..Len(queue) : queue'[i] = queue[i]
           /\ \A k : Queued(k)' <=> Queued(k) \/ k = j
           /\ mem' = [mem EXCEPT ![j] = "live"] /\ mem[j] = "none"
<1>1. /\ Len(queue) \in Nat /\ Len(queue') = Len(queue) + 1 /\ queue'[Len(queue) + 1] = j
      /\ \A i \in 1..Len(queue) : queue'[i] = queue[i]
  BY DEF PushJob, TypeInv, TypeOK
<1>2. \A k : Queued(k)' <=> Queued(k) \/ k = j
  BY <1>1 DEF Queued
<1> QED
  BY <1>1, <1>2 DEF PushJob

\* User jobs stay ahead of the shutdown jobs.
LEMMA NextFifo == TypeInv /\ OwnInv /\ RoundInv /\ FifoInv /\ [Next]_vars => FifoInv'
<1> SUFFICES ASSUME TypeInv, OwnInv, RoundInv, FifoInv, [Next]_vars PROVE FifoInv'
  OBVIOUS
<1>0. TypeOK /\ CallInv /\ QueuedInv /\ \A j \in Jobs : j \notin Workers
  BY PoolAssumption DEF TypeInv, OwnInv
<1>1. CASE UNCHANGED queue /\ \A i \in Workers : mem'[i] = "none" <=> mem[i] = "none"
  <2>1. Served' = Served
    BY <1>1 DEF Served, Queued
  <2> QED
    BY <1>1, <2>1 DEF FifoInv
<1>2. ASSUME NEW c \in Clients, NEW j \in JobIds, PushJob(c, j), j \in Jobs, phase = "open"
      PROVE  FifoInv'
  <2>1. \A i \in Workers : mem[i] = "none" /\ mem'[i] = "none"
    <3>1. \A i \in Workers : i # j /\ i \in JobIds
      BY <1>0, <1>2 DEF JobIds
    <3> QED
      BY <1>0, <1>2, <3>1, PushQueue DEF RoundInv, TypeOK
  <2>2. \A k \in 1..Len(queue) : queue[k] \notin Workers
    BY <1>0, <2>1 DEF QueuedInv
  <2>3. \A k \in 1..Len(queue') : queue'[k] \notin Workers
    BY <1>0, <1>2, <2>2, PushQueue
  <2>4. Served' = {}
    BY <2>1 DEF Served
  <2> QED
    BY <2>3, <2>4 DEF FifoInv
<1>3. ASSUME NEW c \in Clients, NEW j \in JobIds, PushJob(c, j), j \in Workers
      PROVE  FifoInv'
  <2>1. \A k \in 1..Len(queue') : k # Len(queue') => k \in 1..Len(queue) /\ queue'[k] = queue[k]
    BY <1>3, PushQueue
  <2>2. queue'[Len(queue')] = j
    BY <1>3, PushQueue
  <2>3. \A i, k \in 1..Len(queue') : i < k /\ queue'[i] \in Workers => queue'[k] \in Workers
    <3> SUFFICES ASSUME NEW i \in 1..Len(queue'), NEW k \in 1..Len(queue'), i < k,
                        queue'[i] \in Workers
                 PROVE  queue'[k] \in Workers
      OBVIOUS
    <3>1. CASE k = Len(queue')
      BY <1>3, <2>2, <3>1
    <3>2. CASE k # Len(queue')
      <4>1. i # Len(queue')
        BY <1>3, PushQueue
      <4> QED
        BY <2>1, <3>2, <4>1 DEF FifoInv
    <3> QED
      BY <3>1, <3>2
  <2>4. Served' = Served
    <3>1. \A i \in Workers : i # j => mem'[i] = mem[i]
      BY <1>0, <1>3, PushQueue DEF TypeOK, JobIds
    <3> QED
      BY <1>3, <3>1, PushQueue DEF Served
  <2>5. Served # {} => \A k \in 1..Len(queue') : queue'[k] \in Workers
    <3> SUFFICES ASSUME Served # {}, NEW k \in 1..Len(queue') PROVE queue'[k] \in Workers
      OBVIOUS
    <3>1. CASE k = Len(queue')
      BY <1>3, <2>2, <3>1
    <3>2. CASE k # Len(queue')
      BY <2>1, <3>2 DEF FifoInv
    <3> QED
      BY <3>1, <3>2
  <2> QED
    BY <2>3, <2>4, <2>5 DEF FifoInv
<1>4. ASSUME NEW w \in Workers, WorkerPop(w), queue # <<>> PROVE FifoInv'
  <2>0. \A i \in 1..Len(queue') : i + 1 \in 1..Len(queue) /\ queue'[i] = queue[i + 1]
    BY <1>4, PopQueue
  <2>l. Len(queue) \in Nat \ {0} /\ 1 \in 1..Len(queue)
    BY <1>4, PopQueue
  <2>1. \A i, k \in 1..Len(queue') : i < k /\ queue'[i] \in Workers => queue'[k] \in Workers
    <3> SUFFICES ASSUME NEW i \in 1..Len(queue'), NEW k \in 1..Len(queue'), i < k,
                        queue'[i] \in Workers
                 PROVE  queue'[k] \in Workers
      OBVIOUS
    <3>1. PICK a \in 1..Len(queue), b \in 1..Len(queue) :
             a < b /\ queue'[i] = queue[a] /\ queue'[k] = queue[b]
      <4>1. i + 1 < k + 1
        OBVIOUS
      <4> QED
        BY <2>0, <4>1
    <3> QED
      BY <3>1 DEF FifoInv
  <2>2. CASE queue[1] \in Workers
    <3>1. \A k \in 1..Len(queue) : queue[k] \in Workers
      <4>1. \A k \in 1..Len(queue) : k = 1 \/ 1 < k
        BY <2>l
      <4> QED
        BY <2>2, <2>l, <4>1 DEF FifoInv
    <3> QED
      BY <2>0, <2>1, <3>1 DEF FifoInv
  <2>3. CASE queue[1] \notin Workers
    <3>1. Served' = Served
      BY <1>4, <2>3, PopQueue DEF Served
    <3>2. Served # {} => \A k \in 1..Len(queue') : queue'[k] \in Workers
      BY <2>0 DEF FifoInv
    <3> QED
      BY <2>1, <3>1, <3>2 DEF FifoInv
  <2> QED
    BY <2>2, <2>3
<1> QED
  BY <1>0, <1>1, <1>2, <1>3, <1>4, QueueSteps

\* A worker leaves with each shutdown job.
LEMMA NextLeft == TypeInv /\ OwnInv /\ LeftInv /\ [Next]_vars => LeftInv'
<1> SUFFICES ASSUME TypeInv, OwnInv, LeftInv, [Next]_vars PROVE LeftInv'
  OBVIOUS
<1>0. TypeOK /\ CallInv /\ QueuedInv
  BY DEF TypeInv, OwnInv
<1>1. CASE /\ UNCHANGED queue /\ \A i \in Workers : mem'[i] = "none" <=> mem[i] = "none"
           /\ Left' = Left
  <2>1. Served' = Served
    BY <1>1 DEF Served, Queued
  <2> QED
    BY <1>1, <2>1 DEF LeftInv
<1>2. ASSUME NEW c \in Clients, NEW j \in JobIds, PushJob(c, j), UNCHANGED wpc
      PROVE  LeftInv'
  <2>1. \A i \in Workers : i # j => mem'[i] = mem[i]
    BY <1>0, <1>2, PushQueue DEF TypeOK, JobIds
  <2>2. Served' = Served
    BY <1>2, <2>1, PushQueue DEF Served
  <2>3. Left' = Left
    BY <1>2 DEF Left
  <2> QED
    BY <2>2, <2>3 DEF LeftInv
<1>3. ASSUME NEW w \in Workers, WorkerPop(w), queue # <<>> PROVE LeftInv'
  <2>1. CASE queue[1] \in Workers
    <3>1. 1 \in 1..Len(queue) /\ mem[queue[1]] = "live"
      BY <1>0, <1>3, PopQueue DEF QueuedInv
    <3>2. queue[1] \in Served'
      BY <1>3, <2>1, <3>1, PopQueue DEF Served
    <3> QED
      BY <3>2 DEF LeftInv
  <2>2. CASE queue[1] \notin Workers
    <3>1. Left' = Left
      BY <1>0, <1>3, <2>2, PopQueue DEF Left, Dispatch, TypeOK
    <3>2. Served' = Served
      BY <1>3, <2>2, PopQueue DEF Served
    <3> QED
      BY <3>1, <3>2 DEF LeftInv
  <2> QED
    BY <2>1, <2>2
<1> QED
  BY <1>1, <1>2, <1>3, QueueSteps

\* The whole invariant of the pool is inductive.
LEMMA NextPoolInv == PoolInv /\ [Next]_vars => PoolInv'
  BY NextTypeInv, NextOwn, NextRound, NextFifo, NextLeft, NextJoin DEF PoolInv

\* When the last worker is joined nobody works, and no user job is queued
\* unless all workers were ended by signals.
LEMMA AllServed ==
    ASSUME PoolInv, \A w \in Workers : wpc[w] \in {"exited", "failed"}
    PROVE  \A j \in Jobs : ~Held(j) /\ (Queued(j) => Deserted)
<1>0. /\ TypeOK /\ CallInv /\ FifoInv /\ LeftInv
      /\ NoJob \notin Jobs /\ \A j \in Jobs : j \notin Workers
  BY PoolAssumption DEF PoolInv, TypeInv, OwnInv, JobIds
<1>1. \A j \in Jobs : ~Held(j)
  <2>1. \A w \in Workers : wjob[w] = NoJob
    BY <1>0 DEF CallInv
  <2> QED
    BY <1>0, <2>1 DEF Held
<1>2. ~Deserted => Left # {}
  BY DEF Deserted, Left
<1>3. \A j \in Jobs : Queued(j) => Deserted
  BY <1>0, <1>2 DEF LeftInv, FifoInv, Queued
<1> QED
  BY <1>1, <1>3

\* No reader of a descriptor finds it freed and no worker finds the pool
\* released, for any number of threads and jobs.
THEOREM DescriptorsOutliveUse == Spec => []NoUseAfterFree
<1>1. PoolInv => NoUseAfterFree
  <2> SUFFICES ASSUME PoolInv PROVE NoUseAfterFree
    OBVIOUS
  <2>1. TypeOK /\ CallInv /\ QueuedInv /\ HeldInv /\ CalledInv /\ JoinInv
    BY DEF PoolInv, TypeInv, OwnInv
  <2> QED
    BY <2>1 DEF NoUseAfterFree, QueuedInv, HeldInv, CalledInv, JoinInv, CallInv
<1> QED
  BY InitPoolInv, NextPoolInv, <1>1, PTL DEF Spec

\* The invariant implies that no job is lost and none runs twice.
LEMMA InvExactlyOnce == PoolInv => ExactlyOnce
<1> SUFFICES ASSUME PoolInv, NEW j \in Jobs
             PROVE  /\ ran[j] <= 1
                    /\ (status[j] > 0 \/ mem[j] = "freed") => ran[j] = 1
                    /\ phase = "destroyed" /\ mem[j] # "none" => ran[j] = 1 \/ Deserted
  BY DEF ExactlyOnce
<1>0. TypeOK /\ QueuedInv /\ HeldInv /\ CalledInv /\ LifeInv /\ j \in JobIds /\ j # NoJob
  BY PoolAssumption DEF PoolInv, TypeInv, OwnInv, JobIds
<1>1. Queued(j) => ran[j] = 0
  BY <1>0 DEF Queued, QueuedInv
<1>2. Held(j) => ran[j] \in {0, 1}
  BY <1>0 DEF Held, HeldInv
<1>3. mem[j] = "live" /\ ~Queued(j) /\ ~Held(j) => ran[j] = 1
  BY <1>0 DEF LifeInv, CalledInv, Finished
<1>4. ran[j] \in {0, 1}
  <2>1. mem[j] \in {"none", "live", "freed"}
    BY <1>0 DEF TypeOK
  <2> QED
    BY <1>0, <1>1, <1>2, <1>3, <2>1 DEF LifeInv
<1>5. (status[j] > 0 \/ mem[j] = "freed") => ran[j] = 1
  BY <1>0 DEF LifeInv
<1>6. phase = "destroyed" /\ mem[j] # "none" => ran[j] = 1 \/ Deserted
  <2>1. mem[j] \in {"none", "live", "freed"}
    BY <1>0 DEF TypeOK
  <2>2. phase = "destroyed" => ~Held(j) /\ (Queued(j) => Deserted)
    BY AllServed DEF PoolInv, JoinInv
  <2> QED
    BY <1>3, <1>5, <2>1, <2>2
<1> QED
  BY <1>4, <1>5, <1>6

\* Every result that pool_await reads is there and final, and pool_destroy
\* releases the pool only after every job ever pushed has run, whichever awaits
\* signals interrupt, unless signals have ended all workers.
THEOREM JobsRunExactlyOnce == Spec => []ExactlyOnce
  BY InitPoolInv, NextPoolInv, InvExactlyOnce, PTL DEF Spec

-----------------------------------------------------------------------------
(* The pool implements JobPool.  The abstract stage of a job changes at a  *)
(* push, a pop, the post of the status semaphore and the free; every other *)
(* step is invisible.                                                      *)

Stage == [j \in Jobs |-> StageOf(j)]

\* Which steps an observer of the stages cannot see.
LEMMA Invisible ==
    ASSUME \A j \in Jobs : StageOf(j)' = StageOf(j), Deserted' <=> Deserted,
           (phase = "destroyed")' <=> (phase = "destroyed")
    PROVE  UNCHANGED <<Stage, Deserted, phase = "destroyed">>
  BY DEF Stage

\* There is a worker for every running job.
LEMMA WorkerPerJob ==
    ASSUME PoolInv, NEW w \in Workers, wjob[w] = NoJob
    PROVE  Cardinality({j \in Jobs : Stage[j] = "running"}) < N
<1> DEFINE Others == Workers \ {w}
           Running == {j \in Jobs : Stage[j] = "running"}
           f == [j \in Running |-> CHOOSE v \in Workers : wjob[v] = j]
<1>0. NoJob \notin Jobs /\ N \in Nat
  BY PoolAssumption DEF JobIds
<1>1. \A j \in Running : \E v \in Workers : wjob[v] = j
  BY DEF Stage, StageOf
<1>2. \A j \in Running : f[j] \in Workers /\ wjob[f[j]] = j
  BY <1>1
<1>3. \A j \in Running : f[j] \in Others
  BY <1>0, <1>2
<1>4. f \in Injection(Running, Others)
  <2>1. f \in [Running -> Others]
    BY <1>3
  <2>2. \A i, j \in Running : f[i] = f[j] => i = j
    BY <1>2
  <2> QED
    BY <2>1, <2>2 DEF Injection, IsInjective
<1>5. IsFiniteSet(Workers) /\ Cardinality(Workers) = N
  BY <1>0, FS_Interval DEF Workers
<1>6. IsFiniteSet(Others) /\ Cardinality(Others) = N - 1
  BY <1>5, FS_RemoveElement
<1>7. IsFiniteSet(Running) /\ Cardinality(Running) <= N - 1
  BY <1>4, <1>6, FS_Injection
<1>8. Cardinality(Running) \in Nat
  BY <1>7, FS_CardinalityType
<1> QED
  BY <1>0, <1>7, <1>8

\* The initial states of the pool are initial states of JobPool.
LEMMA InitRefines == Init => JP!Init
<1> SUFFICES ASSUME Init PROVE JP!Init
  OBVIOUS
<1>1. \A j \in Jobs : StageOf(j) = "new"
  BY DEF Init, StageOf, JobIds
<1>2. Deserted = FALSE
  <2>1. 1 \in Workers
    BY PoolAssumption DEF Workers
  <2> QED
    BY <2>1 DEF Init, Deserted
<1> QED
  BY <1>1, <1>2 DEF JP!Init, Init

\* Every step of the pool is a step of JobPool or is invisible.
LEMMA NextRefines ==
    PoolInv /\ [Next]_vars => [JP!Next]_<<[j \in Jobs |-> StageOf(j)], Deserted, phase = "destroyed">>
<1> SUFFICES ASSUME PoolInv, [Next]_vars
             PROVE  JP!Next \/ UNCHANGED <<Stage, Deserted, phase = "destroyed">>
  BY DEF Stage
<1>0. /\ TypeInv /\ OwnInv /\ TypeOK /\ CallInv /\ QueuedInv /\ HeldInv /\ CalledInv /\ LifeInv
      /\ JoinInv
  BY DEF PoolInv, TypeInv, OwnInv
<1>w. /\ Workers \subseteq JobIds /\ Jobs \subseteq JobIds /\ NoJob \notin JobIds
      /\ Destroyer \in Clients /\ \A j \in Jobs : j \notin Workers
  BY PoolAssumption DEF JobIds
<1>s. \A j \in JobIds : StageOf(j) =
        IF mem[j] = "none" THEN "new"
        ELSE IF mem[j] = "freed" THEN "collected"
        ELSE IF Held(j) THEN "running"
        ELSE IF ran[j] = 0 THEN "queued" ELSE "done"
  BY DEF StageOf, Held
<1>t. \A j \in JobIds : StageOf(j)' =
        IF mem'[j] = "none" THEN "new"
        ELSE IF mem'[j] = "freed" THEN "collected"
        ELSE IF Held(j)' THEN "running"
        ELSE IF ran'[j] = 0 THEN "queued" ELSE "done"
  BY DEF StageOf, Held
<1> USE DEF jobVars, workerVars, clientVars, poolVars
<1>d. ASSUME NEW w \in Workers, wpc[w] # "failed", wpc'[w] # "failed"
      PROVE  ~Deserted /\ ~Deserted'
  BY <1>d DEF Deserted
<1>e. ASSUME UNCHANGED wpc PROVE Deserted' <=> Deserted
  BY <1>e DEF Deserted
<1>f. ASSUME Deserted' <=> Deserted PROVE UNCHANGED Deserted
  <2>1. Deserted \in BOOLEAN /\ Deserted' \in BOOLEAN
    BY DEF Deserted
  <2> QED
    BY <1>f, <2>1
<1>1. ASSUME UNCHANGED <<mem, ran, wjob>>, (phase = "destroyed")' <=> (phase = "destroyed"),
             Deserted' <=> Deserted
      PROVE  UNCHANGED <<Stage, Deserted, phase = "destroyed">>
  <2>1. \A j \in Jobs : StageOf(j)' = StageOf(j)
    BY <1>1 DEF StageOf
  <2> QED
    BY <1>1, <2>1, Invisible
<1>2. CASE CreateFails \/ BeginDestroy \/ BeginJoin \/ JoinWorker
  <2>1. UNCHANGED <<mem, ran, wjob, wpc>> /\ ((phase = "destroyed")' <=> (phase = "destroyed"))
    BY <1>2 DEF CreateFails, BeginDestroy, BeginJoin, JoinWorker
  <2> QED
    BY <1>1, <1>e, <2>1
<1>16. CASE CreateWorker
  <2>1. count + 1 \in Workers /\ count + 1 > count
    BY <1>0, <1>16, PoolAssumption DEF CreateWorker, TypeOK, CallInv, Workers
  <2>2. wpc[count + 1] # "failed" /\ wpc'[count + 1] # "failed"
    BY <1>0, <1>16, <2>1 DEF CreateWorker, CallInv, TypeOK
  <2>3. ~Deserted /\ ~Deserted'
    BY <1>d, <2>1, <2>2
  <2>4. UNCHANGED <<mem, ran, wjob>> /\ ((phase = "destroyed")' <=> (phase = "destroyed"))
    BY <1>16 DEF CreateWorker
  <2> QED
    BY <1>1, <2>3, <2>4
<1>3. ASSUME NEW c \in Clients, NEW j \in handles, AwaitJob(c, j)
      PROVE  UNCHANGED <<Stage, Deserted, phase = "destroyed">>
  <2>1. UNCHANGED <<mem, ran, wjob, wpc, phase>>
    BY <1>3 DEF AwaitJob
  <2> QED
    BY <1>1, <1>e, <2>1
<1>4. ASSUME NEW c \in Clients,
             PostJob(c) \/ PostShutdownJob(c) \/ AwaitWake(c) \/ AwaitInterrupted(c)
      PROVE  UNCHANGED <<Stage, Deserted, phase = "destroyed">>
  <2>1. UNCHANGED <<mem, ran, wjob, wpc, phase>>
    BY <1>4 DEF PostJob, PostShutdownJob, AwaitWake, AwaitInterrupted
  <2> QED
    BY <1>1, <1>e, <2>1
<1>v. ASSUME NEW w \in Workers, WorkerStep(w) \/ WorkerPopInterrupted(w)
      PROVE  ~Deserted /\ ~Deserted'
  <2>1. wpc[w] # "failed" /\ wpc'[w] # "failed"
    BY <1>0, <1>v DEF WorkerStep, WorkerStart, WorkerWake, WorkerCheck, WorkerPop, Dispatch,
       WorkerRun, WorkerDone, WorkerBye, WorkerExit, WorkerPopInterrupted, TypeOK
  <2> QED
    BY <1>d, <2>1
<1>5. ASSUME NEW w \in Workers,
             \/ WorkerStart(w) \/ WorkerWake(w) \/ WorkerCheck(w)
             \/ WorkerExit(w) \/ WorkerPopInterrupted(w)
      PROVE  UNCHANGED <<Stage, Deserted, phase = "destroyed">>
  <2>1. UNCHANGED <<mem, ran, wjob, phase>>
    BY <1>5 DEF WorkerStart, WorkerWake, WorkerCheck, WorkerExit, WorkerPopInterrupted
  <2>2. ~Deserted /\ ~Deserted'
    BY <1>5, <1>v DEF WorkerStep
  <2> QED
    BY <1>1, <2>1, <2>2
<1>17. ASSUME NEW w \in Workers, WorkerInterrupted(w)
       PROVE  JP!Next \/ UNCHANGED <<Stage, Deserted, phase = "destroyed">>
  <2>1. /\ wpc[w] = "wait" /\ wpc' = [wpc EXCEPT ![w] = "failed"]
        /\ UNCHANGED <<mem, ran, wjob, phase>>
    BY <1>17 DEF WorkerInterrupted
  <2>2. ~Deserted
    BY <2>1 DEF Deserted
  <2>3. CASE Deserted'
    <3>1. \A v \in Workers : wpc[v] \in {"wait", "failed"}
      BY <1>0, <2>1, <2>3 DEF Deserted, TypeOK
    <3>2. \A v \in Workers : wjob[v] = NoJob
      BY <1>0, <3>1 DEF CallInv
    <3>3. \A j \in Jobs : ~Held(j)
      BY <1>w, <3>2 DEF Held
    <3>4. \A j \in Jobs : StageOf(j) # "running"
      BY <1>s, <1>w, <3>3
    <3>5. \A j \in Jobs : Stage[j] # "running"
      BY <3>4 DEF Stage
    <3>6. Stage' = Stage
      BY <2>1 DEF Stage, StageOf
    <3>7. Deserted' = TRUE
      BY <2>3
    <3>8. JP!Desert
      BY <2>1, <2>2, <3>5, <3>6, <3>7 DEF JP!Desert, JP!Running, Stage
    <3> QED
      BY <3>8 DEF JP!Next
  <2>4. CASE ~Deserted'
    BY <1>1, <2>1, <2>2, <2>4
  <2> QED
    BY <2>3, <2>4
<1>6. CASE UNCHANGED vars
  <2>1. UNCHANGED <<mem, ran, wjob, wpc, phase>>
    BY <1>6 DEF vars
  <2> QED
    BY <1>1, <1>e, <2>1
<1>7. ASSUME NEW j \in Jobs, NEW old, NEW new, StageOf(j) = old, StageOf(j)' = new,
             \A k \in Jobs : k # j => StageOf(k)' = StageOf(k)
      PROVE  Stage[j] = old /\ Stage' = [Stage EXCEPT ![j] = new]
  BY <1>7 DEF Stage
<1>8. ASSUME NEW c \in Clients, NEW j \in Jobs, Submit(c, j) PROVE JP!Next
  <2>1. /\ mem[j] = "none" /\ mem' = [mem EXCEPT ![j] = "live"]
        /\ UNCHANGED <<ran, wjob, wpc, phase>>
        /\ phase = "open" /\ ran[j] = 0 /\ ~Held(j)
    BY <1>0, <1>w, <1>8 DEF Submit, PushJob, LifeInv, HeldInv, Held
  <2>2. \A k \in JobIds : Held(k)' <=> Held(k)
    BY <2>1 DEF Held
  <2>3. StageOf(j) = "new" /\ StageOf(j)' = "queued"
    BY <1>0, <1>s, <1>t, <1>w, <2>1, <2>2 DEF TypeOK
  <2>4. \A k \in Jobs : k # j => StageOf(k)' = StageOf(k)
    BY <1>0, <1>s, <1>t, <1>w, <2>1, <2>2 DEF TypeOK
  <2>5. Stage[j] = "new" /\ Stage' = [Stage EXCEPT ![j] = "queued"]
    BY <1>7, <2>3, <2>4
  <2>7. UNCHANGED Deserted
    BY <1>e, <1>f, <2>1
  <2>6. JP!Submit(j)
    BY <2>1, <2>5, <2>7 DEF JP!Submit, Stage
  <2> QED
    BY <2>6 DEF JP!Next
<1>9. CASE DestroyRound
  <2>1. count + 1 \in Workers
    BY <1>0, <1>9, PoolAssumption DEF DestroyRound, TypeOK, Workers
  <2>2. /\ mem' = [mem EXCEPT ![count + 1] = "live"] /\ UNCHANGED <<ran, wjob, wpc, phase>>
    BY <1>9 DEF DestroyRound, PushJob
  <2>3. \A k \in Jobs : mem'[k] = mem[k] /\ (Held(k)' <=> Held(k))
    BY <1>0, <1>w, <2>1, <2>2 DEF TypeOK, Held
  <2>4. \A k \in Jobs : StageOf(k)' = StageOf(k)
    BY <1>s, <1>t, <1>w, <2>2, <2>3
  <2> QED
    BY <1>e, <2>2, <2>4, Invisible
<1>10. ASSUME NEW w \in Workers, WorkerPop(w)
       PROVE  JP!Next \/ UNCHANGED <<Stage, Deserted, phase = "destroyed">>
  <2>0. ~Deserted /\ ~Deserted'
    BY <1>10, <1>v DEF WorkerStep
  <2>3. UNCHANGED Deserted
    BY <1>f, <2>0
  <2>1. CASE queue = <<>>
    <3>1. wjob[w] = NoJob
      BY <1>0, <1>10 DEF WorkerPop, CallInv
    <3>2. UNCHANGED <<mem, ran, wjob, phase>>
      BY <1>0, <1>10, <2>1, <3>1 DEF WorkerPop, TypeOK
    <3> QED
      BY <1>1, <2>0, <3>2
  <2>2. CASE queue # <<>>
    <3>0. PICK j \in JobIds : j = queue[1]
      BY <1>0, <1>10, <2>2, PopQueue
    <3>1. /\ Queued(j) /\ UNCHANGED <<mem, ran, phase>>
          /\ wjob' = [wjob EXCEPT ![w] = j] /\ wjob[w] = NoJob /\ wpc[w] = "pop"
      <4>1. UNCHANGED ran /\ wjob[w] = NoJob
        BY <1>0, <1>10 DEF WorkerPop, CallInv
      <4> QED
        BY <1>0, <1>10, <2>2, <3>0, <4>1, PopQueue
    <3>2. mem[j] = "live" /\ ran[j] = 0 /\ ~Held(j)
      BY <1>0, <1>w, <3>1 DEF QueuedInv, HeldInv, Queued, Held
    <3>3. \A k \in JobIds : Held(k)' <=> Held(k) \/ k = j
      BY <1>0, <1>w, <3>1 DEF Held, TypeOK
    <3>4. \A k \in Jobs : k # j => StageOf(k)' = StageOf(k)
      BY <1>s, <1>t, <1>w, <3>1, <3>3
    <3>5. CASE j \in Jobs
      <4>1. StageOf(j) = "queued" /\ StageOf(j)' = "running"
        BY <1>s, <1>t, <3>1, <3>2, <3>3
      <4>2. Stage[j] = "queued" /\ Stage' = [Stage EXCEPT ![j] = "running"]
        BY <1>7, <3>4, <3>5, <4>1
      <4>3. phase # "destroyed" /\ phase' # "destroyed"
        BY <1>0, <3>1 DEF JoinInv
      <4>4. Cardinality({k \in Jobs : Stage[k] = "running"}) < N
        BY <3>1, WorkerPerJob
      <4>5. JP!Start(j)
        <5>1. JP!Running = {k \in Jobs : Stage[k] = "running"}
          BY DEF JP!Running, Stage
        <5>2. JP!Cardinality(JP!Running) = Cardinality(JP!Running)
          BY DEF JP!Cardinality, Cardinality
        <5>3. JP!Cardinality(JP!Running) < N
          BY <4>4, <5>1, <5>2
        <5> QED
          BY <2>0, <2>3, <4>2, <4>3, <5>3 DEF JP!Start, Stage
      <4> QED
        BY <3>5, <4>5 DEF JP!Next
    <3>6. CASE j \notin Jobs
      BY <2>0, <3>1, <3>4, <3>6, Invisible
    <3> QED
      BY <3>5, <3>6
  <2> QED
    BY <2>1, <2>2
<1>11. ASSUME NEW w \in Workers, WorkerRun(w) PROVE UNCHANGED <<Stage, Deserted, phase = "destroyed">>
  <2> DEFINE j == wjob[w]
  <2>1. j \in Jobs /\ mem[j] = "live" /\ Held(j)
    BY <1>0, <1>w, <1>11 DEF WorkerRun, CallInv, HeldInv, Held
  <2>2. ran' = [ran EXCEPT ![j] = @ + 1] /\ UNCHANGED <<mem, wjob, phase>>
    BY <1>11 DEF WorkerRun
  <2> HIDE DEF j
  <2>3. \A k \in JobIds : Held(k)' <=> Held(k)
    BY <2>2 DEF Held
  <2>4. \A k \in Jobs : StageOf(k)' = StageOf(k)
    BY <1>0, <1>s, <1>t, <1>w, <2>1, <2>2, <2>3 DEF TypeOK
  <2>5. ~Deserted /\ ~Deserted'
    BY <1>11, <1>v DEF WorkerStep
  <2> QED
    BY <2>2, <2>4, <2>5, Invisible
<1>12. ASSUME NEW w \in Workers, WorkerDone(w) PROVE JP!Next
  <2>0. PICK j \in Jobs : j = wjob[w]
    BY <1>0, <1>12 DEF WorkerDone, CallInv
  <2>1. /\ mem[j] = "live" /\ Held(j) /\ ran[j] = 1
        /\ \A v \in Workers : wjob[v] = j => v = w
    BY <1>0, <1>w, <1>12, <2>0 DEF WorkerDone, CallInv, HeldInv, Held
  <2>2. wjob' = [wjob EXCEPT ![w] = NoJob] /\ UNCHANGED <<mem, ran, phase>> /\ phase # "destroyed"
    BY <1>0, <1>12 DEF WorkerDone, JoinInv
  <2>3. \A k \in JobIds : Held(k)' <=> Held(k) /\ k # j
    BY <1>0, <1>w, <2>0, <2>1, <2>2 DEF Held, TypeOK
  <2>4. StageOf(j) = "running" /\ StageOf(j)' = "done"
    BY <1>s, <1>t, <1>w, <2>1, <2>2, <2>3
  <2>5. \A k \in Jobs : k # j => StageOf(k)' = StageOf(k)
    BY <1>s, <1>t, <1>w, <2>2, <2>3
  <2>6. Stage[j] = "running" /\ Stage' = [Stage EXCEPT ![j] = "done"]
    BY <1>7, <2>1, <2>4, <2>5
  <2>8. ~Deserted /\ ~Deserted'
    BY <1>12, <1>v DEF WorkerStep
  <2>7. JP!Finish(j)
    <3>1. UNCHANGED Deserted
      BY <1>f, <2>8
    <3> QED
      BY <2>2, <2>6, <3>1 DEF JP!Finish, Stage
  <2> QED
    BY <2>1, <2>7 DEF JP!Next
<1>13. ASSUME NEW w \in Workers, WorkerBye(w) PROVE UNCHANGED <<Stage, Deserted, phase = "destroyed">>
  <2>1. wjob[w] \in Workers /\ wjob' = [wjob EXCEPT ![w] = NoJob] /\ UNCHANGED <<mem, ran, phase>>
    BY <1>0, <1>13 DEF WorkerBye, CallInv
  <2>2. \A k \in Jobs : Held(k)' <=> Held(k)
    BY <1>0, <1>w, <2>1 DEF Held, TypeOK
  <2>3. \A k \in Jobs : StageOf(k)' = StageOf(k)
    BY <1>s, <1>t, <1>w, <2>1, <2>2
  <2>4. ~Deserted /\ ~Deserted'
    BY <1>13, <1>v DEF WorkerStep
  <2> QED
    BY <2>1, <2>3, <2>4, Invisible
<1>14. ASSUME NEW c \in Clients, AwaitFree(c)
       PROVE  JP!Next \/ UNCHANGED <<Stage, Deserted, phase = "destroyed">>
  <2>0. PICK j \in JobIds : j = cjob[c]
    BY <1>0, <1>14 DEF AwaitFree, CallInv, TypeOK
  <2>1. mem[j] = "live" /\ ~Held(j) /\ (j \in Jobs => ran[j] = 1)
    BY <1>0, <1>14, <2>0 DEF AwaitFree, CallInv, CalledInv, Finished
  <2>2. mem' = [mem EXCEPT ![j] = "freed"] /\ UNCHANGED <<ran, wjob, wpc, phase>>
    BY <1>14, <2>0 DEF AwaitFree
  <2>3. \A k \in JobIds : Held(k)' <=> Held(k)
    BY <2>2 DEF Held
  <2>4. \A k \in Jobs : k # j => StageOf(k)' = StageOf(k)
    BY <1>0, <1>s, <1>t, <1>w, <2>2, <2>3 DEF TypeOK
  <2>5. CASE j \in Jobs
    <3>1. StageOf(j) = "done" /\ StageOf(j)' = "collected"
      <4>1. mem'[j] = "freed"
        BY <1>0, <2>2 DEF TypeOK
      <4> QED
        BY <1>s, <1>t, <2>1, <2>5, <4>1
    <3>2. Stage[j] = "done" /\ Stage' = [Stage EXCEPT ![j] = "collected"]
      BY <1>7, <2>4, <2>5, <3>1
    <3>3. JP!Collect(j)
      <4>1. UNCHANGED Deserted
        BY <1>e, <1>f, <2>2
      <4> QED
        BY <2>2, <3>2, <4>1 DEF JP!Collect, Stage
    <3> QED
      BY <2>5, <3>3 DEF JP!Next
  <2>6. CASE j \notin Jobs
    BY <1>e, <2>2, <2>4, <2>6, Invisible
  <2> QED
    BY <2>5, <2>6
<1>15. CASE ReleasePool
  <2>1. phase = "join" /\ count = N /\ phase' = "destroyed" /\ UNCHANGED <<mem, ran, wjob, wpc>>
    BY <1>15 DEF ReleasePool
  <2>2. \A w \in Workers : wpc[w] \in {"exited", "failed"}
    BY <1>0, <2>1, PoolAssumption DEF JoinInv, Workers
  <2>3. \A j \in Jobs : ~Held(j) /\ (Queued(j) => Deserted)
    BY <2>2, AllServed
  <2>4. \A j \in Jobs : mem[j] = "live" => ran[j] = 1 \/ Deserted
    BY <1>0, <1>w, <2>3 DEF LifeInv, CalledInv, Finished
  <2>5. \A j \in Jobs : Stage[j] # "running" /\ (Stage[j] # "queued" \/ Deserted)
    <3>1. \A j \in Jobs : mem[j] \in {"none", "live", "freed"}
      BY <1>0, <1>w DEF TypeOK
    <3>2. \A j \in Jobs : StageOf(j) # "running" /\ (StageOf(j) # "queued" \/ Deserted)
      BY <1>s, <1>w, <2>3, <2>4, <3>1
    <3> QED
      BY <3>2 DEF Stage
  <2>6. Stage' = Stage
    BY <2>1 DEF Stage, StageOf
  <2>7. JP!Close
    <3>1. UNCHANGED Deserted
      BY <1>e, <1>f, <2>1
    <3>2. \A j \in Jobs : Stage[j] # "queued" \/ Deserted
      BY <2>5
    <3>3. JP!Running = {}
      BY <2>5 DEF JP!Running, Stage
    <3> QED
      BY <2>1, <2>6, <3>1, <3>2, <3>3 DEF JP!Close, Stage
  <2> QED
    BY <2>7 DEF JP!Next
<1> QED
  BY <1>2, <1>3, <1>4, <1>5, <1>6, <1>8, <1>9, <1>10, <1>11, <1>12, <1>13, <1>14, <1>15, <1>16,
     <1>17 DEF Next, ClientStep, WorkerStep, DestroyStep, Stopped

\* The semaphores, the queue and the job descriptors of
\* thread_pool.c implement the pool that thread_pool.h describes.
THEOREM PoolImplementsJobPool == Spec => ImplementsJobPool
<1>1. Init => JP!Init
  BY InitRefines
<1>2. PoolInv /\ [Next]_vars => [JP!Next]_<<[j \in Jobs |-> StageOf(j)], Deserted, phase = "destroyed">>
  BY NextRefines
<1> QED
  BY InitPoolInv, NextPoolInv, <1>1, <1>2, PTL DEF Spec, ImplementsJobPool, JP!Spec

-----------------------------------------------------------------------------
(* The server.                                                             *)

\* How far the main thread is says how far the pool and the listener are.
MainInv ==
    /\ mpc = "start" => lpc = "none" /\ phase \in {"create", "open"}
    /\ mpc = "failed" => lpc = "none"
    /\ mpc = "join" => phase = "open"
    /\ mpc \in {"drain", "await"} => lpc = "ended" /\ phase = "open"
    /\ mpc = "destroy" => /\ lpc = "ended" /\ job_ids = <<>>
                          /\ phase \in {"shutdown", "join", "destroyed"}
    /\ mpc = "done" => lpc = "ended" /\ phase = "destroyed"
    /\ IF mpc = "await" THEN cjob[Main] \in Jobs
       ELSE IF mpc = "destroy" THEN cjob[Main] \notin Jobs ELSE cjob[Main] = NoJob

\* The job the listener has in hand, from accept to the end of pool_await.
HandInv ==
    /\ lpc \in {"submit", "post", "enqueue", "await", "free"} => ljob \in Jobs
    /\ lpc = "submit" => mem[ljob] = "none" /\ conn[ljob] = "open"
    /\ lpc \in {"post", "await", "free"} => cjob[Listener] = ljob
    /\ lpc = "enqueue" => ljob \in handles /\ \A i \in 1..Len(job_ids) : job_ids[i] # ljob

\* job_id_queue holds each JobId once, and only ones that were not awaited.
IdsInv ==
    /\ \A i \in 1..Len(job_ids) : job_ids[i] \in handles
    /\ \A i, k \in 1..Len(job_ids) : job_ids[i] = job_ids[k] => i = k

\* The listener accepts only below the bound, and shortens the queue by what
\* it counted when it went above.
BoundInv ==
    /\ Len(job_ids) <= HttpMaxQueueSize + 1
    /\ lpc \in {"none", "poll", "accept", "submit", "post", "enqueue"} =>
          Len(job_ids) <= HttpMaxQueueSize
    /\ lpc = "drain" => /\ 0 < excess /\ excess <= Len(job_ids)
                        /\ Len(job_ids) <= excess + HttpMaxQueueSize
    /\ lpc \in {"await", "free"} => /\ 0 < excess /\ excess <= Len(job_ids) + 1
                                    /\ Len(job_ids) + 1 <= excess + HttpMaxQueueSize

\* A connection whose handler has returned is off the server's hands.
ConnInv ==
    \A j \in Jobs : /\ mem[j] # "none" => conn[j] \in {"open"} \cup Handled
                    /\ ran[j] > 0 => conn[j] \in Handled

\* As long as the listener is not cancelled, somebody is about to await every
\* job that was submitted, or its await was interrupted.
KeptInv ==
    cancel \/ \A j \in Jobs : mem[j] = "live" =>
        \/ \E i \in 1..Len(job_ids) : job_ids[i] = j
        \/ ljob = j /\ lpc \in {"post", "enqueue", "await", "free"}
        \/ cjob[Main] = j
        \/ j \in dropped

ServerInv ==
    /\ PoolInv /\ ServerTypeOK
    /\ MainInv /\ HandInv /\ IdsInv /\ BoundInv /\ ConnInv /\ KeptInv

\* A step of the server is a step of the pool or leaves it alone.
LEMMA ServerIsPool == ServerInv /\ [ServerNext]_allVars => [Next]_vars
<1> SUFFICES ASSUME ServerInv, [ServerNext]_allVars PROVE [Next]_vars
  OBVIOUS
<1>c. Listener \in Clients /\ Main \in Clients
  BY ServerAssumption DEF Main
<1>1. CASE UNCHANGED vars
  BY <1>1
<1>2. ASSUME NEW j \in Jobs, Connect(j) \/ AcceptFails(j) \/ Accept(j) PROVE UNCHANGED vars
  BY <1>2 DEF Connect, AcceptFails, Accept
<1>3. CASE SigIntElsewhere \/ SigIntInPoll \/ PollTimeout \/ PollReady \/ ListenerEnqueue
           \/ ListenerCancelled \/ StartListener \/ MainJoin \/ MainCleanup \/ ServerStopped
  BY <1>3 DEF SigIntElsewhere, SigIntInPoll, PollTimeout, PollReady, ListenerEnqueue,
     ListenerCancelled, StartListener, MainJoin, MainCleanup, ServerStopped, allVars
<1>4. CASE ListenerPush
  <2>1. ljob \in Jobs /\ Submit(Listener, ljob)
    BY <1>4 DEF ListenerPush, ServerInv, HandInv
  <2> QED
    BY <1>c, <2>1 DEF Next
<1>5. CASE ListenerPost \/ ListenerWake \/ ListenerFree
  <2>1. ClientStep(Listener)
    BY <1>5 DEF ListenerPost, ListenerWake, ListenerFree, ClientStep
  <2> QED
    BY <1>c, <2>1 DEF Next
<1>6. CASE ListenerDrain
  <2>1. Head(job_ids) \in handles /\ AwaitJob(Listener, Head(job_ids))
    BY <1>6 DEF ListenerDrain, AwaitJob
  <2> QED
    BY <1>c, <2>1 DEF Next
<1>7. CASE MainDrain
  <2>1. Head(job_ids) \in handles /\ AwaitJob(Main, Head(job_ids))
    BY <1>7 DEF MainDrain, AwaitJob
  <2> QED
    BY <1>c, <2>1 DEF Next
<1>8. CASE MainWake \/ MainFree
  <2>1. ClientStep(Main)
    BY <1>8 DEF MainWake, MainFree, ClientStep
  <2> QED
    BY <1>c, <2>1 DEF Next
<1>11. CASE SigIntInListenerAwait \/ SigIntInMainAwait
  <2>1. AwaitInterrupted(Listener) \/ AwaitInterrupted(Main)
    BY <1>11 DEF SigIntInListenerAwait, SigIntInMainAwait
  <2> QED
    BY <1>c, <2>1 DEF Next
<1>9. CASE MainDestroy \/ MainDestroyStep \/ PoolCreateStep \/ PoolCreateFails
  BY <1>c, <1>9 DEF MainDestroy, MainDestroyStep, PoolCreateStep, PoolCreateFails, Next
<1>10. ASSUME NEW w \in Workers,
              ShutdownRequest(w) \/ HandlerReturns(w) \/ WorkerLoop(w) \/ SigIntAtWorker(w)
       PROVE  [Next]_vars
  <2>1. UNCHANGED vars \/ WorkerStep(w) \/ WorkerInterrupted(w) \/ WorkerPopInterrupted(w)
    BY <1>10 DEF ShutdownRequest, HandlerReturns, WorkerLoop, SigIntAtWorker, WorkerStep
  <2> QED
    BY <2>1 DEF Next
<1> QED
  BY <1>1, <1>2, <1>3, <1>4, <1>5, <1>6, <1>7, <1>8, <1>9, <1>10, <1>11
     DEF ServerNext, ListenerStep, MainStep, allVars

\* A server that has not called pool_create satisfies the invariant.
LEMMA InitServer == ServerInit => ServerInv
<1> SUFFICES ASSUME ServerInit PROVE ServerInv
  OBVIOUS
<1>1. PoolInv /\ TypeOK
  BY InitPoolInv DEF ServerInit, PoolInv, TypeInv
<1>2. Len(job_ids) = 0 /\ HttpMaxQueueSize \in Nat /\ Main \in Clients /\ Jobs \subseteq JobIds
  BY ServerAssumption DEF ServerInit, Main, JobIds
<1>3. MainInv /\ HandInv /\ IdsInv /\ BoundInv
  BY <1>2 DEF ServerInit, Init, MainInv, HandInv, IdsInv, BoundInv
<1>4. ConnInv /\ KeptInv
  BY <1>2 DEF ServerInit, Init, ConnInv, KeptInv
<1>5. ServerTypeOK
  <2>1. conn \in [Jobs -> {"none", "backlog", "open"} \cup Handled] /\ job_ids \in Seq(Jobs)
    BY DEF ServerInit
  <2> QED
    BY <1>1, <2>1 DEF ServerInit, ServerTypeOK
<1> QED
  BY <1>1, <1>3, <1>4, <1>5 DEF ServerInv

\* Steps that do not concern the pool preserve the invariant.
LEMMA OutsideServer ==
    ASSUME ServerInv, UNCHANGED vars,
           \/ \E j \in Jobs : Connect(j) \/ AcceptFails(j) \/ Accept(j)
           \/ SigIntElsewhere \/ SigIntInPoll \/ PollTimeout \/ PollReady
           \/ ListenerEnqueue \/ ListenerCancelled
           \/ \E w \in Workers : ShutdownRequest(w)
           \/ StartListener \/ MainJoin \/ MainCleanup \/ UNCHANGED allVars
    PROVE  /\ ServerTypeOK' /\ MainInv' /\ HandInv' /\ IdsInv' /\ BoundInv' /\ ConnInv' /\ KeptInv'
<1>0. /\ ServerTypeOK /\ MainInv /\ HandInv /\ IdsInv /\ BoundInv /\ ConnInv /\ KeptInv
      /\ TypeOK /\ TypeOK' /\ LifeInv
  <2>1. TypeOK /\ LifeInv
    BY DEF ServerInv, PoolInv, TypeInv, OwnInv
  <2>2. TypeOK'
    BY <2>1 DEF TypeOK, vars, jobVars, workerVars, clientVars, poolVars
  <2> QED
    BY <2>1, <2>2 DEF ServerInv
<1>p. UNCHANGED <<mem, ran, cjob, handles, dropped, phase>> /\ "closed" \in Handled
      /\ "none" \notin Handled /\ "backlog" \notin Handled /\ "open" \notin Handled
  BY DEF vars, jobVars, workerVars, clientVars, poolVars, Handled
<1>j. Jobs \subseteq JobIds /\ HttpMaxQueueSize \in Nat /\ Len(job_ids) \in Nat
  BY <1>0, ServerAssumption DEF JobIds, ServerTypeOK
<1> USE DEF listenerVars, serverVars
<1>1. ASSUME NEW j \in Jobs, Connect(j)
      PROVE  /\ ServerTypeOK' /\ MainInv' /\ HandInv' /\ IdsInv' /\ BoundInv' /\ ConnInv' /\ KeptInv'
  <2>1. ServerTypeOK' /\ ConnInv' /\ HandInv'
    BY <1>0, <1>1, <1>p DEF Connect, ServerTypeOK, ConnInv, HandInv
  <2>2. MainInv' /\ IdsInv' /\ BoundInv' /\ KeptInv'
    BY <1>0, <1>1, <1>p DEF Connect, MainInv, Main, IdsInv, BoundInv, KeptInv
  <2> QED
    BY <2>1, <2>2
<1>2. ASSUME NEW j \in Jobs, AcceptFails(j)
      PROVE  /\ ServerTypeOK' /\ MainInv' /\ HandInv' /\ IdsInv' /\ BoundInv' /\ ConnInv' /\ KeptInv'
  <2>1. ServerTypeOK' /\ ConnInv' /\ HandInv'
    BY <1>0, <1>2, <1>p DEF AcceptFails, ServerTypeOK, ConnInv, HandInv
  <2>2. MainInv' /\ IdsInv' /\ BoundInv'
    BY <1>0, <1>2, <1>p, <1>j DEF AcceptFails, MainInv, Main, IdsInv, BoundInv
  <2>3. KeptInv'
    BY <1>0, <1>2, <1>p DEF AcceptFails, Main, KeptInv
  <2> QED
    BY <2>1, <2>2, <2>3
<1>3. ASSUME NEW j \in Jobs, Accept(j)
      PROVE  /\ ServerTypeOK' /\ MainInv' /\ HandInv' /\ IdsInv' /\ BoundInv' /\ ConnInv' /\ KeptInv'
  <2>0. mem[j] = "none" /\ ran[j] = 0
    BY <1>0, <1>3, <1>j, <1>p DEF Accept, ConnInv, LifeInv
  <2>1. ServerTypeOK' /\ ConnInv'
    BY <1>0, <1>3, <1>p, <2>0 DEF Accept, ServerTypeOK, ConnInv
  <2>2. MainInv' /\ IdsInv' /\ BoundInv'
    BY <1>0, <1>3, <1>p, <1>j DEF Accept, MainInv, Main, IdsInv, BoundInv
  <2>3. KeptInv'
    BY <1>0, <1>3, <1>p DEF Accept, Main, KeptInv
  <2>4. HandInv'
    BY <1>0, <1>3, <1>p, <2>0 DEF Accept, HandInv, ServerTypeOK
  <2> QED
    BY <2>1, <2>2, <2>3, <2>4
<1>4. CASE SigIntElsewhere \/ SigIntInPoll \/ PollReady \/ ListenerCancelled
  <2>1. ServerTypeOK'
    BY <1>0, <1>4 DEF SigIntElsewhere, SigIntInPoll, PollReady, ListenerCancelled, ServerTypeOK
  <2>2. MainInv'
    BY <1>0, <1>4, <1>p DEF SigIntElsewhere, SigIntInPoll, PollReady, ListenerCancelled,
       CancellationPoints, MainInv, Main
  <2>3. HandInv'
    BY <1>0, <1>4, <1>p DEF SigIntElsewhere, SigIntInPoll, PollReady, ListenerCancelled, HandInv
  <2>4. IdsInv' /\ ConnInv'
    BY <1>0, <1>4, <1>p DEF SigIntElsewhere, SigIntInPoll, PollReady, ListenerCancelled,
       IdsInv, ConnInv
  <2>5. BoundInv'
    BY <1>0, <1>4, <1>j DEF SigIntElsewhere, SigIntInPoll, PollReady, ListenerCancelled, BoundInv
  <2>6. KeptInv'
    BY <1>0, <1>4, <1>p DEF SigIntElsewhere, SigIntInPoll, PollReady, ListenerCancelled,
       KeptInv, Main
  <2> QED
    BY <2>1, <2>2, <2>3, <2>4, <2>5, <2>6
<1>5. CASE UNCHANGED allVars
  BY <1>0, <1>5 DEF allVars, vars, jobVars, workerVars, clientVars, poolVars, ServerTypeOK,
     MainInv, Main, HandInv, IdsInv, BoundInv, ConnInv, KeptInv
<1>6. CASE ListenerEnqueue
  <2> DEFINE n == Len(job_ids)
  <2>1. /\ ljob \in Jobs /\ ljob \in handles /\ n \in Nat /\ n <= HttpMaxQueueSize
        /\ \A i \in 1..n : job_ids[i] # ljob
    BY <1>0, <1>6, <1>j DEF ListenerEnqueue, HandInv, BoundInv
  <2>2. /\ job_ids' \in Seq(Jobs) /\ Len(job_ids') = n + 1 /\ job_ids'[n + 1] = ljob
        /\ \A i \in 1..n : job_ids'[i] = job_ids[i]
        /\ \A i \in 1..(n + 1) : i \in 1..n \/ i = n + 1
    BY <1>0, <1>6, <2>1 DEF ListenerEnqueue, ServerTypeOK
  <2> HIDE DEF n
  <2>3. /\ excess' = IF n + 1 > HttpMaxQueueSize THEN (n + 1) - (n + 1) \div 2 ELSE 0
        /\ lpc' = IF excess' > 0 THEN "drain" ELSE "poll"
        /\ ljob' = NoJob /\ UNCHANGED <<cancel, signal, conn, mpc>>
    BY <1>6, <2>2 DEF ListenerEnqueue, Excess
  <2>4. excess' \in Nat /\ (lpc' = "poll" => n + 1 <= HttpMaxQueueSize)
        /\ (lpc' = "drain" => 0 < excess' /\ excess' <= n + 1 /\ n + 1 <= excess' + HttpMaxQueueSize)
    BY <1>j, <2>1, <2>3
  <2>5. ServerTypeOK'
    BY <1>0, <2>2, <2>3, <2>4 DEF ServerTypeOK
  <2>6. MainInv'
    BY <1>0, <1>6, <1>p, <2>3 DEF ListenerEnqueue, MainInv, Main
  <2>7. HandInv' /\ ConnInv'
    BY <1>0, <1>p, <2>3 DEF HandInv, ConnInv
  <2>8. IdsInv'
    BY <1>0, <1>p, <2>1, <2>2 DEF IdsInv, n
  <2>9. BoundInv'
    BY <1>j, <2>1, <2>2, <2>3, <2>4 DEF BoundInv
  <2>10. KeptInv'
    <3>1. \A j : (\E i \in 1..n : job_ids[i] = j) \/ j = ljob => \E i \in 1..(n + 1) : job_ids'[i] = j
      BY <2>1, <2>2
    <3> QED
      BY <1>0, <1>6, <1>p, <2>2, <2>3, <3>1 DEF ListenerEnqueue, KeptInv, Main, n
  <2> QED
    BY <2>5, <2>6, <2>7, <2>8, <2>9, <2>10
<1>7. ASSUME NEW w \in Workers, ShutdownRequest(w)
      PROVE  /\ ServerTypeOK' /\ MainInv' /\ HandInv' /\ IdsInv' /\ BoundInv' /\ ConnInv' /\ KeptInv'
  BY <1>0, <1>7, <1>p DEF ShutdownRequest, ServerTypeOK, MainInv, Main, HandInv, IdsInv, BoundInv,
     ConnInv, KeptInv
<1>8. CASE StartListener \/ MainJoin
  <2>1. ServerTypeOK' /\ MainInv'
    BY <1>0, <1>8, <1>p DEF StartListener, MainJoin, ServerTypeOK, MainInv, Main
  <2>2. HandInv' /\ IdsInv' /\ BoundInv' /\ ConnInv'
    BY <1>0, <1>8, <1>p DEF StartListener, MainJoin, HandInv, IdsInv, BoundInv, ConnInv, MainInv
  <2>3. KeptInv'
    BY <1>0, <1>8, <1>p DEF StartListener, MainJoin, KeptInv, MainInv, Main
  <2> QED
    BY <2>1, <2>2, <2>3
<1>9. CASE MainCleanup
  <2>0. \A j \in Jobs : conn'[j] = IF conn[j] = "backlog" THEN "closed" ELSE conn[j]
    BY <1>9 DEF MainCleanup
  <2>1. ServerTypeOK'
    BY <1>0, <1>9, <1>p DEF MainCleanup, ServerTypeOK
  <2>2. HandInv' /\ IdsInv' /\ BoundInv' /\ ConnInv'
    BY <1>0, <1>9, <1>p, <2>0 DEF MainCleanup, HandInv, IdsInv, BoundInv, ConnInv, MainInv
  <2>3. KeptInv'
    BY <1>0, <1>9, <1>p DEF MainCleanup, KeptInv, Main
  <2>4. MainInv'
    <3>1. cjob[Main] = NoJob
      <4>1. cjob[Main] \notin Jobs /\ phase = "destroyed"
        BY <1>0, <1>9 DEF MainCleanup, MainInv
      <4>2. cjob[Main] \notin Workers /\ cjob[Main] \in JobIds \cup {NoJob}
        BY <1>0, <4>1, ServerAssumption DEF ServerInv, PoolInv, TypeInv, CallInv, TypeOK, Main
      <4> QED
        BY <4>1, <4>2 DEF JobIds
    <3> QED
      BY <1>0, <1>9, <1>p, <3>1 DEF MainCleanup, MainInv, Main
  <2> QED
    BY <2>1, <2>2, <2>3, <2>4
<1> QED
  BY <1>1, <1>2, <1>3, <1>4, <1>5, <1>6, <1>7, <1>8, <1>9 DEF PollTimeout

\* What all steps of a worker leave alone.
LEMMA WorkerLeaves ==
    ASSUME NEW w \in Workers, WorkerStep(w) \/ WorkerInterrupted(w) \/ WorkerPopInterrupted(w)
    PROVE  UNCHANGED <<mem, cjob, handles, dropped, phase>>
  BY DEF WorkerStep, WorkerStart, WorkerWake, WorkerCheck, WorkerPop, WorkerRun, WorkerDone,
     WorkerBye, WorkerExit, WorkerInterrupted, WorkerPopInterrupted, jobVars, workerVars,
     clientVars, poolVars

\* Workers, and the handlers that run on them, preserve the invariant.
LEMMA WorkersServer ==
    ASSUME ServerInv, TypeOK', NEW w \in Workers,
           HandlerReturns(w) \/ WorkerLoop(w) \/ SigIntAtWorker(w)
    PROVE  /\ ServerTypeOK' /\ MainInv' /\ HandInv' /\ IdsInv' /\ BoundInv' /\ ConnInv' /\ KeptInv'
<1>0. /\ ServerTypeOK /\ MainInv /\ HandInv /\ IdsInv /\ BoundInv /\ ConnInv /\ KeptInv
      /\ TypeOK /\ CallInv /\ HeldInv
  BY DEF ServerInv, PoolInv, TypeInv, OwnInv
<1>p. UNCHANGED <<mem, cjob, handles, dropped, phase>>
  <2>1. WorkerStep(w) \/ WorkerInterrupted(w) \/ WorkerPopInterrupted(w)
    BY DEF HandlerReturns, WorkerLoop, SigIntAtWorker, WorkerStep
  <2> QED
    BY <2>1, WorkerLeaves
<1>1. UNCHANGED <<lpc, ljob, excess, job_ids, cancel, mpc>>
  BY DEF HandlerReturns, WorkerLoop, SigIntAtWorker, serverVars, listenerVars
<1>2. MainInv' /\ IdsInv' /\ BoundInv' /\ KeptInv'
  BY <1>0, <1>p, <1>1 DEF MainInv, Main, IdsInv, BoundInv, KeptInv
<1>3. CASE HandlerReturns(w)
  <2>1. wjob[w] \in Jobs /\ mem[wjob[w]] = "live"
    BY <1>0, <1>3, PoolAssumption DEF HandlerReturns, WorkerRun, CallInv, HeldInv, JobIds
  <2>2. PICK how \in Handled : conn' = [conn EXCEPT ![wjob[w]] = how]
    BY <1>3 DEF HandlerReturns
  <2>6. UNCHANGED signal /\ ran' = [ran EXCEPT ![wjob[w]] = @ + 1]
    BY <1>3 DEF HandlerReturns, WorkerRun
  <2>3. ServerTypeOK'
    BY <1>0, <1>1, <2>1, <2>2, <2>6 DEF ServerTypeOK
  <2>4. ConnInv'
    BY <1>0, <1>p, <2>1, <2>2, <2>6 DEF ConnInv, ServerTypeOK, TypeOK, JobIds
  <2>5. HandInv'
    <3>1. lpc = "submit" => ljob # wjob[w] /\ ljob \in Jobs
      BY <1>0, <2>1 DEF HandInv
    <3> QED
      BY <1>0, <1>p, <1>1, <2>2, <3>1 DEF HandInv, ServerTypeOK
  <2> QED
    BY <1>2, <2>3, <2>4, <2>5
<1>4. CASE WorkerLoop(w) \/ SigIntAtWorker(w)
  <2>1. UNCHANGED <<conn, ran>> /\ signal' \in BOOLEAN
    BY <1>0, <1>4 DEF WorkerLoop, SigIntAtWorker, serverVars, WorkerStart, WorkerWake, WorkerCheck,
       WorkerPop, WorkerDone, WorkerBye, WorkerExit, WorkerInterrupted, WorkerPopInterrupted,
       jobVars, ServerTypeOK
  <2>2. ServerTypeOK'
    BY <1>0, <1>1, <2>1 DEF ServerTypeOK
  <2>3. ConnInv' /\ HandInv'
    BY <1>0, <1>p, <1>1, <2>1 DEF ConnInv, HandInv
  <2> QED
    BY <1>2, <2>2, <2>3
<1> QED
  BY <1>3, <1>4

\* What Tail does to a queue of JobIds without repetitions.
LEMMA PopIds ==
    ASSUME job_ids \in Seq(Jobs), job_ids # <<>>, IdsInv, job_ids' = Tail(job_ids)
    PROVE  /\ Head(job_ids) \in Jobs /\ job_ids' \in Seq(Jobs)
           /\ Len(job_ids) \in Nat \ {0} /\ Len(job_ids') = Len(job_ids) - 1
           /\ \A i, k \in 1..Len(job_ids') : job_ids'[i] = job_ids'[k] => i = k
           /\ \A i \in 1..Len(job_ids') : job_ids'[i] \in handles \ {Head(job_ids)}
           /\ \A j : (\E i \in 1..Len(job_ids) : job_ids[i] = j) =>
                 j = Head(job_ids) \/ \E i \in 1..Len(job_ids') : job_ids'[i] = j
<1>1. /\ Head(job_ids) \in Jobs /\ job_ids' \in Seq(Jobs) /\ Head(job_ids) = job_ids[1]
      /\ Len(job_ids) \in Nat \ {0} /\ Len(job_ids') = Len(job_ids) - 1
      /\ \A i \in 1..Len(job_ids') : i + 1 \in 1..Len(job_ids) /\ job_ids'[i] = job_ids[i + 1]
  OBVIOUS
<1>2. \A i \in 1..Len(job_ids) : i # 1 => i - 1 \in 1..Len(job_ids') /\ job_ids'[i - 1] = job_ids[i]
  BY <1>1
<1>3. \A i, k \in 1..Len(job_ids') : job_ids'[i] = job_ids'[k] => i + 1 = k + 1
  BY <1>1 DEF IdsInv
<1>4. \A i, k \in 1..Len(job_ids') : job_ids'[i] = job_ids'[k] => i = k
  BY <1>1, <1>3
<1>5. \A i \in 1..Len(job_ids') : i + 1 # 1 /\ 1 \in 1..Len(job_ids)
  BY <1>1
<1>6. \A i \in 1..Len(job_ids') : job_ids'[i] \in handles \ {Head(job_ids)}
  BY <1>1, <1>5 DEF IdsInv
<1>7. ASSUME NEW j, NEW i \in 1..Len(job_ids), job_ids[i] = j
      PROVE  j = Head(job_ids) \/ \E k \in 1..Len(job_ids') : job_ids'[k] = j
  BY <1>1, <1>2, <1>7
<1> QED
  BY <1>1, <1>4, <1>6, <1>7

\* The listener's calls of the pool preserve the invariant.
LEMMA ListenerServer ==
    ASSUME ServerInv, TypeOK',
           \/ ListenerPush \/ ListenerPost \/ ListenerDrain \/ ListenerWake \/ ListenerFree
           \/ SigIntInListenerAwait
    PROVE  /\ ServerTypeOK' /\ MainInv' /\ HandInv' /\ IdsInv' /\ BoundInv' /\ ConnInv' /\ KeptInv'
<1>0. /\ ServerTypeOK /\ MainInv /\ HandInv /\ IdsInv /\ BoundInv /\ ConnInv /\ KeptInv
      /\ TypeOK /\ CallInv /\ CalledInv
  BY DEF ServerInv, PoolInv, TypeInv, OwnInv
<1>j. /\ Jobs \subseteq JobIds /\ HttpMaxQueueSize \in Nat /\ Len(job_ids) \in Nat
      /\ Listener \in Clients /\ Main \in Clients /\ Main # Listener
      /\ NoJob \notin Jobs /\ excess \in Nat
  BY <1>0, ServerAssumption, PoolAssumption DEF JobIds, ServerTypeOK, Main
<1> USE DEF listenerVars, serverVars, jobVars, workerVars, clientVars, poolVars
<1>1. CASE ListenerPush
  <2>1. /\ ljob \in Jobs /\ mem' = [mem EXCEPT ![ljob] = "live"] /\ lpc = "submit" /\ lpc' = "post"
        /\ cjob' = [cjob EXCEPT ![Listener] = ljob] /\ conn[ljob] = "open"
        /\ UNCHANGED <<ran, handles, dropped, phase, ljob, excess, job_ids, cancel, signal, conn, mpc>>
    BY <1>0, <1>1 DEF ListenerPush, HandInv, Submit, PushJob
  <2>2. ServerTypeOK'
    BY <1>0, <2>1 DEF ServerTypeOK
  <2>3. cjob'[Main] = cjob[Main] /\ cjob'[Listener] = ljob
    BY <1>0, <1>j, <2>1 DEF TypeOK
  <2>4. MainInv'
    BY <1>0, <2>1, <2>3 DEF MainInv
  <2>5. HandInv' /\ IdsInv' /\ BoundInv'
    BY <1>0, <2>1, <2>3 DEF HandInv, IdsInv, BoundInv
  <2>6. ConnInv' /\ KeptInv'
    BY <1>0, <1>j, <2>1, <2>3 DEF ConnInv, KeptInv, TypeOK
  <2> QED
    BY <2>2, <2>4, <2>5, <2>6
<1>2. CASE ListenerPost
  <2>1. /\ ljob \in Jobs /\ cjob[Listener] = ljob /\ handles' = handles \cup {ljob}
        /\ lpc = "post" /\ lpc' = "enqueue" /\ cjob' = [cjob EXCEPT ![Listener] = NoJob]
        /\ UNCHANGED <<mem, ran, dropped, phase, ljob, excess, job_ids, cancel, signal, conn, mpc>>
    BY <1>0, <1>2 DEF ListenerPost, HandInv, PostJob
  <2>2. ServerTypeOK'
    BY <1>0, <2>1 DEF ServerTypeOK
  <2>3. cjob'[Main] = cjob[Main]
    BY <1>0, <1>j, <2>1 DEF TypeOK
  <2>4. MainInv' /\ IdsInv' /\ BoundInv'
    BY <1>0, <2>1, <2>3 DEF MainInv, IdsInv, BoundInv
  <2>5. HandInv'
    <3>1. ljob \notin handles
      BY <1>0, <1>j, <2>1 DEF CalledInv
    <3> QED
      BY <1>0, <2>1, <3>1 DEF HandInv, IdsInv
  <2>6. ConnInv' /\ KeptInv'
    BY <1>0, <2>1, <2>3 DEF ConnInv, KeptInv
  <2> QED
    BY <2>2, <2>4, <2>5, <2>6
<1>3. CASE ListenerDrain
  <2>0. job_ids # <<>> /\ job_ids' = Tail(job_ids) /\ job_ids \in Seq(Jobs)
        /\ 0 < excess /\ excess <= Len(job_ids) /\ Len(job_ids) <= excess + HttpMaxQueueSize
    BY <1>0, <1>3, <1>j DEF ListenerDrain, BoundInv, ServerTypeOK
  <2>1. /\ ljob' = Head(job_ids) /\ handles' = handles \ {Head(job_ids)} /\ lpc = "drain"
        /\ lpc' = "await" /\ cjob' = [cjob EXCEPT ![Listener] = Head(job_ids)]
        /\ UNCHANGED <<mem, ran, dropped, phase, excess, cancel, signal, conn, mpc>>
    BY <1>0, <1>3 DEF ListenerDrain, AwaitJob
  <2>2. ServerTypeOK'
    BY <1>0, <2>0, <2>1, PopIds DEF ServerTypeOK
  <2>3. cjob'[Main] = cjob[Main] /\ cjob'[Listener] = Head(job_ids)
    BY <1>0, <1>j, <2>1 DEF TypeOK
  <2>4. MainInv' /\ ConnInv'
    BY <1>0, <2>1, <2>3 DEF MainInv, ConnInv
  <2>5. HandInv' /\ IdsInv'
    BY <1>0, <2>0, <2>1, <2>3, PopIds DEF HandInv, IdsInv
  <2>6. BoundInv'
    BY <1>0, <1>j, <2>0, <2>1, PopIds DEF BoundInv
  <2>7. KeptInv'
    BY <1>0, <2>0, <2>1, <2>3, PopIds DEF KeptInv
  <2> QED
    BY <2>2, <2>4, <2>5, <2>6, <2>7
<1>4. CASE ListenerWake
  <2>1. /\ lpc = "await" /\ lpc' = "free"
        /\ UNCHANGED <<mem, ran, cjob, handles, dropped, phase, ljob, excess, job_ids, cancel, signal, conn, mpc>>
    BY <1>4 DEF ListenerWake, AwaitWake
  <2>2. ServerTypeOK' /\ MainInv' /\ HandInv' /\ IdsInv' /\ BoundInv'
    BY <1>0, <2>1 DEF ServerTypeOK, MainInv, Main, HandInv, IdsInv, BoundInv
  <2>3. ConnInv' /\ KeptInv'
    BY <1>0, <2>1 DEF ConnInv, KeptInv, Main
  <2> QED
    BY <2>2, <2>3
<1>5. CASE ListenerFree
  <2>1. /\ lpc = "free" /\ ljob \in Jobs /\ cjob[Listener] = ljob /\ ljob' = NoJob
        /\ mem' = [mem EXCEPT ![ljob] = "freed"] /\ cjob' = [cjob EXCEPT ![Listener] = NoJob]
        /\ excess' = excess - 1 /\ lpc' = IF excess' > 0 THEN "drain" ELSE "poll"
        /\ UNCHANGED <<ran, handles, dropped, phase, job_ids, cancel, signal, conn, mpc>>
    BY <1>0, <1>5 DEF ListenerFree, AwaitFree, HandInv
  <2>2. 0 < excess /\ excess <= Len(job_ids) + 1 /\ Len(job_ids) + 1 <= excess + HttpMaxQueueSize
    BY <1>0, <2>1 DEF BoundInv
  <2>3. ServerTypeOK'
    BY <1>0, <1>j, <2>1, <2>2 DEF ServerTypeOK
  <2>4. cjob'[Main] = cjob[Main]
    BY <1>0, <1>j, <2>1 DEF TypeOK
  <2>5. MainInv' /\ HandInv' /\ IdsInv'
    BY <1>0, <2>1, <2>4 DEF MainInv, HandInv, IdsInv
  <2>6. BoundInv'
    <3>1. Len(job_ids) <= HttpMaxQueueSize + 1
      BY <1>0 DEF BoundInv
    <3>2. excess' = 0 => Len(job_ids) <= HttpMaxQueueSize
      BY <1>j, <2>1, <2>2
    <3>3. excess' \in Nat /\ excess' <= Len(job_ids) /\ Len(job_ids) <= excess' + HttpMaxQueueSize
      BY <1>j, <2>1, <2>2
    <3> QED
      BY <1>j, <2>1, <3>1, <3>2, <3>3 DEF BoundInv
  <2>7. ConnInv' /\ KeptInv'
    <3>1. mem'[ljob] = "freed" /\ \A j \in Jobs : j # ljob => mem'[j] = mem[j]
      BY <1>0, <1>j, <2>1 DEF TypeOK
    <3>2. conn[ljob] \in {"open"} \cup Handled
      BY <1>0, <1>j, <2>1 DEF ConnInv, CalledInv
    <3> QED
      BY <1>0, <2>1, <2>4, <3>1, <3>2 DEF ConnInv, KeptInv
  <2> QED
    BY <2>3, <2>5, <2>6, <2>7
<1>6. CASE SigIntInListenerAwait
  <2>1. /\ lpc = "await" /\ ljob \in Jobs /\ cjob[Listener] = ljob /\ ljob' = NoJob
        /\ dropped' = dropped \cup {ljob} /\ cjob' = [cjob EXCEPT ![Listener] = NoJob]
        /\ excess' = excess - 1 /\ lpc' = IF excess' > 0 THEN "drain" ELSE "poll"
        /\ signal' = TRUE
        /\ UNCHANGED <<mem, ran, handles, phase, job_ids, cancel, conn, mpc>>
    BY <1>0, <1>6 DEF SigIntInListenerAwait, AwaitInterrupted, HandInv
  <2>2. 0 < excess /\ excess <= Len(job_ids) + 1 /\ Len(job_ids) + 1 <= excess + HttpMaxQueueSize
    BY <1>0, <2>1 DEF BoundInv
  <2>3. ServerTypeOK'
    BY <1>0, <1>j, <2>1, <2>2 DEF ServerTypeOK
  <2>4. cjob'[Main] = cjob[Main]
    BY <1>0, <1>j, <2>1 DEF TypeOK
  <2>5. MainInv' /\ HandInv' /\ IdsInv'
    BY <1>0, <2>1, <2>4 DEF MainInv, HandInv, IdsInv
  <2>6. BoundInv'
    <3>1. Len(job_ids) <= HttpMaxQueueSize + 1
      BY <1>0 DEF BoundInv
    <3>2. excess' = 0 => Len(job_ids) <= HttpMaxQueueSize
      BY <1>j, <2>1, <2>2
    <3>3. excess' \in Nat /\ excess' <= Len(job_ids) /\ Len(job_ids) <= excess' + HttpMaxQueueSize
      BY <1>j, <2>1, <2>2
    <3> QED
      BY <1>j, <2>1, <3>1, <3>2, <3>3 DEF BoundInv
  <2>7. ConnInv' /\ KeptInv'
    BY <1>0, <2>1, <2>4 DEF ConnInv, KeptInv
  <2> QED
    BY <2>3, <2>5, <2>6, <2>7
<1> QED
  BY <1>1, <1>2, <1>3, <1>4, <1>5, <1>6

\* The main thread's calls of the pool preserve the invariant.
LEMMA MainServer ==
    ASSUME ServerInv, TypeOK',
           \/ PoolCreateStep \/ PoolCreateFails \/ MainDrain \/ MainWake \/ MainFree
           \/ MainDestroy \/ MainDestroyStep \/ SigIntInMainAwait
    PROVE  /\ ServerTypeOK' /\ MainInv' /\ HandInv' /\ IdsInv' /\ BoundInv' /\ ConnInv' /\ KeptInv'
<1>0. /\ ServerTypeOK /\ MainInv /\ HandInv /\ IdsInv /\ BoundInv /\ ConnInv /\ KeptInv
      /\ TypeOK /\ CallInv /\ CalledInv
  BY DEF ServerInv, PoolInv, TypeInv, OwnInv
<1>j. /\ Jobs \subseteq JobIds /\ HttpMaxQueueSize \in Nat /\ Len(job_ids) \in Nat
      /\ Listener \in Clients /\ Main \in Clients /\ Main # Listener
      /\ NoJob \notin Jobs /\ excess \in Nat /\ \A j \in Jobs : j \notin Workers
      /\ Workers \subseteq JobIds
  BY <1>0, ServerAssumption, PoolAssumption DEF JobIds, ServerTypeOK, Main
<1> USE DEF listenerVars, serverVars, jobVars, workerVars, clientVars, poolVars
<1>1. CASE PoolCreateStep \/ PoolCreateFails
  <2>1. /\ mpc = "start" /\ phase = "create" /\ lpc = "none"
        /\ UNCHANGED <<mem, ran, cjob, handles, dropped, lpc, ljob, excess, job_ids, cancel, signal, conn>>
        /\ \/ mpc' = "start" /\ phase' \in {"create", "open"}
           \/ mpc' = "failed"
    BY <1>0, <1>1 DEF PoolCreateStep, PoolCreateFails, CreateWorker, CreateFails, MainInv
  <2>2. ServerTypeOK' /\ HandInv' /\ IdsInv' /\ BoundInv'
    BY <1>0, <2>1 DEF ServerTypeOK, HandInv, IdsInv, BoundInv
  <2>3. MainInv' /\ ConnInv' /\ KeptInv'
    BY <1>0, <2>1 DEF MainInv, Main, ConnInv, KeptInv
  <2> QED
    BY <2>2, <2>3
<1>2. CASE MainDrain
  <2>0. job_ids # <<>> /\ job_ids' = Tail(job_ids) /\ job_ids \in Seq(Jobs)
    BY <1>0, <1>2 DEF MainDrain, ServerTypeOK
  <2>1. /\ handles' = handles \ {Head(job_ids)} /\ mpc = "drain" /\ mpc' = "await"
        /\ cjob' = [cjob EXCEPT ![Main] = Head(job_ids)] /\ cjob[Main] = NoJob /\ lpc = "ended"
        /\ UNCHANGED <<mem, ran, dropped, phase, lpc, ljob, excess, cancel, signal, conn>>
    BY <1>0, <1>2 DEF MainDrain, AwaitJob, MainInv
  <2>2. ServerTypeOK'
    BY <1>0, <2>0, <2>1, PopIds DEF ServerTypeOK
  <2>3. cjob'[Main] = Head(job_ids)
    BY <1>0, <1>j, <2>1 DEF TypeOK
  <2>4. MainInv' /\ ConnInv'
    BY <1>0, <2>0, <2>1, <2>3, PopIds DEF MainInv, ConnInv
  <2>5. HandInv' /\ IdsInv'
    BY <1>0, <2>0, <2>1, PopIds DEF HandInv, IdsInv
  <2>6. BoundInv'
    BY <1>0, <1>j, <2>0, <2>1, PopIds DEF BoundInv
  <2>7. KeptInv'
    BY <1>0, <1>j, <2>0, <2>1, <2>3, PopIds DEF KeptInv
  <2> QED
    BY <2>2, <2>4, <2>5, <2>6, <2>7
<1>3. CASE MainWake
  <2>1. UNCHANGED <<mem, ran, cjob, handles, dropped, phase, lpc, ljob, excess, job_ids, cancel, signal, conn, mpc>>
    BY <1>3 DEF MainWake, AwaitWake
  <2> QED
    BY <1>0, <2>1 DEF ServerTypeOK, MainInv, Main, HandInv, IdsInv, BoundInv, ConnInv, KeptInv
<1>4. CASE MainFree
  <2> DEFINE j == cjob[Main]
  <2>1. /\ j \in Jobs /\ mem' = [mem EXCEPT ![j] = "freed"] /\ cjob' = [cjob EXCEPT ![Main] = NoJob]
        /\ mpc = "await" /\ mpc' = "drain" /\ lpc = "ended"
        /\ UNCHANGED <<ran, handles, dropped, phase, lpc, ljob, excess, job_ids, cancel, signal, conn>>
    BY <1>0, <1>4 DEF MainFree, AwaitFree, MainInv
  <2>2. cjob'[Main] = NoJob /\ mem'[j] = "freed" /\ \A k \in Jobs : k # j => mem'[k] = mem[k]
    BY <1>0, <1>j, <2>1 DEF TypeOK
  <2>3. conn[j] \in {"open"} \cup Handled
    BY <1>0, <1>j, <2>1 DEF ConnInv, CalledInv
  <2>4. ServerTypeOK' /\ MainInv' /\ HandInv' /\ IdsInv' /\ BoundInv'
    BY <1>0, <2>1, <2>2 DEF ServerTypeOK, MainInv, HandInv, IdsInv, BoundInv
  <2>5. ConnInv'
    BY <1>0, <2>1, <2>2, <2>3 DEF ConnInv
  <2>6. KeptInv'
    BY <1>0, <2>1, <2>2 DEF KeptInv
  <2> QED
    BY <2>4, <2>5, <2>6
<1>5. CASE MainDestroy
  <2>1. /\ mpc = "drain" /\ lpc = "ended" /\ phase' = "shutdown" /\ mpc' = "destroy"
        /\ job_ids = <<>>
        /\ UNCHANGED <<mem, ran, cjob, handles, dropped, lpc, ljob, excess, job_ids, cancel, signal, conn>>
    BY <1>0, <1>5 DEF MainDestroy, BeginDestroy, MainInv
  <2>2. ServerTypeOK' /\ HandInv' /\ IdsInv' /\ BoundInv'
    BY <1>0, <2>1 DEF ServerTypeOK, HandInv, IdsInv, BoundInv
  <2>3. MainInv'
    BY <1>0, <1>j, <2>1 DEF MainInv, Main
  <2>4. ConnInv' /\ KeptInv'
    BY <1>0, <2>1 DEF ConnInv, KeptInv, Main
  <2> QED
    BY <2>2, <2>3, <2>4
<1>6. CASE MainDestroyStep
  <2>0. mpc = "destroy" /\ lpc = "ended" /\ cjob[Main] \notin Jobs /\ UNCHANGED serverVars
        /\ phase \in {"shutdown", "join", "destroyed"}
    BY <1>0, <1>6 DEF MainDestroyStep, MainInv
  <2>1. ASSUME UNCHANGED <<ran, handles, dropped>>, phase' \in {"shutdown", "join", "destroyed"},
               \A k \in Jobs : mem'[k] = mem[k], cjob'[Main] \notin Jobs
        PROVE  /\ ServerTypeOK' /\ MainInv' /\ HandInv' /\ IdsInv' /\ BoundInv' /\ ConnInv' /\ KeptInv'
    <3>1. ServerTypeOK' /\ MainInv' /\ HandInv' /\ IdsInv' /\ BoundInv'
      BY <1>0, <2>0, <2>1 DEF ServerTypeOK, MainInv, HandInv, IdsInv, BoundInv
    <3>2. ConnInv' /\ KeptInv'
      BY <1>0, <2>0, <2>1 DEF ConnInv, KeptInv
    <3> QED
      BY <3>1, <3>2
  <2>2. CASE DestroyRound
    <3>1. count + 1 \in Workers
      BY <1>0, <2>2, PoolAssumption DEF DestroyRound, TypeOK, Workers
    <3>2. /\ mem' = [mem EXCEPT ![count + 1] = "live"] /\ cjob' = [cjob EXCEPT ![Main] = count + 1]
          /\ UNCHANGED <<ran, handles, dropped, phase>>
      BY <2>2 DEF DestroyRound, PushJob, Main
    <3>3. cjob'[Main] \notin Jobs /\ \A k \in Jobs : mem'[k] = mem[k]
      BY <1>0, <1>j, <3>1, <3>2 DEF TypeOK
    <3> QED
      BY <2>0, <2>1, <3>2, <3>3
  <2>3. CASE BeginJoin \/ JoinWorker \/ ReleasePool
    BY <2>0, <2>1, <2>3 DEF BeginJoin, JoinWorker, ReleasePool
  <2>4. CASE ClientStep(Main)
    <3>1. CASE PostJob(Main)
      <4>1. cjob[Main] \in JobIds
        BY <1>0, <1>j, <3>1 DEF PostJob, CallInv, TypeOK
      <4> QED
        BY <2>0, <3>1, <4>1 DEF PostJob, JobIds
    <3>2. CASE PostShutdownJob(Main) \/ AwaitWake(Main)
      BY <2>0, <2>1, <3>2 DEF PostShutdownJob, AwaitWake
    <3>3. CASE AwaitFree(Main)
      <4>1. cjob'[Main] = NoJob /\ UNCHANGED <<ran, handles, dropped, phase>>
        BY <1>0, <1>j, <3>3 DEF AwaitFree, TypeOK
      <4>2. \A k \in Jobs : mem'[k] = mem[k]
        BY <1>0, <1>j, <2>0, <3>3 DEF AwaitFree, TypeOK
      <4> QED
        BY <1>j, <2>0, <2>1, <4>1, <4>2
    <3> QED
      BY <2>4, <3>1, <3>2, <3>3 DEF ClientStep
  <2> QED
    BY <1>6, <2>2, <2>3, <2>4 DEF MainDestroyStep, DestroyStep
<1>7. CASE SigIntInMainAwait
  <2>1. /\ mpc \in {"await", "destroy"} /\ mpc' = IF mpc = "await" THEN "drain" ELSE mpc
        /\ lpc = "ended" /\ dropped' = dropped \cup {cjob[Main]}
        /\ cjob' = [cjob EXCEPT ![Main] = NoJob] /\ signal' = TRUE
        /\ UNCHANGED <<mem, ran, handles, phase, lpc, ljob, excess, job_ids, cancel, conn>>
    BY <1>0, <1>7 DEF SigIntInMainAwait, AwaitInterrupted, MainInv
  <2>2. cjob'[Main] = NoJob
    BY <1>0, <1>j, <2>1 DEF TypeOK
  <2>3. ServerTypeOK' /\ HandInv' /\ IdsInv' /\ BoundInv'
    BY <1>0, <2>1 DEF ServerTypeOK, HandInv, IdsInv, BoundInv
  <2>4. MainInv'
    BY <1>0, <1>j, <2>1, <2>2 DEF MainInv
  <2>5. ConnInv' /\ KeptInv'
    BY <1>0, <2>1, <2>2 DEF ConnInv, KeptInv
  <2> QED
    BY <2>3, <2>4, <2>5
<1> QED
  BY <1>1, <1>2, <1>3, <1>4, <1>5, <1>6, <1>7

\* The whole invariant is inductive.
LEMMA NextServer == ServerInv /\ [ServerNext]_allVars => ServerInv'
<1> SUFFICES ASSUME ServerInv, [ServerNext]_allVars PROVE ServerInv'
  OBVIOUS
<1>1. PoolInv'
  BY ServerIsPool, NextPoolInv DEF ServerInv
<1>2. TypeOK'
  BY <1>1 DEF PoolInv, TypeInv
<1>3. SUFFICES /\ ServerTypeOK' /\ MainInv' /\ HandInv' /\ IdsInv' /\ BoundInv'
               /\ ConnInv' /\ KeptInv'
  BY <1>1 DEF ServerInv
<1>4. ASSUME NEW j \in Jobs, Connect(j) \/ AcceptFails(j) \/ Accept(j) PROVE UNCHANGED vars
  BY <1>4 DEF Connect, AcceptFails, Accept
<1>5. ASSUME \/ SigIntElsewhere \/ SigIntInPoll \/ PollTimeout \/ PollReady \/ ListenerEnqueue
             \/ ListenerCancelled \/ StartListener \/ MainJoin \/ MainCleanup \/ UNCHANGED allVars
      PROVE  UNCHANGED vars
  BY <1>5 DEF SigIntElsewhere, SigIntInPoll, PollTimeout, PollReady, ListenerEnqueue,
     ListenerCancelled, StartListener, MainJoin, MainCleanup, allVars
<1>6. ASSUME NEW w \in Workers, ShutdownRequest(w) PROVE UNCHANGED vars
  BY <1>6 DEF ShutdownRequest
<1>7. CASE \/ \E j \in Jobs : Connect(j) \/ AcceptFails(j) \/ Accept(j)
           \/ SigIntElsewhere \/ SigIntInPoll \/ PollTimeout \/ PollReady
           \/ ListenerEnqueue \/ ListenerCancelled
           \/ \E w \in Workers : ShutdownRequest(w)
           \/ StartListener \/ MainJoin \/ MainCleanup \/ UNCHANGED allVars
  <2>1. UNCHANGED vars
    BY <1>4, <1>5, <1>6, <1>7
  <2> QED
    BY <1>7, <2>1, OutsideServer
<1>8. CASE \E w \in Workers : HandlerReturns(w) \/ WorkerLoop(w) \/ SigIntAtWorker(w)
  BY <1>2, <1>8, WorkersServer
<1>9. CASE \/ ListenerPush \/ ListenerPost \/ ListenerDrain \/ ListenerWake \/ ListenerFree
           \/ SigIntInListenerAwait
  BY <1>2, <1>9, ListenerServer
<1>10. CASE \/ PoolCreateStep \/ PoolCreateFails \/ MainDrain \/ MainWake \/ MainFree
            \/ MainDestroy \/ MainDestroyStep \/ SigIntInMainAwait
  BY <1>2, <1>10, MainServer
<1> QED
  BY <1>7, <1>8, <1>9, <1>10 DEF ServerNext, ListenerStep, MainStep, ServerStopped

\* job_id_queue never exceeds HTTP_MAX_QUEUE_SIZE by more than one and never
\* holds a JobId that was awaited, whatever the timing of connections,
\* handlers, signals and a cancellation.
THEOREM JobIdQueueCorrect == ServerSpec => []JobIdQueueInv
<1>1. ServerInv => JobIdQueueInv
  <2> SUFFICES ASSUME ServerInv PROVE JobIdQueueInv
    OBVIOUS
  <2>1. ServerTypeOK /\ IdsInv /\ BoundInv /\ CalledInv
    BY DEF ServerInv, PoolInv, OwnInv
  <2> QED
    BY <2>1 DEF JobIdQueueInv, JobIdQueueBounded, JobIdsLive, IdsInv, BoundInv, CalledInv
<1> QED
  BY InitServer, NextServer, <1>1, PTL DEF ServerSpec

\* The server ends in order: every job awaited before pool_destroy unless the
\* listener was cancelled or a SIGINT interrupted the await itself, and every
\* handler gone before what it uses is released.
THEOREM ServerEndsOrderly == ServerSpec => []OrderlyEnd
<1>1. ServerInv => OrderlyEnd
  <2> SUFFICES ASSUME ServerInv PROVE OrderlyEnd
    OBVIOUS
  <2>1. PoolInv /\ MainInv /\ ConnInv /\ KeptInv /\ JoinInv /\ TypeOK /\ Jobs \subseteq JobIds
    BY DEF ServerInv, PoolInv, TypeInv, JobIds
  <2>2. ResourcesOutliveHandlers
    BY <2>1, InvExactlyOnce DEF ResourcesOutliveHandlers, MainInv, JoinInv, ConnInv, ExactlyOnce
  <2>3. ASSUME ~cancel, mpc = "destroy", NEW j \in Jobs
        PROVE  mem[j] \in {"none", "freed"} \/ j \in dropped
    <3>1. lpc = "ended" /\ Len(job_ids) = 0 /\ cjob[Main] # j
      BY <2>1, <2>3 DEF MainInv
    <3>2. mem[j] # "live" \/ j \in dropped
      BY <2>1, <2>3, <3>1 DEF KeptInv
    <3>3. mem[j] \in {"none", "live", "freed"}
      BY <2>1 DEF TypeOK
    <3> QED
      BY <3>2, <3>3
  <2> QED
    BY <2>2, <2>3 DEF OrderlyEnd, AwaitedOrGivenUp
<1> QED
  BY InitServer, NextServer, <1>1, PTL DEF ServerSpec

\* The server uses the pool as its interface allows: what is proved of the pool
\* under arbitrary callers holds for the pool inside the server.
THEOREM ServerUsesPool == ServerSpec => Spec
<1>1. ServerInit => Init
  BY DEF ServerInit
<1> QED
  BY InitServer, NextServer, ServerIsPool, <1>1, PTL DEF ServerSpec, Spec

\* In particular the pool of a running server implements JobPool.
THEOREM ServerPoolImplementsJobPool == ServerSpec => ImplementsJobPool
  BY ServerUsesPool, PoolImplementsJobPool
=============================================================================
