------------------------------- MODULE TQueue -------------------------------
(***************************************************************************)
(* The queue of src/utils/tqueue.c, step by step: a tail queue and a       *)
(* separate size counter, both guarded by the semaphore can_access, which  *)
(* starts at 1.  Each operation reads list and counter into locals and     *)
(* writes them back, so two threads inside at once would lose an update.   *)
(***************************************************************************)
EXTENDS Naturals, Sequences, FiniteSets

CONSTANTS
    Threads,    \* the threads that share the queue
    Values,     \* the pointers that are pushed, each at most once
    NoValue     \* what a thread holds that is not pushing or has not popped

ASSUME QueueAssumption == IsFiniteSet(Threads) /\ NoValue \notin Values

VARIABLES
    can_access, \* value of the semaphore
    list,       \* the entries of the STAILQ, first to last
    size,       \* queue->size
    pc,         \* where each thread is
    op,         \* the operation it is in
    arg,        \* the value it pushes, or has popped
    local,      \* the list and size it has read
    pushed,     \* history: values inserted, in order of insertion
    popped,     \* history: values removed, in order of removal
    permits     \* finished pushes minus begun pops: what a caller may pop

vars == <<can_access, list, size, pc, op, arg, local, pushed, popped, permits>>

Ops == {"push", "pop", "is_empty"}

\* tqueue_init
Init ==
    /\ can_access = 1
    /\ list = <<>>
    /\ size = 0
    /\ pc = [t \in Threads |-> "out"]
    /\ op = [t \in Threads |-> "is_empty"]
    /\ arg = [t \in Threads |-> NoValue]
    /\ local = [t \in Threads |-> [list |-> <<>>, size |-> 0]]
    /\ pushed = <<>>
    /\ popped = <<>>
    /\ permits = 0

\* A thread calls tqueue_push with a fresh pointer.
CallPush(t, v) ==
    /\ pc[t] = "out"
    /\ \A u \in Threads : arg[u] # v
    /\ \A i \in 1..Len(pushed) : pushed[i] # v
    /\ pc' = [pc EXCEPT ![t] = "wait"]
    /\ op' = [op EXCEPT ![t] = "push"]
    /\ arg' = [arg EXCEPT ![t] = v]
    /\ UNCHANGED <<can_access, list, size, local, pushed, popped, permits>>

\* A thread calls tqueue_pop.  Every caller knows of an element it may take:
\* the pool's workers from jobs_available, the servers from the queue size.
CallPop(t) ==
    /\ pc[t] = "out"
    /\ permits > 0
    /\ permits' = permits - 1
    /\ pc' = [pc EXCEPT ![t] = "wait"]
    /\ op' = [op EXCEPT ![t] = "pop"]
    /\ arg' = [arg EXCEPT ![t] = NoValue]
    /\ UNCHANGED <<can_access, list, size, local, pushed, popped>>

\* A thread calls tqueue_is_empty.
CallIsEmpty(t) ==
    /\ pc[t] = "out"
    /\ pc' = [pc EXCEPT ![t] = "wait"]
    /\ op' = [op EXCEPT ![t] = "is_empty"]
    /\ arg' = [arg EXCEPT ![t] = NoValue]
    /\ UNCHANGED <<can_access, list, size, local, pushed, popped, permits>>

\* Fault: the semaphore is not decremented.
AcquireShared(t) ==
    /\ pc[t] = "wait"
    /\ can_access > 0
    /\ pc' = [pc EXCEPT ![t] = "read"]
    /\ UNCHANGED <<can_access, list, size, op, arg, local, pushed, popped, permits>>

\* comp_sem_wait(&queue->can_access)
Acquire(t) ==
    /\ pc[t] = "wait"
    /\ can_access > 0
    /\ can_access' = can_access - 1
    /\ pc' = [pc EXCEPT ![t] = "read"]
    /\ UNCHANGED <<list, size, op, arg, local, pushed, popped, permits>>

\* The wait is interrupted by a signal: the operation returns without having
\* touched the queue.  A push reports its error and its value is not queued, a
\* pop returns NULL although there was an element, an is_empty answers "no".
AcquireInterrupted(t) ==
    /\ pc[t] = "wait"
    /\ pc' = [pc EXCEPT ![t] = "out"]
    /\ arg' = [arg EXCEPT ![t] = NoValue]
    /\ UNCHANGED <<can_access, list, size, op, local, pushed, popped, permits>>

\* The fields of the queue are read.
Read(t) ==
    /\ pc[t] = "read"
    /\ local' = [local EXCEPT ![t] = [list |-> list, size |-> size]]
    /\ pc' = [pc EXCEPT ![t] = "link"]
    /\ UNCHANGED <<can_access, list, size, op, arg, pushed, popped, permits>>

\* STAILQ_INSERT_TAIL
LinkPush(t) ==
    /\ pc[t] = "link"
    /\ op[t] = "push"
    /\ list' = Append(local[t].list, arg[t])
    /\ pushed' = Append(pushed, arg[t])
    /\ pc' = [pc EXCEPT ![t] = "size"]
    /\ UNCHANGED <<can_access, size, op, arg, local, popped, permits>>

\* STAILQ_FIRST and STAILQ_REMOVE_HEAD behind the assertion on an empty queue.
LinkPop(t) ==
    /\ pc[t] = "link"
    /\ op[t] = "pop"
    /\ IF local[t].list = <<>>
         THEN /\ pc' = [pc EXCEPT ![t] = "abort"]
              /\ UNCHANGED <<list, arg, popped>>
         ELSE /\ list' = Tail(local[t].list)
              /\ arg' = [arg EXCEPT ![t] = Head(local[t].list)]
              /\ popped' = Append(popped, Head(local[t].list))
              /\ pc' = [pc EXCEPT ![t] = "size"]
    /\ UNCHANGED <<can_access, size, op, local, pushed, permits>>

\* STAILQ_EMPTY compared with size = 0; a mismatch is the critical error.
LinkIsEmpty(t) ==
    /\ pc[t] = "link"
    /\ op[t] = "is_empty"
    /\ pc' = [pc EXCEPT ![t] = IF (local[t].list = <<>>) # (local[t].size = 0)
                                 THEN "size_error" ELSE "post"]
    /\ UNCHANGED <<can_access, list, size, op, arg, local, pushed, popped, permits>>

\* ++size or --size
CountSize(t) ==
    /\ pc[t] = "size"
    /\ size' = IF op[t] = "push" THEN local[t].size + 1 ELSE local[t].size - 1
    /\ pc' = [pc EXCEPT ![t] = "post"]
    /\ UNCHANGED <<can_access, list, op, arg, local, pushed, popped, permits>>

\* comp_sem_post(&queue->can_access) and return
Release(t) ==
    /\ pc[t] = "post"
    /\ can_access' = can_access + 1
    /\ pc' = [pc EXCEPT ![t] = "out"]
    /\ permits' = IF op[t] = "push" THEN permits + 1 ELSE permits
    /\ UNCHANGED <<list, size, op, arg, local, pushed, popped>>

Next ==
    \E t \in Threads :
        \/ \E v \in Values : CallPush(t, v)
        \/ CallPop(t) \/ CallIsEmpty(t)
        \/ Acquire(t) \/ AcquireInterrupted(t) \/ Read(t)
        \/ LinkPush(t) \/ LinkPop(t) \/ LinkIsEmpty(t)
        \/ CountSize(t) \/ Release(t)

Spec == Init /\ [][Next]_vars

-----------------------------------------------------------------------------

Inside(t) == pc[t] \in {"read", "link", "size", "post"}

\* Every variable keeps its type; the semaphore and size never underflow.
TypeOK ==
    /\ can_access \in Nat
    /\ list \in Seq(Values)
    /\ size \in Nat
    /\ pc \in [Threads -> {"out", "wait", "read", "link", "size", "post", "abort", "size_error"}]
    /\ op \in [Threads -> Ops]
    /\ arg \in [Threads -> Values \cup {NoValue}]
    /\ local \in [Threads -> [list : Seq(Values), size : Nat]]
    /\ pushed \in Seq(Values)
    /\ popped \in Seq(Values)
    /\ permits \in Nat

\* What was pushed is what was popped followed by what is queued: nothing is
\* lost, duplicated or overtaken, whatever threads interleave and whichever
\* waits are interrupted, and a caller that knows of an element never meets the
\* assertion of tqueue_pop.
Fifo ==
    /\ pushed = popped \o list
    /\ \A t \in Threads : pc[t] # "abort"

\* Whoever holds no element of the queue sees size and list agree: the
\* "internal size implementation error" of tqueue_is_empty never shows, and
\* the servers' unlocked read of job_id_queue->size between two operations is
\* exact.
SizeAgrees ==
    /\ (\A t \in Threads : ~Inside(t)) => size = Len(list)
    /\ \A t \in Threads : pc[t] # "size_error"

\* The queue is correct: its state is well formed, it is a FIFO queue and its
\* size is exact, whatever steps of tqueue_push, tqueue_pop and
\* tqueue_is_empty interleave.
QueueInv == TypeOK /\ Fifo /\ SizeAgrees
=============================================================================
