---------------------------- MODULE TQueueProofs ----------------------------
(***************************************************************************)
(* Proofs about TQueue, for any finite set of threads and any values: the  *)
(* semaphore can_access makes every queue operation atomic, which is what  *)
(* the modules that use a queue operation as one step rely on.             *)
(***************************************************************************)
EXTENDS TQueue, FiniteSetTheorems, SequenceTheorems, TLAPS

\* One thread is inside, and then the semaphore is down.
Mutex ==
    /\ can_access \in {0, 1}
    /\ \A t \in Threads : Inside(t) => can_access = 0
    /\ \A t, u \in Threads : Inside(t) /\ Inside(u) => t = u

\* What the thread inside has read is still so; between its two writes the
\* counter is off by the element it has linked or unlinked.
LocalsAgree ==
    /\ \A t \in Threads : pc[t] = "link" => local[t] = [list |-> list, size |-> size]
    /\ \A t \in Threads : pc[t] = "size" =>
          /\ op[t] \in {"push", "pop"} /\ local[t].size = size
          /\ Len(list) = IF op[t] = "push" THEN size + 1 ELSE size - 1
    /\ (\A t \in Threads : pc[t] # "size") => size = Len(list)
    /\ \A t \in Threads : op[t] = "push" /\ pc[t] \in {"wait", "read", "link"} => arg[t] \in Values

\* Pops that have been promised an element, and pushes that have linked one
\* and not announced it.
Promised    == {t \in Threads : op[t] = "pop" /\ pc[t] \in {"wait", "read", "link"}}
Unannounced == {t \in Threads : op[t] = "push" /\ pc[t] \in {"size", "post"}}

\* There is an element for everyone who was promised, has linked or may still
\* ask for one.  An interrupted pop gives its promise up and leaves its element.
Accounts == permits + Cardinality(Promised) + Cardinality(Unannounced) <= Len(list)

IInv == TypeOK /\ Fifo /\ (\A t \in Threads : pc[t] # "size_error") /\ Mutex /\ LocalsAgree /\ Accounts

\* A push behind the list is a push behind everything ever pushed.
LEMMA PushKeepsFifo ==
    ASSUME NEW a \in Seq(Values), NEW b \in Seq(Values), NEW v \in Values
    PROVE  Append(a \o b, v) = a \o Append(b, v)
<1>1. a \o b \in Seq(Values) /\ Len(a \o b) = Len(a) + Len(b) /\ Append(b, v) \in Seq(Values)
  BY ConcatProperties
<1>2. Append(a \o b, v) \in Seq(Values) /\ Len(Append(a \o b, v)) = Len(a) + Len(b) + 1
  BY <1>1
<1>3. a \o Append(b, v) \in Seq(Values) /\ Len(a \o Append(b, v)) = Len(a) + Len(b) + 1
  BY <1>1, ConcatProperties
<1>4. \A i \in 1..(Len(a) + Len(b) + 1) : Append(a \o b, v)[i] = (a \o Append(b, v))[i]
  BY <1>1, ConcatProperties
<1> QED
  BY <1>2, <1>3, <1>4, SeqEqual

\* Moving the head of the list behind what was popped changes nothing.
LEMMA PopKeepsFifo ==
    ASSUME NEW S, NEW a \in Seq(S), NEW b \in Seq(S), b # <<>>
    PROVE  Append(a, Head(b)) \o Tail(b) = a \o b
<1>1. /\ Head(b) \in S /\ Tail(b) \in Seq(S) /\ Len(Tail(b)) = Len(b) - 1 /\ Len(b) \in Nat \ {0}
      /\ Head(b) = b[1] /\ \A i \in 1..(Len(b) - 1) : Tail(b)[i] = b[i + 1]
  BY HeadTailProperties
<1>2. /\ Append(a, Head(b)) \in Seq(S) /\ Len(Append(a, Head(b))) = Len(a) + 1 /\ Len(a) \in Nat
      /\ Append(a, Head(b))[Len(a) + 1] = b[1]
      /\ \A i \in 1..Len(a) : Append(a, Head(b))[i] = a[i]
  BY <1>1
<1> DEFINE c == Append(a, Head(b))
           d == Tail(b)
<1> HIDE DEF c, d
<1>3. c \o d \in Seq(S) /\ Len(c \o d) = Len(a) + Len(b)
  BY <1>1, <1>2, ConcatProperties DEF c, d
<1>4. a \o b \in Seq(S) /\ Len(a \o b) = Len(a) + Len(b)
  BY ConcatProperties
<1>5. ASSUME NEW i \in 1..(Len(a) + Len(b)) PROVE (c \o d)[i] = (a \o b)[i]
  <2>1. (c \o d)[i] = IF i <= Len(a) + 1 THEN c[i] ELSE d[i - (Len(a) + 1)]
    BY <1>1, <1>2, <1>5, ConcatProperties DEF c, d
  <2>2. (a \o b)[i] = IF i <= Len(a) THEN a[i] ELSE b[i - Len(a)]
    BY <1>5, ConcatProperties
  <2>3. CASE i <= Len(a)
    BY <1>1, <1>2, <2>1, <2>2, <2>3 DEF c
  <2>4. CASE i = Len(a) + 1
    BY <1>1, <1>2, <2>1, <2>2, <2>4 DEF c
  <2>5. CASE i > Len(a) + 1
    <3> DEFINE k == i - (Len(a) + 1)
    <3>1. k \in 1..(Len(b) - 1) /\ k + 1 = i - Len(a) /\ ~(i <= Len(a)) /\ ~(i <= Len(a) + 1)
      BY <1>1, <1>2, <1>5, <2>5
    <3>2. d[k] = b[k + 1]
      BY <1>1, <3>1 DEF d
    <3> QED
      BY <2>1, <2>2, <3>1, <3>2
  <2>6. i <= Len(a) \/ i = Len(a) + 1 \/ i > Len(a) + 1
    BY <1>1, <1>2, <1>5
  <2> QED
    BY <2>3, <2>4, <2>5, <2>6
<1> QED
  BY <1>3, <1>4, <1>5, SeqEqual DEF c, d

\* The threads with an account can be counted.
LEMMA FiniteAccounts ==
    /\ IsFiniteSet(Promised) /\ Cardinality(Promised) \in Nat
    /\ IsFiniteSet(Unannounced) /\ Cardinality(Unannounced) \in Nat
<1>1. IsFiniteSet(Promised) /\ IsFiniteSet(Unannounced)
  BY QueueAssumption, FS_Subset DEF Promised, Unannounced
<1> QED
  BY <1>1, FS_CardinalityType

\* tqueue_init establishes the invariant.
LEMMA InitIInv == Init => IInv
<1> SUFFICES ASSUME Init PROVE IInv
  OBVIOUS
<1>1. Promised = {} /\ Unannounced = {}
  BY DEF Init, Promised, Unannounced
<1>2. Accounts
  BY <1>1, FS_EmptySet DEF Init, Accounts
<1>3. TypeOK
  BY DEF Init, TypeOK, Ops
<1>4. Fifo
  <2>1. <<>> \o <<>> = <<>>
    BY ConcatEmptySeq, EmptySeq
  <2> QED
    BY <2>1 DEF Init, Fifo
<1>5. Mutex /\ LocalsAgree /\ \A t \in Threads : pc[t] # "size_error"
  BY DEF Init, Mutex, LocalsAgree, Inside
<1> QED
  BY <1>2, <1>3, <1>4, <1>5 DEF IInv

\* Every step of every thread preserves the invariant.
LEMMA NextIInv == IInv /\ [Next]_vars => IInv'
<1> SUFFICES ASSUME IInv, [Next]_vars PROVE IInv'
  OBVIOUS
<1>0. /\ TypeOK /\ Fifo /\ Mutex /\ LocalsAgree /\ Accounts
      /\ \A t \in Threads : pc[t] # "size_error"
  BY DEF IInv
<1>n. permits \in Nat /\ Len(list) \in Nat
  BY <1>0 DEF TypeOK
<1>a. ASSUME NEW t \in Threads, pc[t] = "out",
             UNCHANGED <<can_access, list, size, local, pushed, popped>>,
             pc' = [pc EXCEPT ![t] = "wait"], op' \in [Threads -> Ops],
             arg' \in [Threads -> Values \cup {NoValue}],
             \A u \in Threads : u # t => op'[u] = op[u] /\ arg'[u] = arg[u],
             op'[t] = "push" => arg'[t] \in Values,
             permits' \in Nat, Accounts'
      PROVE  IInv'
  <2>1. TypeOK'
    BY <1>0, <1>a DEF TypeOK
  <2>2. Fifo' /\ \A u \in Threads : pc'[u] # "size_error"
    BY <1>0, <1>a DEF Fifo, TypeOK
  <2>3. Mutex'
    BY <1>0, <1>a DEF Mutex, Inside, TypeOK
  <2>4. LocalsAgree'
    BY <1>0, <1>a DEF LocalsAgree, TypeOK
  <2> QED
    BY <1>a, <2>1, <2>2, <2>3, <2>4 DEF IInv
<1>1. ASSUME NEW t \in Threads, NEW v \in Values, CallPush(t, v) PROVE IInv'
  <2>1. Promised' = Promised /\ Unannounced' = Unannounced
    BY <1>0, <1>1 DEF CallPush, Promised, Unannounced, TypeOK
  <2>2. Accounts'
    BY <1>0, <1>1, <2>1 DEF CallPush, Accounts
  <2> QED
    BY <1>0, <1>1, <1>a, <2>2 DEF CallPush, TypeOK, Ops
<1>2. ASSUME NEW t \in Threads, CallPop(t) PROVE IInv'
  <2>1. Promised' = Promised \cup {t} /\ t \notin Promised /\ Unannounced' = Unannounced
    BY <1>0, <1>2 DEF CallPop, Promised, Unannounced, TypeOK
  <2>2. Cardinality(Promised') = Cardinality(Promised) + 1
    BY <2>1, FiniteAccounts, FS_AddElement
  <2>3. permits > 0 /\ permits' = permits - 1 /\ UNCHANGED list
    BY <1>2 DEF CallPop
  <2>4. permits' \in Nat /\ Accounts'
    BY <1>0, <1>n, <2>1, <2>2, <2>3, FiniteAccounts DEF Accounts
  <2> QED
    BY <1>0, <1>2, <1>a, <2>4 DEF CallPop, TypeOK, Ops
<1>3. ASSUME NEW t \in Threads, CallIsEmpty(t) PROVE IInv'
  <2>1. Promised' = Promised /\ Unannounced' = Unannounced
    BY <1>0, <1>3 DEF CallIsEmpty, Promised, Unannounced, TypeOK
  <2>2. Accounts'
    BY <1>0, <1>3, <2>1 DEF CallIsEmpty, Accounts
  <2> QED
    BY <1>0, <1>3, <1>a, <2>2 DEF CallIsEmpty, TypeOK, Ops
<1>4. ASSUME NEW t \in Threads, Acquire(t) PROVE IInv'
  <2>1. Promised' = Promised /\ Unannounced' = Unannounced
    BY <1>0, <1>4 DEF Acquire, Promised, Unannounced, TypeOK
  <2>2. Accounts'
    BY <1>0, <1>4, <2>1 DEF Acquire, Accounts
  <2>3. can_access = 1 /\ can_access' = 0
    BY <1>0, <1>4 DEF Acquire, Mutex
  <2>4. TypeOK' /\ Fifo' /\ \A u \in Threads : pc'[u] # "size_error"
    BY <1>0, <1>4, <2>3 DEF Acquire, TypeOK, Fifo
  <2>5. Mutex'
    BY <1>0, <1>4, <2>3 DEF Acquire, Mutex, Inside, TypeOK
  <2>6. LocalsAgree'
    BY <1>0, <1>4 DEF Acquire, LocalsAgree, TypeOK
  <2> QED
    BY <2>2, <2>4, <2>5, <2>6 DEF IInv
<1>5. ASSUME NEW t \in Threads, Read(t) PROVE IInv'
  <2>1. Promised' = Promised /\ Unannounced' = Unannounced
    BY <1>0, <1>5 DEF Read, Promised, Unannounced, TypeOK
  <2>2. Accounts'
    BY <1>0, <1>5, <2>1 DEF Read, Accounts
  <2>3. TypeOK' /\ Fifo' /\ \A u \in Threads : pc'[u] # "size_error"
    BY <1>0, <1>5 DEF Read, TypeOK, Fifo
  <2>4. Mutex'
    BY <1>0, <1>5 DEF Read, Mutex, Inside, TypeOK
  <2>5. LocalsAgree'
    BY <1>0, <1>5 DEF Read, LocalsAgree, TypeOK
  <2> QED
    BY <2>2, <2>3, <2>4, <2>5 DEF IInv
<1>6. ASSUME NEW t \in Threads, LinkPush(t) PROVE IInv'
  <2>1. Unannounced' = Unannounced \cup {t} /\ t \notin Unannounced /\ Promised' = Promised
    BY <1>0, <1>6 DEF LinkPush, Promised, Unannounced, TypeOK
  <2>2. Cardinality(Unannounced') = Cardinality(Unannounced) + 1
    BY <2>1, FiniteAccounts, FS_AddElement
  <2>3. local[t] = [list |-> list, size |-> size] /\ arg[t] \in Values
    BY <1>0, <1>6 DEF LinkPush, LocalsAgree
  <2>4. list' = Append(list, arg[t]) /\ Len(list') = Len(list) + 1 /\ list' \in Seq(Values)
    BY <1>0, <1>6, <2>3 DEF LinkPush, TypeOK
  <2>5. Accounts'
    BY <1>0, <1>6, <1>n, <2>1, <2>2, <2>4, FiniteAccounts DEF LinkPush, Accounts
  <2>6. TypeOK' /\ \A u \in Threads : pc'[u] # "size_error" /\ pc'[u] # "abort"
    BY <1>0, <1>6, <2>3, <2>4 DEF LinkPush, TypeOK, Fifo
  <2>7. Fifo'
    <3>1. Append(popped \o list, arg[t]) = popped \o Append(list, arg[t])
      <4>1. popped \in Seq(Values) /\ list \in Seq(Values) /\ arg[t] \in Values
        BY <1>0, <2>3 DEF TypeOK
      <4>2. \A p, q \in Seq(Values) : \A v \in Values : Append(p \o q, v) = p \o Append(q, v)
        BY PushKeepsFifo
      <4> QED
        BY <4>1, <4>2
    <3>2. pushed' = Append(pushed, arg[t]) /\ UNCHANGED popped
      BY <1>6 DEF LinkPush
    <3> QED
      BY <1>0, <2>4, <2>6, <3>1, <3>2 DEF Fifo
  <2>8. Mutex'
    BY <1>0, <1>6 DEF LinkPush, Mutex, Inside, TypeOK
  <2>9. LocalsAgree'
    <3>1. \A u \in Threads : pc[u] # "size" /\ (pc[u] = "link" => u = t)
      BY <1>0, <1>6 DEF LinkPush, Mutex, Inside
    <3>2. size = Len(list)
      BY <1>0, <3>1 DEF LocalsAgree
    <3> QED
      BY <1>0, <1>6, <2>3, <2>4, <3>1, <3>2 DEF LinkPush, LocalsAgree, TypeOK
  <2> QED
    BY <2>5, <2>6, <2>7, <2>8, <2>9 DEF IInv
<1>7. ASSUME NEW t \in Threads, LinkPop(t) PROVE IInv'
  <2>1. local[t] = [list |-> list, size |-> size] /\ t \in Promised
    BY <1>0, <1>7 DEF LinkPop, LocalsAgree, Promised
  <2>2. Cardinality(Promised) # 0
    BY <2>1, FiniteAccounts, FS_EmptySet
  <2>3. list # <<>>
    BY <1>0, <1>n, <2>2, FiniteAccounts DEF Accounts
  <2>4. /\ list' = Tail(list) /\ arg' = [arg EXCEPT ![t] = Head(list)]
        /\ popped' = Append(popped, Head(list)) /\ pc' = [pc EXCEPT ![t] = "size"]
        /\ UNCHANGED <<can_access, size, op, local, pushed, permits>>
    BY <1>7, <2>1, <2>3 DEF LinkPop
  <2>5. Head(list) \in Values /\ list' \in Seq(Values) /\ Len(list') = Len(list) - 1
    BY <1>0, <2>3, <2>4, HeadTailProperties DEF TypeOK
  <2>6. Promised' = Promised \ {t} /\ Unannounced' = Unannounced
    BY <1>0, <1>7, <2>4 DEF LinkPop, Promised, Unannounced, TypeOK
  <2>7. Cardinality(Promised') = Cardinality(Promised) - 1
    BY <2>1, <2>6, FiniteAccounts, FS_RemoveElement
  <2>8. Accounts'
    BY <1>0, <1>n, <2>4, <2>5, <2>6, <2>7, FiniteAccounts DEF Accounts
  <2>9. TypeOK' /\ \A u \in Threads : pc'[u] # "size_error" /\ pc'[u] # "abort"
    BY <1>0, <2>4, <2>5 DEF TypeOK, Fifo
  <2>10. Fifo'
    <3>1. popped' \o list' = popped \o list
      BY <1>0, <2>3, <2>4, PopKeepsFifo DEF TypeOK
    <3> QED
      BY <1>0, <2>4, <2>9, <3>1 DEF Fifo
  <2>11. Mutex'
    BY <1>0, <1>7, <2>4 DEF LinkPop, Mutex, Inside, TypeOK
  <2>12. LocalsAgree'
    <3>1. \A u \in Threads : pc[u] # "size" /\ (pc[u] = "link" => u = t)
      BY <1>0, <1>7 DEF LinkPop, Mutex, Inside
    <3>2. size = Len(list)
      BY <1>0, <3>1 DEF LocalsAgree
    <3> QED
      BY <1>0, <1>7, <2>1, <2>4, <2>5, <3>1, <3>2 DEF LinkPop, LocalsAgree, TypeOK
  <2> QED
    BY <2>8, <2>9, <2>10, <2>11, <2>12 DEF IInv
<1>8. ASSUME NEW t \in Threads, LinkIsEmpty(t) PROVE IInv'
  <2>1. local[t] = [list |-> list, size |-> size]
    BY <1>0, <1>8 DEF LinkIsEmpty, LocalsAgree
  <2>2. \A u \in Threads : pc[u] # "size"
    BY <1>0, <1>8 DEF LinkIsEmpty, Mutex, Inside
  <2>3. (list = <<>>) <=> (size = 0)
    <3>1. size = Len(list)
      BY <1>0, <2>2 DEF LocalsAgree
    <3> QED
      BY <1>0, <3>1 DEF TypeOK
  <2>4. /\ pc' = [pc EXCEPT ![t] = "post"]
        /\ UNCHANGED <<can_access, list, size, op, arg, local, pushed, popped, permits>>
    <3>1. ((list = <<>>) # (size = 0)) = FALSE
      BY <2>3
    <3>2. local[t].list = list /\ local[t].size = size
      BY <2>1
    <3> QED
      BY <1>8, <3>1, <3>2 DEF LinkIsEmpty
  <2>5. Promised' = Promised /\ Unannounced' = Unannounced
    BY <1>0, <1>8, <2>4 DEF LinkIsEmpty, Promised, Unannounced, TypeOK
  <2>6. Accounts'
    BY <1>0, <2>4, <2>5 DEF Accounts
  <2>7. TypeOK' /\ Fifo' /\ \A u \in Threads : pc'[u] # "size_error"
    BY <1>0, <2>4 DEF TypeOK, Fifo
  <2>8. Mutex'
    BY <1>0, <1>8, <2>4 DEF LinkIsEmpty, Mutex, Inside, TypeOK
  <2>9. LocalsAgree'
    BY <1>0, <2>2, <2>4 DEF LocalsAgree, TypeOK
  <2> QED
    BY <2>6, <2>7, <2>8, <2>9 DEF IInv
<1>9. ASSUME NEW t \in Threads, CountSize(t) PROVE IInv'
  <2>1. size' = Len(list)
    BY <1>0, <1>9 DEF CountSize, LocalsAgree, TypeOK
  <2>2. Promised' = Promised /\ Unannounced' = Unannounced
    BY <1>0, <1>9 DEF CountSize, Promised, Unannounced, TypeOK
  <2>3. Accounts'
    BY <1>0, <1>9, <2>2 DEF CountSize, Accounts
  <2>4. TypeOK' /\ Fifo' /\ \A u \in Threads : pc'[u] # "size_error"
    BY <1>0, <1>9, <1>n, <2>1 DEF CountSize, TypeOK, Fifo
  <2>5. Mutex'
    BY <1>0, <1>9 DEF CountSize, Mutex, Inside, TypeOK
  <2>6. LocalsAgree'
    <3>1. \A u \in Threads : u # t => pc[u] \notin {"size", "link"}
      BY <1>0, <1>9 DEF CountSize, Mutex, Inside
    <3> QED
      BY <1>0, <1>9, <2>1, <3>1 DEF CountSize, LocalsAgree, TypeOK
  <2> QED
    BY <2>3, <2>4, <2>5, <2>6 DEF IInv
<1>10. ASSUME NEW t \in Threads, Release(t) PROVE IInv'
  <2>1. can_access = 0 /\ can_access' = 1
    BY <1>0, <1>10 DEF Release, Mutex, Inside
  <2>2. Accounts' /\ permits' \in Nat
    <3>1. CASE op[t] = "push"
      <4>1. Unannounced' = Unannounced \ {t} /\ t \in Unannounced /\ Promised' = Promised
        BY <1>0, <1>10, <3>1 DEF Release, Promised, Unannounced, TypeOK
      <4>2. Cardinality(Unannounced') = Cardinality(Unannounced) - 1
        BY <4>1, FiniteAccounts, FS_RemoveElement
      <4>3. permits' = permits + 1 /\ UNCHANGED list
        BY <1>10, <3>1 DEF Release
      <4> QED
        BY <1>0, <1>n, <4>1, <4>2, <4>3, FiniteAccounts DEF Accounts
    <3>2. CASE op[t] # "push"
      <4>1. Unannounced' = Unannounced /\ Promised' = Promised
        BY <1>0, <1>10, <3>2 DEF Release, Promised, Unannounced, TypeOK
      <4> QED
        BY <1>0, <1>10, <1>n, <3>2, <4>1 DEF Release, Accounts
    <3> QED
      BY <3>1, <3>2
  <2>3. TypeOK' /\ Fifo' /\ \A u \in Threads : pc'[u] # "size_error"
    BY <1>0, <1>10, <2>1, <2>2 DEF Release, TypeOK, Fifo
  <2>4. Mutex'
    BY <1>0, <1>10, <2>1 DEF Release, Mutex, Inside, TypeOK
  <2>5. LocalsAgree'
    BY <1>0, <1>10 DEF Release, LocalsAgree, TypeOK
  <2> QED
    BY <2>2, <2>3, <2>4, <2>5 DEF IInv
<1>12. ASSUME NEW t \in Threads, AcquireInterrupted(t) PROVE IInv'
  <2>1. Unannounced' = Unannounced /\ UNCHANGED <<list, permits>>
    BY <1>0, <1>12 DEF AcquireInterrupted, Unannounced, TypeOK
  <2>2. Promised' \subseteq Promised
    BY <1>0, <1>12 DEF AcquireInterrupted, Promised, TypeOK
  <2>3. Cardinality(Promised') \in Nat /\ Cardinality(Promised') <= Cardinality(Promised)
    BY <2>2, FiniteAccounts, FS_Subset, FS_CardinalityType
  <2>4. Accounts'
    BY <1>0, <1>n, <2>1, <2>3, FiniteAccounts DEF Accounts
  <2>5. TypeOK' /\ Fifo' /\ \A u \in Threads : pc'[u] # "size_error"
    BY <1>0, <1>12 DEF AcquireInterrupted, TypeOK, Fifo
  <2>6. Mutex'
    BY <1>0, <1>12 DEF AcquireInterrupted, Mutex, Inside, TypeOK
  <2>7. LocalsAgree'
    BY <1>0, <1>12 DEF AcquireInterrupted, LocalsAgree, TypeOK
  <2> QED
    BY <2>4, <2>5, <2>6, <2>7 DEF IInv
<1>11. CASE UNCHANGED vars
  <2>1. TypeOK' /\ Fifo' /\ Mutex' /\ LocalsAgree' /\ \A t \in Threads : pc'[t] # "size_error"
    BY <1>0, <1>11 DEF vars, TypeOK, Fifo, Mutex, Inside, LocalsAgree
  <2>2. Accounts'
    BY <1>0, <1>11 DEF vars, Accounts, Promised, Unannounced
  <2> QED
    BY <2>1, <2>2 DEF IInv
<1> QED
  BY <1>1, <1>2, <1>3, <1>4, <1>5, <1>6, <1>7, <1>8, <1>9, <1>10, <1>11, <1>12 DEF Next

\* However many threads share a queue, however their steps interleave and
\* whichever semaphore waits signals interrupt, it is
\* a FIFO queue with an exact size, and neither assertion of tqueue.c fails.
THEOREM QueueCorrect == Spec => []QueueInv
<1>1. IInv => QueueInv
  BY DEF IInv, QueueInv, SizeAgrees, LocalsAgree, Inside
<1> QED
  BY InitIInv, NextIInv, <1>1, PTL DEF Spec

\* Two threads are never inside operations of one queue at the same time.
THEOREM QueueExclusive ==
    Spec => [](\A t, u \in Threads : Inside(t) /\ Inside(u) => t = u)
<1>1. IInv => \A t, u \in Threads : Inside(t) /\ Inside(u) => t = u
  BY DEF IInv, Mutex
<1> QED
  BY InitIInv, NextIInv, <1>1, PTL DEF Spec
=============================================================================
