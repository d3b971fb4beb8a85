--------------------------- MODULE WsManagerProofs ---------------------------
(***************************************************************************)
(* The mutex of the WebSocketThreadManager keeps workers and listener      *)
(* threads off freed memory, for any number of connections, as long as the *)
(* server is ended after its last listener thread.                         *)
(***************************************************************************)
EXTENDS WsManager, TLAPS

Adding == {"link", "create", "detach", "unlock"}
Removing == {"find", "unlink", "unlock"}

\* Who is between lock and unlock holds the mutex; a failed add never leaves.
Exclusion ==
    \A c \in Conns :
        (apc[c] \in Adding \cup {"failed"} \/ lpc[c] \in Removing) => mutex = c

\* A listener exists only after its pthread_create, and it can be inside
\* thread_manager_remove_connection only when the add has returned.
Lifetimes ==
    \A c \in Conns :
        /\ apc[c] \in {"idle", "lock", "link", "create", "failed"} =>
               lpc[c] = "none"
        /\ apc[c] \in {"detach", "unlock", "done"} => lpc[c] # "none"
        /\ lpc[c] \in Removing \cup {"ended"} => apc[c] = "done"
        /\ lpc[c] # "cancelled"

\* What the positions of its two threads say about a connection.
Absent(c) == mem[c] # "live" /\ node[c] # "live" /\ c \notin nodes
Present(c) == mem[c] = "live" /\ node[c] = "live" /\ c \in nodes
Memory ==
    \A c \in Conns :
        /\ apc[c] \in {"idle", "lock", "link"} => Absent(c)
        /\ lpc[c] \in {"unlock", "ended"} => Absent(c)
        /\ lpc[c] = "unlink" => node[c] = "live" /\ c \in nodes /\ mem[c] # "live"
        /\ apc[c] = "create" \/ lpc[c] \in {"start", "read", "busy", "lock", "find"}
             => Present(c)
        /\ apc[c] = "failed" /\ mpc = "run" => Present(c)

\* The main thread: nobody else is left when it starts, and it walks over
\* the nodes that failed adds left behind.
MainThread ==
    /\ mpc = "run" => manager = "live" /\ cancel = {}
    /\ mpc # "run" => PoolIsGone /\ ThreadsAreGone
    /\ mpc \in {"cancel", "free", "next"} =>
           \A c \in nodes \ cancel : Present(c)
    /\ mpc = "cancel" => cur \in (nodes \ cancel) \cup {NoOne}
    /\ mpc \in {"free", "next"} => cur \in nodes \cap cancel /\ node[cur] = "live"
    /\ mpc = "free" => mem[cur] = "live"

Orderly == Exclusion /\ Lifetimes /\ Memory /\ MainThread

IInv == TypeOK /\ (hasty \/ Orderly) /\ (mpc = "run" => ~hasty)

\* A new manager has an empty list, a free mutex and no threads.
LEMMA InitInv == Init => IInv
BY ManagerAssumption
   DEF Init, IInv, TypeOK, Orderly, Exclusion, Lifetimes, Memory, MainThread,
       Adding, Removing, Absent

\* Every step of every thread preserves the types.
LEMMA TypeStep == TypeOK /\ [Next]_vars => TypeOK'
<1> SUFFICES ASSUME TypeOK, [Next]_vars PROVE TypeOK'
  OBVIOUS
<1> USE DEF TypeOK
<1>1. ASSUME NEW c \in Conns, AddCall(c) \/ AddStep(c) PROVE TypeOK'
  BY <1>1 DEF AddCall, AddStep, AddLock, AddLink, AddCreate, AddCreateFails,
     AddDetach, AddUnlock, memVars, mainVars
<1>2. ASSUME NEW c \in Conns, RemoveStep(c) \/ ListenerStep(c) PROVE TypeOK'
  BY <1>2 DEF RemoveStep, RemoveLock, RemoveFree, RemoveUnlink, RemoveUnlock,
     ListenerStep, ListenerStart, ListenerReads, ListenerGoesOn,
     ListenerCloses, ListenerCancelled, memVars, mainVars
<1>3. CASE MainStep
  BY <1>3 DEF MainStep, MainBegin, MainCancel, MainFree, MainNext, MainEmpty,
     MainDestroy, NextNode, memVars, mainVars
<1>4. CASE UNCHANGED vars
  BY <1>4 DEF vars, memVars, mainVars
<1> QED
  BY <1>1, <1>2, <1>3, <1>4 DEF Next

\* Only the main thread's first step looks at the listeners; from then on
\* hasty does not change.
LEMMA HastyStep ==
  ASSUME TypeOK, mpc = "run" => ~hasty, [Next]_vars
  PROVE  /\ (mpc = "run" => ~hasty)'
         /\ hasty => hasty'
<1>1. ASSUME NEW c \in Conns,
             AddCall(c) \/ AddStep(c) \/ RemoveStep(c) \/ ListenerStep(c)
      PROVE UNCHANGED <<mpc, hasty>>
  BY <1>1 DEF AddCall, AddStep, AddLock, AddLink, AddCreate, AddCreateFails,
     AddDetach, AddUnlock, RemoveStep, RemoveLock, RemoveFree, RemoveUnlink,
     RemoveUnlock, ListenerStep, ListenerStart, ListenerReads,
     ListenerGoesOn, ListenerCloses, ListenerCancelled, mainVars
<1>2. CASE MainStep
  BY <1>2 DEF MainStep, MainBegin, MainCancel, MainFree, MainNext, MainEmpty,
     MainDestroy, TypeOK
<1>3. CASE UNCHANGED vars
  BY <1>3 DEF vars, mainVars
<1> QED
  BY <1>1, <1>2, <1>3 DEF Next

\* Every step of an orderly server keeps it orderly.
LEMMA OrderlyStep ==
  ASSUME TypeOK, Orderly, [Next]_vars
  PROVE  hasty' \/ Orderly'
<1> USE ManagerAssumption
<1>1. ASSUME NEW c \in Conns, AddCall(c) PROVE Orderly'
  BY <1>1 DEF AddCall, Orderly, Exclusion, Lifetimes, Memory, MainThread, Adding, Removing,
     Absent, Present, PoolIsGone, ThreadsAreGone, TypeOK, memVars, mainVars
<1>2. ASSUME NEW c \in Conns, AddLock(c) PROVE Orderly'
  BY <1>2 DEF AddLock, Orderly, Exclusion, Lifetimes, Memory, MainThread, Adding, Removing,
     Absent, Present, PoolIsGone, ThreadsAreGone, TypeOK, memVars, mainVars
<1>3. ASSUME NEW c \in Conns, AddLink(c) PROVE Orderly'
  BY <1>3 DEF AddLink, Orderly, Exclusion, Lifetimes, Memory, MainThread, Adding, Removing,
     Absent, Present, PoolIsGone, ThreadsAreGone, TypeOK, memVars, mainVars
<1>4. ASSUME NEW c \in Conns, AddCreate(c) PROVE Orderly'
  BY <1>4 DEF AddCreate, Orderly, Exclusion, Lifetimes, Memory, MainThread, Adding, Removing,
     Absent, Present, PoolIsGone, ThreadsAreGone, TypeOK, memVars, mainVars
<1>5. ASSUME NEW c \in Conns, AddCreateFails(c) PROVE Orderly'
  BY <1>5 DEF AddCreateFails, Orderly, Exclusion, Lifetimes, Memory, MainThread, Adding, Removing,
     Absent, Present, PoolIsGone, ThreadsAreGone, TypeOK, memVars, mainVars
<1>6. ASSUME NEW c \in Conns, AddDetach(c) PROVE Orderly'
  BY <1>6 DEF AddDetach, Orderly, Exclusion, Lifetimes, Memory, MainThread, Adding, Removing,
     Absent, Present, PoolIsGone, ThreadsAreGone, TypeOK, memVars, mainVars
<1>7. ASSUME NEW c \in Conns, AddUnlock(c) PROVE Orderly'
  BY <1>7 DEF AddUnlock, Orderly, Exclusion, Lifetimes, Memory, MainThread, Adding, Removing,
     Absent, Present, PoolIsGone, ThreadsAreGone, TypeOK, memVars, mainVars
<1>8. ASSUME NEW c \in Conns, ListenerStart(c) PROVE Orderly'
  BY <1>8 DEF ListenerStart, Orderly, Exclusion, Lifetimes, Memory, MainThread, Adding, Removing,
     Absent, Present, PoolIsGone, ThreadsAreGone, TypeOK, memVars, mainVars
<1>9. ASSUME NEW c \in Conns, ListenerReads(c) PROVE Orderly'
  BY <1>9 DEF ListenerReads, Orderly, Exclusion, Lifetimes, Memory, MainThread, Adding, Removing,
     Absent, Present, PoolIsGone, ThreadsAreGone, TypeOK, memVars, mainVars
<1>10. ASSUME NEW c \in Conns, ListenerGoesOn(c) PROVE Orderly'
  BY <1>10 DEF ListenerGoesOn, Orderly, Exclusion, Lifetimes, Memory, MainThread, Adding, Removing,
     Absent, Present, PoolIsGone, ThreadsAreGone, TypeOK, memVars, mainVars
<1>11. ASSUME NEW c \in Conns, ListenerCloses(c) PROVE Orderly'
  BY <1>11 DEF ListenerCloses, Orderly, Exclusion, Lifetimes, Memory, MainThread, Adding, Removing,
     Absent, Present, PoolIsGone, ThreadsAreGone, TypeOK, memVars, mainVars
<1>12. ASSUME NEW c \in Conns, RemoveLock(c) PROVE Orderly'
  BY <1>12 DEF RemoveLock, Orderly, Exclusion, Lifetimes, Memory, MainThread, Adding, Removing,
     Absent, Present, PoolIsGone, ThreadsAreGone, TypeOK, memVars, mainVars
<1>13. ASSUME NEW c \in Conns, RemoveFree(c) PROVE Orderly'
  BY <1>13 DEF RemoveFree, Orderly, Exclusion, Lifetimes, Memory, MainThread, Adding, Removing,
     Absent, Present, PoolIsGone, ThreadsAreGone, TypeOK, memVars, mainVars
<1>14. ASSUME NEW c \in Conns, RemoveUnlink(c) PROVE Orderly'
  BY <1>14 DEF RemoveUnlink, Orderly, Exclusion, Lifetimes, Memory, MainThread, Adding, Removing,
     Absent, Present, PoolIsGone, ThreadsAreGone, TypeOK, memVars, mainVars
<1>15. ASSUME NEW c \in Conns, RemoveUnlock(c) PROVE Orderly'
  BY <1>15 DEF RemoveUnlock, Orderly, Exclusion, Lifetimes, Memory, MainThread, Adding, Removing,
     Absent, Present, PoolIsGone, ThreadsAreGone, TypeOK, memVars, mainVars
<1>16. ASSUME NEW c \in Conns, ListenerCancelled(c) PROVE Orderly'
  BY <1>16 DEF ListenerCancelled, Orderly, Exclusion, Lifetimes, Memory, MainThread, Adding, Removing,
     Absent, Present, PoolIsGone, ThreadsAreGone, TypeOK, memVars, mainVars
<1>17. ASSUME MainBegin PROVE hasty' \/ Orderly'
  BY <1>17 DEF MainBegin, NextNode, Orderly, Exclusion, Lifetimes, Memory, MainThread, Adding, Removing,
     Absent, Present, PoolIsGone, ThreadsAreGone, TypeOK, memVars, mainVars
<1>18. ASSUME MainCancel PROVE Orderly'
  BY <1>18 DEF MainCancel, NextNode, Orderly, Exclusion, Lifetimes, Memory, MainThread, Adding, Removing,
     Absent, Present, PoolIsGone, ThreadsAreGone, TypeOK, memVars, mainVars
<1>19. ASSUME MainFree PROVE Orderly'
  BY <1>19 DEF MainFree, NextNode, Orderly, Exclusion, Lifetimes, Memory, MainThread, Adding, Removing,
     Absent, Present, PoolIsGone, ThreadsAreGone, TypeOK, memVars, mainVars
<1>20. ASSUME MainNext PROVE Orderly'
  BY <1>20 DEF MainNext, NextNode, Orderly, Exclusion, Lifetimes, Memory, MainThread, Adding, Removing,
     Absent, Present, PoolIsGone, ThreadsAreGone, TypeOK, memVars, mainVars
<1>21. ASSUME MainEmpty PROVE Orderly'
  BY <1>21 DEF MainEmpty, NextNode, Orderly, Exclusion, Lifetimes, Memory, MainThread, Adding, Removing,
     Absent, Present, PoolIsGone, ThreadsAreGone, TypeOK, memVars, mainVars
<1>22. ASSUME MainDestroy PROVE Orderly'
  BY <1>22 DEF MainDestroy, NextNode, Orderly, Exclusion, Lifetimes, Memory, MainThread, Adding, Removing,
     Absent, Present, PoolIsGone, ThreadsAreGone, TypeOK, memVars, mainVars
<1>23. ASSUME UNCHANGED vars PROVE Orderly'
  BY <1>23 DEF vars, Orderly, Exclusion, Lifetimes, Memory, MainThread, Adding, Removing,
     Absent, Present, PoolIsGone, ThreadsAreGone, TypeOK, memVars, mainVars
<1> QED
  BY <1>1, <1>2, <1>3, <1>4, <1>5, <1>6, <1>7, <1>8, <1>9, <1>10, <1>11, <1>12, <1>13, <1>14, <1>15, <1>16, <1>17, <1>18, <1>19, <1>20, <1>21, <1>22, <1>23
     DEF Next, AddStep, RemoveStep, ListenerStep, MainStep

\* The positions of the threads say that what they touch is not freed.
LEMMA InvUse == IInv => OrderlyUse
BY ManagerAssumption
   DEF IInv, OrderlyUse, NoUseAfterFree, Orderly, Exclusion, Lifetimes, Memory,
     MainThread, Adding, Removing, Absent, Present, PoolIsGone,
     ThreadsAreGone, TypeOK

\* Whoever is outside the mutex is present or absent, nothing in between.
LEMMA InvList == IInv => ListIsExact
<1> SUFFICES ASSUME IInv, mutex = NoOne, mpc = "run"
             PROVE  /\ nodes = {c \in Conns : mem[c] = "live"}
                    /\ nodes = {c \in Conns : node[c] = "live"}
                    /\ nodes = {c \in Conns : lpc[c] \notin {"none", "ended"}}
  BY DEF ListIsExact
<1>1. TypeOK /\ Exclusion /\ Lifetimes /\ Memory
  BY DEF IInv, Orderly
<1>2. ASSUME NEW c \in Conns
      PROVE  \/ lpc[c] \in {"none", "ended"} /\ Absent(c)
             \/ lpc[c] \notin {"none", "ended"} /\ Present(c)
  <2>1. apc[c] \in {"idle", "lock", "done"} /\ lpc[c] \notin Removing
    BY <1>1, ManagerAssumption DEF TypeOK, Exclusion, Adding
  <2> QED
    BY <1>1, <2>1 DEF TypeOK, Lifetimes, Memory, Removing
<1> QED
  BY <1>1, <1>2 DEF TypeOK, Absent, Present

(* The variables of the thread manager keep their types, whatever the      *)
(* workers, listener threads and the main thread of http/server.c do.      *)
THEOREM ManagerTypeCorrect == Spec => []TypeOK
<1>1. Init => TypeOK
  BY InitInv DEF IInv
<1>2. TypeOK /\ [Next]_vars => TypeOK'
  BY TypeStep
<1> QED
  BY <1>1, <1>2, PTL DEF Spec

(* Whenever the mutex is free, the manager's list holds exactly the live   *)
(* connections, each with its node and a running listener thread.          *)
THEOREM ListCorrect == Spec => []ListIsExact
<1>1. IInv /\ [Next]_vars => IInv'
  BY TypeStep, HastyStep, OrderlyStep DEF IInv
<1> QED
  BY InitInv, InvList, <1>1, PTL DEF Spec

(* For any number of connections, with or without failing pthread_create:  *)
(* unless the server is ended while a listener thread runs, no worker,     *)
(* listener or main thread touches a freed connection, node or manager.    *)
THEOREM MutexProtects == Spec => []OrderlyUse
<1>1. IInv /\ [Next]_vars => IInv'
  BY TypeStep, HastyStep, OrderlyStep DEF IInv
<1> QED
  BY InitInv, InvUse, <1>1, PTL DEF Spec
-----------------------------------------------------------------------------
(* What the main thread releases, however hastily the server is ended: this *)
(* part does not lean on Orderly, which a hasty end breaks.                 *)

\* The connection or its node has still to be freed.
Held(c) == mem[c] = "live" \/ node[c] = "live"

\* A listener has been created by an add that linked the node, and it has
\* freed its connection when it comes to unlink the node.
Started ==
    \A c \in Conns :
        /\ apc[c] \in {"idle", "lock", "link", "create"} => lpc[c] = "none"
        /\ lpc[c] = "unlink" => mem[c] # "live"
        /\ mpc # "run" => apc[c] \in {"idle", "done", "failed"}

\* Until the list is emptied, what has to be freed can be reached from it.
Reachable ==
    \A c \in Conns :
        Held(c) => c \in nodes /\ mpc \in {"run", "cancel", "free", "next"}

\* The main thread has freed every connection it asked to end, except the
\* one it is at, and it stops only when it has asked all that are listed.
Walk ==
    /\ mpc = "run" => cancel = {}
    /\ mpc \in {"free", "next"} => cur \in cancel
    /\ mpc = "next" => mem[cur] # "live"
    /\ \A c \in cancel : Held(c) => mpc \in {"free", "next"} /\ c = cur
    /\ mpc = "cancel" /\ cur = NoOne => nodes \subseteq cancel

Release == Started /\ Reachable /\ Walk

\* Every step of every thread preserves what the walk relies on, hasty or not.
LEMMA ReleaseStep == TypeOK /\ Release /\ [Next]_vars => Release'
<1> SUFFICES ASSUME TypeOK, Release, [Next]_vars PROVE Release'
  OBVIOUS
<1> USE ManagerAssumption
<1>1. ASSUME NEW c \in Conns, AddCall(c) PROVE Release'
  BY <1>1 DEF AddCall, Release, Started, Reachable, Walk, Held,
     PoolIsGone, TypeOK, memVars, mainVars
<1>2. ASSUME NEW c \in Conns, AddLock(c) PROVE Release'
  BY <1>2 DEF AddLock, Release, Started, Reachable, Walk, Held,
     PoolIsGone, TypeOK, memVars, mainVars
<1>3. ASSUME NEW c \in Conns, AddLink(c) PROVE Release'
  BY <1>3 DEF AddLink, Release, Started, Reachable, Walk, Held,
     PoolIsGone, TypeOK, memVars, mainVars
<1>4. ASSUME NEW c \in Conns, AddCreate(c) PROVE Release'
  BY <1>4 DEF AddCreate, Release, Started, Reachable, Walk, Held,
     PoolIsGone, TypeOK, memVars, mainVars
<1>5. ASSUME NEW c \in Conns, AddCreateFails(c) PROVE Release'
  BY <1>5 DEF AddCreateFails, Release, Started, Reachable, Walk, Held,
     PoolIsGone, TypeOK, memVars, mainVars
<1>6. ASSUME NEW c \in Conns, AddDetach(c) PROVE Release'
  BY <1>6 DEF AddDetach, Release, Started, Reachable, Walk, Held,
     PoolIsGone, TypeOK, memVars, mainVars
<1>7. ASSUME NEW c \in Conns, AddUnlock(c) PROVE Release'
  BY <1>7 DEF AddUnlock, Release, Started, Reachable, Walk, Held,
     PoolIsGone, TypeOK, memVars, mainVars
<1>8. ASSUME NEW c \in Conns, ListenerStart(c) PROVE Release'
  BY <1>8 DEF ListenerStart, Release, Started, Reachable, Walk, Held,
     PoolIsGone, TypeOK, memVars, mainVars
<1>9. ASSUME NEW c \in Conns, ListenerReads(c) PROVE Release'
  BY <1>9 DEF ListenerReads, Release, Started, Reachable, Walk, Held,
     PoolIsGone, TypeOK, memVars, mainVars
<1>10. ASSUME NEW c \in Conns, ListenerGoesOn(c) PROVE Release'
  BY <1>10 DEF ListenerGoesOn, Release, Started, Reachable, Walk, Held,
     PoolIsGone, TypeOK, memVars, mainVars
<1>11. ASSUME NEW c \in Conns, ListenerCloses(c) PROVE Release'
  BY <1>11 DEF ListenerCloses, Release, Started, Reachable, Walk, Held,
     PoolIsGone, TypeOK, memVars, mainVars
<1>12. ASSUME NEW c \in Conns, ListenerCancelled(c) PROVE Release'
  BY <1>12 DEF ListenerCancelled, Release, Started, Reachable, Walk, Held,
     PoolIsGone, TypeOK, memVars, mainVars
<1>13. ASSUME NEW c \in Conns, RemoveLock(c) PROVE Release'
  BY <1>13 DEF RemoveLock, Release, Started, Reachable, Walk, Held,
     PoolIsGone, TypeOK, memVars, mainVars
<1>14. ASSUME NEW c \in Conns, RemoveFree(c) PROVE Release'
  BY <1>14 DEF RemoveFree, Release, Started, Reachable, Walk, Held,
     PoolIsGone, TypeOK, memVars, mainVars
<1>15. ASSUME NEW c \in Conns, RemoveUnlink(c) PROVE Release'
  BY <1>15 DEF RemoveUnlink, Release, Started, Reachable, Walk, Held,
     PoolIsGone, TypeOK, memVars, mainVars
<1>16. ASSUME NEW c \in Conns, RemoveUnlock(c) PROVE Release'
  BY <1>16 DEF RemoveUnlock, Release, Started, Reachable, Walk, Held,
     PoolIsGone, TypeOK, memVars, mainVars
<1>17. ASSUME MainBegin PROVE Release'
  BY <1>17 DEF MainBegin, NextNode, Release, Started, Reachable, Walk, Held,
     PoolIsGone, TypeOK, memVars, mainVars
<1>18. ASSUME MainCancel PROVE Release'
  BY <1>18 DEF MainCancel, NextNode, Release, Started, Reachable, Walk, Held,
     PoolIsGone, TypeOK, memVars, mainVars
<1>19. ASSUME MainFree PROVE Release'
  BY <1>19 DEF MainFree, NextNode, Release, Started, Reachable, Walk, Held,
     PoolIsGone, TypeOK, memVars, mainVars
<1>20. ASSUME MainNext PROVE Release'
  BY <1>20 DEF MainNext, NextNode, Release, Started, Reachable, Walk, Held,
     PoolIsGone, TypeOK, memVars, mainVars
<1>21. ASSUME MainEmpty PROVE Release'
  BY <1>21 DEF MainEmpty, NextNode, Release, Started, Reachable, Walk, Held,
     PoolIsGone, TypeOK, memVars, mainVars
<1>22. ASSUME MainDestroy PROVE Release'
  BY <1>22 DEF MainDestroy, NextNode, Release, Started, Reachable, Walk, Held,
     PoolIsGone, TypeOK, memVars, mainVars
<1>23. ASSUME UNCHANGED vars PROVE Release'
  BY <1>23 DEF vars, Release, Started, Reachable, Walk, Held,
     PoolIsGone, TypeOK, memVars, mainVars
<1> QED
  BY <1>1, <1>2, <1>3, <1>4, <1>5, <1>6, <1>7, <1>8, <1>9, <1>10, <1>11,
     <1>12, <1>13, <1>14, <1>15, <1>16, <1>17, <1>18, <1>19, <1>20,
     <1>21, <1>22, <1>23
     DEF Next, AddStep, RemoveStep, ListenerStep, MainStep

(* thread_manager_remove_all_connections frees every connection and every  *)
(* node before free_thread_manager succeeds, for any number of connections *)
(* and also when listeners remove themselves or are cancelled meanwhile.   *)
THEOREM EverythingReleased == Spec => []AllReleased
<1>1. Init => TypeOK /\ Release
  BY InitInv DEF IInv, Init, Release, Started, Reachable, Walk, Held
<1>2. TypeOK /\ Release /\ [Next]_vars => (TypeOK /\ Release)'
  BY TypeStep, ReleaseStep
<1>3. TypeOK /\ Release => AllReleased
  BY DEF Release, Reachable, Held, AllReleased
<1> QED
  BY <1>1, <1>2, <1>3, PTL DEF Spec
=============================================================================
