------------------------------ MODULE WsManager ------------------------------
(***************************************************************************)
(* The WebSocketThreadManager (ws/thread_manager.c): a list of             *)
(* connections under a mutex, the workers that add connections after a     *)
(* handshake, one detached listener thread per connection that removes it, *)
(* and the main thread that drops everything when the server ends          *)
(* (http/server.c, after pool_destroy).                                    *)
(*                                                                         *)
(* What a listener does with its connection is WsConnection's business;    *)
(* here it only matters when it touches the connection, the list, the      *)
(* mutex and the manager.  Nothing depends on the order of the list, so it *)
(* is the set of connections whose node can be reached from manager->head. *)
(***************************************************************************)
EXTENDS Integers, FiniteSets

CONSTANTS Conns,   \* the connections that are upgraded
          NoOne,   \* no connection: NULL, or nobody
          MayFail  \* pthread_create may fail

ASSUME ManagerAssumption ==
    /\ NoOne \notin Conns
    /\ MayFail \in BOOLEAN

VARIABLES nodes,    \* the list that starts at manager->head
          mutex,    \* the connection whose worker or listener holds the mutex
          manager,  \* "live" or "freed"
          mem,      \* each WebSocketConnection: "none", "live" or "freed"
          node,     \* each ConnectionNode: "none", "live" or "freed"
          apc,      \* where the worker that adds a connection is
          lpc,      \* where the listener thread of a connection is
          cancel,   \* the listeners that pthread_cancel was called for
          mpc,      \* where the main thread is
          cur,      \* current_node of thread_manager_remove_all_connections
          hasty     \* history: a listener ran when that function was called

memVars == <<mem, node>>
mainVars == <<manager, cancel, mpc, cur, hasty>>
vars == <<nodes, mutex, memVars, apc, lpc, mainVars>>

Init ==
    /\ nodes = {}
    /\ mutex = NoOne
    /\ manager = "live"
    /\ mem = [c \in Conns |-> "none"]
    /\ node = [c \in Conns |-> "none"]
    /\ apc = [c \in Conns |-> "idle"]
    /\ lpc = [c \in Conns |-> "none"]
    /\ cancel = {}
    /\ mpc = "run"
    /\ cur = NoOne
    /\ hasty = FALSE

-----------------------------------------------------------------------------
(* thread_manager_add_connection, on a worker of the pool.                 *)

AddCall(c) ==
    /\ apc[c] = "idle" /\ mpc = "run"
    /\ apc' = [apc EXCEPT ![c] = "lock"]
    /\ UNCHANGED <<nodes, mutex, memVars, lpc, mainVars>>

AddLock(c) ==
    /\ apc[c] = "lock"
    /\ mutex = NoOne
    /\ mutex' = c
    /\ apc' = [apc EXCEPT ![c] = "link"]
    /\ UNCHANGED <<nodes, memVars, lpc, mainVars>>

\* Allocate the connection and its node and put the node into the list.
AddLink(c) ==
    /\ apc[c] = "link"
    /\ mem' = [mem EXCEPT ![c] = "live"]
    /\ node' = [node EXCEPT ![c] = "live"]
    /\ nodes' = nodes \cup {c}
    /\ apc' = [apc EXCEPT ![c] = "create"]
    /\ UNCHANGED <<mutex, lpc, mainVars>>

\* Fault: the mutex is released before the thread is detached.
AddCreateUnlocks(c) ==
    /\ apc[c] = "create"
    /\ lpc' = [lpc EXCEPT ![c] = "start"]
    /\ mutex' = NoOne
    /\ apc' = [apc EXCEPT ![c] = "detach"]
    /\ UNCHANGED <<nodes, memVars, mainVars>>

AddCreate(c) ==
    /\ apc[c] = "create"
    /\ lpc' = [lpc EXCEPT ![c] = "start"]
    /\ apc' = [apc EXCEPT ![c] = "detach"]
    /\ UNCHANGED <<nodes, mutex, memVars, mainVars>>

\* CHECK_FOR_THREAD_ERROR returns NULL at once, with the mutex locked and the
\* node in the list.
AddCreateFails(c) ==
    /\ apc[c] = "create" /\ MayFail
    /\ apc' = [apc EXCEPT ![c] = "failed"]
    /\ UNCHANGED <<nodes, mutex, memVars, lpc, mainVars>>

\* pthread_detach(connection->thread_id)
AddDetach(c) ==
    /\ apc[c] = "detach"
    /\ apc' = [apc EXCEPT ![c] = "unlock"]
    /\ UNCHANGED <<nodes, mutex, memVars, lpc, mainVars>>

\* Fault: one more return with the mutex locked.
AddUnlockForgotten(c) ==
    /\ apc[c] = "unlock"
    /\ apc' = [apc EXCEPT ![c] = "done"]
    /\ UNCHANGED <<nodes, mutex, memVars, lpc, mainVars>>

AddUnlock(c) ==
    /\ apc[c] = "unlock"
    /\ mutex' = NoOne
    /\ apc' = [apc EXCEPT ![c] = "done"]
    /\ UNCHANGED <<nodes, memVars, lpc, mainVars>>

-----------------------------------------------------------------------------
(* ws_listener_function and thread_manager_remove_connection.              *)

\* The start-up function, the extension pipeline, then the first read.
ListenerStart(c) ==
    /\ lpc[c] = "start"
    /\ lpc' = [lpc EXCEPT ![c] = "read"]
    /\ UNCHANGED <<nodes, mutex, memVars, apc, mainVars>>

\* A blocking read returns, with a frame or with an error.
ListenerReads(c) ==
    /\ lpc[c] = "read" /\ c \notin cancel
    /\ lpc' = [lpc EXCEPT ![c] = "busy"]
    /\ UNCHANGED <<nodes, mutex, memVars, apc, mainVars>>

\* The frame is handled and the next one is read.
ListenerGoesOn(c) ==
    /\ lpc[c] = "busy"
    /\ lpc' = [lpc EXCEPT ![c] = "read"]
    /\ UNCHANGED <<nodes, mutex, memVars, apc, mainVars>>

\* close_websocket_connection: the close frame and the shutdown function.
ListenerCloses(c) ==
    /\ lpc[c] = "busy"
    /\ lpc' = [lpc EXCEPT ![c] = "lock"]
    /\ UNCHANGED <<nodes, mutex, memVars, apc, mainVars>>

\* Fault: the list is searched without the mutex.
RemoveLockNot(c) ==
    /\ lpc[c] = "lock"
    /\ lpc' = [lpc EXCEPT ![c] = "find"]
    /\ UNCHANGED <<nodes, mutex, memVars, apc, mainVars>>

RemoveLock(c) ==
    /\ lpc[c] = "lock"
    /\ mutex = NoOne
    /\ mutex' = c
    /\ lpc' = [lpc EXCEPT ![c] = "find"]
    /\ UNCHANGED <<nodes, memVars, apc, mainVars>>

\* Walk the list; a connection that is found is closed and freed.
RemoveFree(c) ==
    /\ lpc[c] = "find"
    /\ mem' = IF c \in nodes THEN [mem EXCEPT ![c] = "freed"] ELSE mem
    /\ lpc' = [lpc EXCEPT ![c] = IF c \in nodes THEN "unlink" ELSE "unlock"]
    /\ UNCHANGED <<nodes, mutex, node, apc, mainVars>>

\* Fault: the node is freed and stays in the list.
RemoveUnlinkNot(c) ==
    /\ lpc[c] = "unlink"
    /\ node' = [node EXCEPT ![c] = "freed"]
    /\ lpc' = [lpc EXCEPT ![c] = "unlock"]
    /\ UNCHANGED <<nodes, mutex, mem, apc, mainVars>>

RemoveUnlink(c) ==
    /\ lpc[c] = "unlink"
    /\ nodes' = nodes \ {c}
    /\ node' = [node EXCEPT ![c] = "freed"]
    /\ lpc' = [lpc EXCEPT ![c] = "unlock"]
    /\ UNCHANGED <<mutex, mem, apc, mainVars>>

\* The thread touches neither the manager nor the connection afterwards.
RemoveUnlock(c) ==
    /\ lpc[c] = "unlock"
    /\ mutex' = NoOne
    /\ lpc' = [lpc EXCEPT ![c] = "ended"]
    /\ UNCHANGED <<nodes, memVars, apc, mainVars>>

\* A pending cancellation acts in read, in send and in the close of
\* free_connection, there with the mutex locked.
ListenerCancelled(c) ==
    /\ c \in cancel
    /\ lpc[c] \in {"read", "busy", "find"}
    /\ lpc' = [lpc EXCEPT ![c] = "cancelled"]
    /\ UNCHANGED <<nodes, mutex, memVars, apc, mainVars>>

-----------------------------------------------------------------------------
(* The end of start_http_server: thread_manager_remove_all_connections and *)
(* free_thread_manager.                                                    *)

\* pool_destroy has returned, so no worker is adding a connection.
PoolIsGone == \A c \in Conns : apc[c] \in {"idle", "done", "failed"}
ThreadsAreGone == \A c \in Conns : lpc[c] \in {"none", "ended"}

\* The next node of the list: nobody's when the end is reached.
NextNode(n) ==
    \/ n \in nodes \ cancel
    \/ n = NoOne /\ nodes \subseteq cancel

MainBegin ==
    /\ mpc = "run"
    /\ PoolIsGone
    /\ hasty' = ~ThreadsAreGone
    /\ mpc' = "cancel"
    /\ NextNode(cur')
    /\ UNCHANGED <<nodes, mutex, memVars, apc, lpc, manager, cancel>>

\* Fault: the end of the list is not noticed.
MainCancelNull ==
    /\ mpc = "cancel"
    /\ cancel' = cancel \cup {cur}
    /\ mpc' = "free"
    /\ UNCHANGED <<nodes, mutex, memVars, apc, lpc, manager, cur, hasty>>

\* pthread_cancel only asks; the thread is not joined.
MainCancel ==
    /\ mpc = "cancel" /\ cur # NoOne
    /\ cancel' = cancel \cup {cur}
    /\ mpc' = "free"
    /\ UNCHANGED <<nodes, mutex, memVars, apc, lpc, manager, cur, hasty>>

\* The "going away" frame, then free_connection.
MainFree ==
    /\ mpc = "free"
    /\ mem' = [mem EXCEPT ![cur] = "freed"]
    /\ mpc' = "next"
    /\ UNCHANGED <<nodes, mutex, node, apc, lpc, manager, cancel, cur, hasty>>

\* Fault: the nodes are not freed.
MainNextLeaks ==
    /\ mpc = "next"
    /\ mpc' = "cancel"
    /\ NextNode(cur')
    /\ UNCHANGED <<nodes, mutex, memVars, apc, lpc, manager, cancel, hasty>>

MainNext ==
    /\ mpc = "next"
    /\ node' = [node EXCEPT ![cur] = "freed"]
    /\ mpc' = "cancel"
    /\ NextNode(cur')
    /\ UNCHANGED <<nodes, mutex, mem, apc, lpc, manager, cancel, hasty>>

MainEmpty ==
    /\ mpc = "cancel" /\ cur = NoOne
    /\ nodes' = {}
    /\ mpc' = "destroy"
    /\ UNCHANGED <<mutex, memVars, apc, lpc, manager, cancel, cur, hasty>>

\* Destroying a locked mutex fails, and the manager is not freed then.
MainDestroy ==
    /\ mpc = "destroy"
    /\ manager' = IF mutex = NoOne THEN "freed" ELSE "live"
    /\ mpc' = IF mutex = NoOne THEN "done" ELSE "error"
    /\ UNCHANGED <<nodes, mutex, memVars, apc, lpc, cancel, cur, hasty>>

-----------------------------------------------------------------------------
AddStep(c) ==
    \/ AddLock(c) \/ AddLink(c) \/ AddCreate(c) \/ AddCreateFails(c)
    \/ AddDetach(c) \/ AddUnlock(c)

RemoveStep(c) ==
    \/ RemoveLock(c) \/ RemoveFree(c) \/ RemoveUnlink(c) \/ RemoveUnlock(c)

ListenerStep(c) ==
    \/ ListenerStart(c) \/ ListenerReads(c) \/ ListenerGoesOn(c)
    \/ ListenerCloses(c) \/ ListenerCancelled(c)

MainStep ==
    \/ MainBegin \/ MainCancel \/ MainFree \/ MainNext \/ MainEmpty
    \/ MainDestroy

Next ==
    \/ \E c \in Conns : AddCall(c) \/ AddStep(c) \/ RemoveStep(c)
                          \/ ListenerStep(c)
    \/ MainStep

\* Workers and listeners are scheduled; no peer is obliged to send or to
\* leave and nobody is obliged to end the server.
Fairness ==
    \A c \in Conns : WF_vars(AddStep(c)) /\ WF_vars(RemoveStep(c))

Spec == Init /\ [][Next]_vars
FairSpec == Spec /\ Fairness

-----------------------------------------------------------------------------
(* Properties.                                                             *)

(* Every variable keeps the values of its declaration: the list holds       *)
(* connections, the mutex has at most one holder, every thread is at a step *)
(* of its function.                                                         *)
TypeOK ==
    /\ nodes \subseteq Conns
    /\ mutex \in Conns \cup {NoOne}
    /\ manager \in {"live", "freed"}
    /\ mem \in [Conns -> {"none", "live", "freed"}]
    /\ node \in [Conns -> {"none", "live", "freed"}]
    /\ apc \in [Conns -> {"idle", "lock", "link", "create", "detach",
                          "unlock", "done", "failed"}]
    /\ lpc \in [Conns -> {"none", "start", "read", "busy", "lock", "find",
                          "unlink", "unlock", "ended", "cancelled"}]
    /\ cancel \subseteq Conns
    /\ mpc \in {"run", "cancel", "free", "next", "destroy", "done", "error"}
    /\ cur \in Conns \cup {NoOne}
    /\ hasty \in BOOLEAN

(* No thread is about to touch what has been freed: neither a worker, nor  *)
(* a listener (its connection while it handles a frame, the manager and    *)
(* the nodes while it removes itself), nor the main thread.                *)
NoUseAfterFree ==
    /\ \A c \in Conns :
          /\ apc[c] \in {"lock", "link", "create", "detach", "unlock"} =>
                 manager = "live"
          /\ apc[c] = "detach" => mem[c] = "live"
          /\ lpc[c] \in {"start", "busy", "lock"} => mem[c] = "live"
          /\ lpc[c] \in {"lock", "find", "unlink", "unlock"} =>
                 manager = "live"
          /\ lpc[c] = "find" => \A d \in nodes : node[d] = "live"
          /\ lpc[c] = "find" /\ c \in nodes => mem[c] = "live"
          /\ lpc[c] = "unlink" => node[c] = "live"
    /\ mpc \in {"cancel", "free"} /\ cur # NoOne =>
          mem[cur] = "live" /\ node[cur] = "live"
    /\ mpc = "next" => node[cur] = "live"

(* The same for a server that is ended after its last WebSocket client     *)
(* has left: the mutex alone keeps workers and listeners off freed memory. *)
OrderlyUse == hasty \/ NoUseAfterFree

\* Some pthread_create failed, or a thread was cancelled: the mutex may be
\* locked for ever.
Jammed == hasty \/ \E c \in Conns : apc[c] = "failed"

(* Whenever nobody is inside the mutex, the list holds exactly the live    *)
(* connections, and each of them has its own running thread.               *)
ListIsExact ==
    mutex = NoOne /\ mpc = "run" =>
        /\ nodes = {c \in Conns : mem[c] = "live"}
        /\ nodes = {c \in Conns : node[c] = "live"}
        /\ nodes = {c \in Conns : lpc[c] \notin {"none", "ended"}}

(* When the server has ended, every connection and every node is freed.    *)
AllReleased ==
    mpc = "done" => \A c \in Conns : mem[c] # "live" /\ node[c] # "live"

(* thread_manager_add_connection and thread_manager_remove_connection      *)
(* return, unless a thread that held the mutex is gone, so every listener  *)
(* whose connection is closed comes to its end.                            *)
CallsReturn ==
    \A c \in Conns :
        /\ (apc[c] = "lock") ~> (apc[c] = "done" \/ Jammed)
        /\ (lpc[c] = "lock") ~> (lpc[c] = "ended" \/ Jammed)
=============================================================================
