------------------------------- MODULE FtpData -------------------------------
(***************************************************************************)
(* The FTP data controller (src/ftp/data.c): the vector of data            *)
(* connections and the table of passive ports, shared by the control       *)
(* threads and the data listeners under one mutex, so that every operation *)
(* is one step.  A connection is reached through a pointer, and pointers   *)
(* outlive the calls that return them: `alive` is the set of connections   *)
(* that are allocated, and what an operation dereferences has to be in it. *)
(*                                                                         *)
(* The sweep frees every connection of the old vector, the ones it keeps   *)
(* in the new one included, which is what the code does.  What happens     *)
(* once a freed connection is dereferenced is undefined; the model stops   *)
(* there (FtpServer.Undefined), so nothing is claimed about it.            *)
(*                                                                         *)
(* The loops over the vector look for the connection of an identifier, and *)
(* no two have the same one (PortsAgree), so nothing depends on the order  *)
(* of the vector: it is the set of the connections in it.                  *)
(***************************************************************************)
EXTENDS Naturals, FiniteSets

CONSTANTS
    MaxConns,   \* bound: data connections in memory at the same time
    MaxDescs,   \* bound: data descriptors in use at the same time
    PortAmount, \* DEFAULT_PASSIVE_PORT_AMOUNT
    Addrs,      \* addresses a client names with PORT
    Threads,    \* the control threads
    NULL

ASSUME DataAssumption ==
    /\ PortAmount \in Nat \ {0}
    /\ MaxConns \in Nat /\ MaxDescs \in Nat
    /\ NULL \notin Nat \cup Threads \cup {"resumed", "connected"}

VARIABLES
    connections, \* data_controller->connections: the pointers in the vector
    alive,       \* the connections that are allocated
    heap,        \* what each address holds
    ports,       \* data_controller->ports
    descs        \* the descriptors that are open

dataVars == <<connections, alive, heap, ports, descs>>

Ports == 1..PortAmount
Conns == 1..MaxConns
Descs == 1..MaxDescs

\* ConnectionTypeIdentifier; the third kind, automatic, belongs to no
\* connection: it is what settings without a mode amount to.
Passive(p) == <<"passive", p>>
Active(a) == <<"active", a>>
Automatic == <<"automatic", 0>>
Identifiers == {Passive(p) : p \in Ports} \cup {Active(a) : a \in Addrs}
IsActive(ident) == ident[1] = "active"

DataConnectionState == {"Empty", "HasDescriptor", "HasAssociatedControl", "HasBoth"}
ControlState == {"Missing", "Retrieved", "Sending", "ShouldClose", "Error"}

\* `old` abstracts last_change: 30 seconds have passed since it was set.
\* `active` is active_data: NULL, a pending connect, or a connected socket.
\* `thread` is associated_thread # 0: the signal it gets is the process's.
DataConnection ==
    [identifier : Identifiers, state : DataConnectionState, control : ControlState,
     old : BOOLEAN, descriptor : Descs \cup {NULL},
     active : {NULL, "resumed", "connected"}, thread : BOOLEAN]

PortMetadata ==
    [available : BOOLEAN, reserved : BOOLEAN, associated : Conns \cup {NULL}]

DataInit ==
    /\ connections = {}
    /\ alive = {}
    /\ heap = [c \in Conns |-> NULL]
    /\ ports = [p \in Ports |-> [available |-> FALSE, reserved |-> FALSE,
                                 associated |-> NULL]]
    /\ descs = {}

Listed == connections

\* The connection the loops over the vector find, if there is one.
Find(ident) == {c \in Listed : heap[c].identifier = ident}

\* The address malloc returns.  Which one it is makes no difference, but one
\* that is still referred to is not given out again: using a dangling pointer
\* is undefined whether or not it is.
IsNew(x, taken) == x \notin taken /\ \A y \in 1..(x - 1) : y \in taken

\* malloc and TVEC_PUSH.
Push(c, record, inUse) ==
    /\ c \in Conns
    /\ IsNew(c, alive \cup Listed \cup inUse \cup {ports[p].associated : p \in Ports})
    /\ connections' = connections \cup {c}
    /\ alive' = alive \cup {c}
    /\ heap' = [heap EXCEPT ![c] = record]

Same == UNCHANGED <<connections, alive>>

-----------------------------------------------------------------------------
(* The ports.                                                              *)

SetPortAsAvailable(p) ==
    /\ ports' = [ports EXCEPT ![p].available = TRUE]
    /\ UNCHANGED <<connections, alive, heap, descs>>

Free(p) == ports[p].available /\ ~ports[p].reserved

\* get_available_port_for_passive_mode: the first port that can be had, or 0.
GetAvailablePort(p) ==
    /\ \/ /\ p \in Ports
          /\ Free(p)
          /\ \A q \in 1..(p - 1) : ~Free(q)
          /\ ports' = [ports EXCEPT ![p].reserved = TRUE]
       \/ /\ p = 0
          /\ \A q \in Ports : ~Free(q)
          /\ UNCHANGED ports
    /\ UNCHANGED <<connections, alive, heap, descs>>

-----------------------------------------------------------------------------
(* The data listeners.                                                     *)

NewPassive(p) ==
    [identifier |-> Passive(p), state |-> "Empty", control |-> "Missing",
     old |-> FALSE, descriptor |-> NULL, active |-> NULL, thread |-> FALSE]

\* Fault: the connection that is already there is not tied to its port.
AssociateOnlyNew(p, c) ==
    IF c \notin Listed /\ ports[p].associated = NULL
    THEN [ports EXCEPT ![p].associated = c] ELSE ports

Associate(p, c) ==
    IF ports[p].associated = NULL
    THEN [ports EXCEPT ![p].associated = c] ELSE ports

\* get_data_connection_for_data_thread_or_add_passive returns c.
GetForDataThread(p, c, inUse) ==
    /\ IF Find(Passive(p)) # {}
       THEN /\ c \in Find(Passive(p))
            /\ Same /\ UNCHANGED heap
       ELSE Push(c, NewPassive(p), inUse)
    /\ ports' = Associate(p, c)
    /\ UNCHANGED descs

\* data_controller_add_descriptor; it fails for a second descriptor, and the
\* descriptor is then nobody's.
CanAddDescriptor(c) == heap[c].state \in {"Empty", "HasAssociatedControl"}

AddDescriptor(c, d) ==
    /\ IF CanAddDescriptor(c)
       THEN heap' = [heap EXCEPT ![c].descriptor = d, ![c].old = FALSE,
                         ![c].state = IF @ = "HasAssociatedControl"
                                      THEN "HasBoth" ELSE "HasDescriptor"]
       ELSE UNCHANGED heap
    /\ Same
    /\ UNCHANGED <<ports, descs>>

\* pthread_kill goes to the thread that waits for this connection.
SignalsThread(c) == CanAddDescriptor(c) /\ heap[c].thread

-----------------------------------------------------------------------------
(* Closing.                                                                *)

\* nts_internal_should_close_connection.
ShouldClose(c) ==
    IF heap[c].state # "HasBoth" THEN heap[c].old
    ELSE heap[c].control \in {"ShouldClose", "Error"}

DeallocPorts(closing) ==
    [p \in Ports |->
        IF ports[p].associated \in closing
        THEN [ports[p] EXCEPT !.associated = NULL, !.reserved = FALSE] ELSE ports[p]]

\* Fault: the descriptors of the whole old vector are closed.
CloseAllDescriptors(closing) ==
    /\ connections' = connections \ closing
    /\ alive' = alive \ Listed
    /\ ports' = DeallocPorts(closing)
    /\ descs' = descs \ {heap[c].descriptor : c \in Listed}
    /\ heap' = [c \in Conns |-> IF c \in closing THEN NULL ELSE heap[c]]

\* nts_internal_data_connections_to_close: the connections of `closing` leave
\* the vector, give their port back and have their descriptor closed; every
\* connection of the old vector is freed.
CloseConnections(closing) ==
    /\ connections' = connections \ closing
    /\ alive' = alive \ Listed
    /\ ports' = DeallocPorts(closing)
    /\ descs' = descs \ {heap[c].descriptor : c \in closing}
    /\ heap' = [c \in Conns |-> IF c \in closing THEN NULL ELSE heap[c]]

\* data_connections_to_close, together with the caller's loop that closes the
\* descriptors after the mutex is free again: nobody but a transfer that is
\* under way still has one of them, and its step before the close could as well
\* have come before the sweep.
DataConnectionsToClose == CloseConnections({c \in Listed : ShouldClose(c)})

\* close_connection_descriptor dereferences what it is given: a connection
\* that is closed before it has a descriptor makes it dereference NULL.
ClosesNull == \E c \in Listed : ShouldClose(c) /\ heap[c].descriptor = NULL

\* 30 seconds pass for a connection that nobody changed (for one that has
\* both sides last_change is not looked at any more).
GrowOld(c) ==
    /\ c \in Listed \cap alive
    /\ ~heap[c].old /\ heap[c].state # "HasBoth"
    /\ heap' = [heap EXCEPT ![c].old = TRUE]
    /\ Same
    /\ UNCHANGED <<ports, descs>>

-----------------------------------------------------------------------------
(* The control threads.                                                    *)

NewControl(ident) ==
    [identifier |-> ident, state |-> "HasAssociatedControl", control |-> "Missing",
     old |-> FALSE, descriptor |-> NULL, active |-> NULL, thread |-> TRUE]

\* What the switch on the state makes of the connection that is found.
Claimed(record) ==
    CASE record.state = "Empty" ->
             [record EXCEPT !.state = "HasAssociatedControl", !.old = FALSE, !.thread = TRUE]
      [] record.state = "HasDescriptor" ->
             [record EXCEPT !.state = "HasBoth", !.control = "Retrieved", !.thread = TRUE]
      [] record.state = "HasAssociatedControl" -> record
      [] record.state = "HasBoth" ->
             [record EXCEPT !.control = "Retrieved", !.thread = TRUE]

\* The connect of an active connection has gone through.
Connected(record, d) ==
    [record EXCEPT !.state = "HasBoth", !.control = "Retrieved", !.old = FALSE,
                   !.descriptor = d, !.active = NULL]

\* What becomes of the socket and the connect of an active connection: they
\* fail, the connect is under way, or it has gone through.
ActiveOutcomes == {NULL, "resumed", "connected"}

\* get_data_connection_for_control_thread_or_add returns res.
GetForControl(ident, res, inUse, usedDescs) ==
    \/ /\ ident = Automatic
       /\ res = NULL
       /\ Same /\ UNCHANGED <<heap, ports, descs>>
    \/ \E c \in Find(ident) :
          LET claimed == Claimed(heap[c])
              ready == heap[c].state \in {"HasDescriptor", "HasBoth"}
          IN  /\ Same /\ UNCHANGED ports
              /\ \/ \* passive, or active without a pending connect, or the
                    \* connect still pending or failed
                    /\ res = IF ready THEN c ELSE NULL
                    /\ IsActive(ident) => heap[c].active # "connected"
                    /\ heap' = [heap EXCEPT ![c] = claimed]
                    /\ UNCHANGED descs
                 \/ /\ heap[c].active # NULL
                    /\ res = c
                    /\ \E d \in Descs :
                          /\ IsNew(d, usedDescs \cup descs)
                          /\ descs' = descs \cup {d}
                          /\ heap' = [heap EXCEPT ![c] = Connected(claimed, d)]
    \/ /\ ident # Automatic
       /\ Find(ident) = {}
       /\ UNCHANGED <<ports, descs>>
       /\ \E c \in Conns, active \in ActiveOutcomes :
             /\ active # NULL => IsActive(ident)
             /\ IF active = "connected"
                THEN /\ res = c
                     /\ Push(c, [NewControl(ident) EXCEPT !.active = active,
                                    !.state = "HasBoth", !.control = "Retrieved"], inUse)
                ELSE /\ res = NULL
                     /\ Push(c, [NewControl(ident) EXCEPT !.active = active], inUse)

SetControl(c, control) ==
    /\ heap' = [heap EXCEPT ![c].control = control]
    /\ Same
    /\ UNCHANGED <<ports, descs>>

\* data_connection_get_descriptor_to_send_to returns d.
GetDescriptorToSendTo(c, d) ==
    IF heap[c].state = "HasBoth" /\ heap[c].control = "Retrieved"
    THEN d = heap[c].descriptor /\ SetControl(c, "Sending")
    ELSE d = NULL /\ SetControl(c, "Error")

CanClose(c) == heap[c].state = "HasBoth" /\ heap[c].control = "Sending"

\* data_connection_close: the sweep with a filter.
DataConnectionClose(c) ==
    IF CanClose(c)
    THEN CloseConnections({c})
    ELSE SetControl(c, "Error")
=============================================================================
