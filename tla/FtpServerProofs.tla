--------------------------- MODULE FtpServerProofs ---------------------------
(***************************************************************************)
(* The FTP server's data controller stays consistent, and no session is    *)
(* forgotten by the control listener and the main thread, for any number   *)
(* of control threads, passive ports, connections and descriptors: what    *)
(* the mutex of data.c and the queue of JobIds are for.                    *)
(***************************************************************************)
EXTENDS FtpServer, TLAPS

-----------------------------------------------------------------------------
(* The inductive invariant.                                                *)

Places == {"none", "ready", "closed", "sweep", "get", "wait", "sleep", "retry",
           "take", "move", "close", "queued", "refuse"}
ListenerPlaces == {"none", "start", "poll", "get", "add", "sweep", "ended", "absent"}

Session ==
    [pc : Places, account : {"Empty", "OnlyUser", "OkAnon", "OkUser"},
     settings : Identifiers \cup {Automatic}, type : {"Ascii", "Image"},
     cmd : Transfers \cup {"none"}, held : Conns \cup {NULL},
     dfd : Descs \cup {NULL}, togo : Nat]

DataTypes ==
    /\ connections \subseteq Conns
    /\ heap \in [Conns -> DataConnection \cup {NULL}]
    /\ ports \in [Ports -> PortMetadata]
    /\ descs \subseteq Descs

ThreadTypes ==
    /\ session \in [Threads -> Session]
    /\ lpc \in [Ports -> ListenerPlaces]
    /\ lport \in [Ports -> Ports \cup {0}]
    /\ lheld \in [Ports -> Conns \cup {NULL}]
    /\ ldesc \in [Ports -> Descs \cup {NULL}]
    /\ opened \in 0..PortAmount

\* What is allocated is listed, and what is listed has been filled in.
Allocated ==
    /\ alive \subseteq Listed
    /\ \A c \in Listed : heap[c] \in DataConnection

\* A connect is only pending for an active connection, and not any more when
\* there is a descriptor; a descriptor is open and belongs to one connection.
DescriptorsOwned ==
    /\ \A c \in Listed : heap[c].active # NULL => IsActive(heap[c].identifier)
    /\ \A c \in Listed : heap[c].descriptor # NULL =>
          /\ heap[c].active = NULL
          /\ heap[c].state \in {"HasDescriptor", "HasBoth"}
          /\ heap[c].descriptor \in descs
          /\ \A e \in Listed : heap[e].descriptor = heap[c].descriptor => c = e

DataInv == DataTypes /\ Allocated /\ PortsAgree /\ DescriptorsOwned

\* A listener holds a descriptor that is its own, and a connection that, if it
\* is still allocated, is the one its port points at.
HoldsDesc(p) == lpc[p] \in {"get", "add"}
ListenersInv ==
    \A p \in Ports :
        /\ lpc[p] # "none" => p <= opened
        /\ lpc[p] \in {"poll", "get", "add", "sweep"} => lport[p] \in Ports
        /\ lpc[p] = "add" /\ lheld[p] \in alive =>
              /\ heap[lheld[p]].identifier = Passive(lport[p])
              /\ ports[lport[p]].associated = lheld[p]
        /\ HoldsDesc(p) =>
              /\ ldesc[p] \in descs
              /\ \A c \in Listed : heap[c].descriptor # ldesc[p]
              /\ \A q \in Ports : HoldsDesc(q) /\ ldesc[q] = ldesc[p] => q = p

\* A transfer uses the descriptor of the connection it holds.
TransfersInv ==
    \A s \in Threads :
        session[s].pc = "move" /\ session[s].dfd # NULL /\ session[s].held \in alive
            => heap[session[s].held].descriptor = session[s].dfd

JobTypes ==
    /\ cpc \in {"poll", "drain", "ended"}
    /\ job_ids \in Seq(Threads)
    /\ excess \in Nat
    /\ mpc \in {"join", "drain", "destroy", "done"}

\* The queue never grows past its limit: what is left of it once the excess has
\* been awaited is within it.
QueueBound ==
    /\ cpc = "drain" => excess > 0 /\ Len(job_ids) <= FtpMaxQueueSize + excess
    /\ cpc # "drain" => Len(job_ids) <= FtpMaxQueueSize
    /\ Len(job_ids) <= FtpMaxQueueSize + 1

\* A job is in the queue once, and only after it has been submitted.
QueueOnce ==
    /\ \A i \in 1..Len(job_ids) : session[job_ids[i]].pc # "none"
    /\ \A i, k \in 1..Len(job_ids) : job_ids[i] = job_ids[k] => i = k

\* A session that is not over is in the queue or has been given up; the main
\* thread only looks at the queue when the control listener has ended, and goes
\* on when it is empty.
Kept(s) == SessionOver(s) \/ s \in dropped \/ \E i \in 1..Len(job_ids) : job_ids[i] = s
NoneForgotten ==
    /\ \A s \in Threads : Kept(s)
    /\ mpc # "join" => cpc = "ended"
    /\ mpc \in {"destroy", "done"} => job_ids = <<>>

JobsInv == JobTypes /\ QueueBound /\ QueueOnce /\ NoneForgotten

IInv == DataInv /\ ThreadTypes /\ ListenersInv /\ TransfersInv /\ JobsInv
-----------------------------------------------------------------------------
(* Facts about the identifiers and about NULL.                             *)

LEMMA NullFacts ==
  /\ NULL \notin Conns /\ NULL \notin Descs /\ NULL \notin Ports
  /\ NULL # "resumed" /\ NULL # "connected" /\ NULL # 0
BY DataAssumption DEF Conns, Descs, Ports

LEMMA IdentFacts ==
  /\ \A p \in Ports : Passive(p) \in Identifiers /\ ~IsActive(Passive(p))
  /\ \A p, q \in Ports : Passive(p) = Passive(q) => p = q
  /\ \A a \in Addrs : Active(a) \in Identifiers
  /\ Automatic \notin Identifiers
BY DEF Passive, Active, Automatic, Identifiers, IsActive

-----------------------------------------------------------------------------
(* The operations of the data controller.  Besides keeping DataInv, each   *)
(* leaves alone what other threads hold: a connection stays what it is as  *)
(* long as it is allocated, only descriptors of connections are closed,    *)
(* and connections get only new descriptors, or the one they are given.    *)

Untouched(inUse, given) ==
    /\ \A c \in alive' : c \in alive \/ c \notin inUse
    /\ \A c \in alive \cap alive' :
          /\ heap'[c].identifier = heap[c].identifier
          /\ heap[c].descriptor # NULL => heap'[c].descriptor = heap[c].descriptor
          /\ \A p \in Ports : ports[p].associated = c => ports'[p].associated = c
    /\ \A d \in descs : d \in descs' \/ \E c \in Listed : heap[c].descriptor = d
    /\ \A c \in connections' :
          \/ heap'[c].descriptor \notin descs
          \/ c \in connections /\ heap'[c].descriptor = heap[c].descriptor
          \/ heap'[c].descriptor = given

Reached == {"HasDescriptor", "HasBoth"}

\* A new connection: nobody has its identifier, and it has no descriptor.
LEMMA PushStep ==
  ASSUME DataInv, NEW c, NEW record \in DataConnection, NEW inUse,
         Push(c, record, inUse),
         Find(record.identifier) = {},
         record.descriptor = NULL,
         record.active # NULL => IsActive(record.identifier),
         \A q \in Ports : record.identifier = Passive(q) => record.state \notin Reached,
         ports' \in [Ports -> PortMetadata],
         \A q \in Ports :
             \/ ports'[q].associated = ports[q].associated
             \/ /\ ports[q].associated = NULL
                /\ ports'[q].associated = c
                /\ record.identifier = Passive(q),
         descs' = descs
  PROVE  DataInv' /\ Untouched(inUse, NULL)
<1> USE NullFacts
<1>1. c \in Conns /\ c \notin connections /\ c \notin alive /\ c \notin inUse
  BY DEF Push, IsNew, Listed
<1>2. \A q \in Ports : ports[q].associated # c
  BY DEF Push, IsNew
<1>3. /\ connections' = connections \cup {c}
      /\ alive' = alive \cup {c}
      /\ heap' = [heap EXCEPT ![c] = record]
  BY DEF Push
<1>4. DataTypes /\ Allocated /\ PortsAgree /\ DescriptorsOwned
  BY DEF DataInv
<1>5. heap'[c] = record /\ \A e \in Conns \ {c} : heap'[e] = heap[e]
  BY <1>1, <1>3, <1>4 DEF DataTypes
<1>6. \A e \in connections : e \in Conns /\ e # c /\ heap[e].identifier # record.identifier
  BY <1>1, <1>4 DEF DataTypes, Find, Listed
<1>7. DataTypes'
  BY <1>1, <1>3, <1>4 DEF DataTypes
<1>8. Allocated'
  BY <1>3, <1>4, <1>5, <1>6 DEF Allocated, Listed
<1>9. PortsAgree'
  <2>1. \A d, e \in Listed' : heap'[d].identifier = heap'[e].identifier => d = e
    BY <1>3, <1>4, <1>5, <1>6 DEF PortsAgree, Listed
  <2>2. ASSUME NEW p \in Ports, ports'[p].associated # NULL
        PROVE  /\ ports'[p].associated \in Listed'
               /\ heap'[ports'[p].associated].identifier = Passive(p)
    BY <1>3, <1>4, <1>5, <1>6, <2>2 DEF PortsAgree, Listed
  <2>3. ASSUME NEW d \in Listed', NEW p \in Ports, heap'[d].identifier = Passive(p),
               heap'[d].state \in Reached
        PROVE  ports'[p].associated = d
    BY <1>3, <1>4, <1>5, <1>6, <2>3 DEF PortsAgree, Listed, Reached
  <2> QED
    BY <2>1, <2>2, <2>3 DEF PortsAgree, Reached
<1>10. DescriptorsOwned'
  BY <1>3, <1>4, <1>5, <1>6 DEF DescriptorsOwned, Listed
<1>11. Untouched(inUse, NULL)
  BY <1>1, <1>2, <1>3, <1>4, <1>5, <1>6 DEF Untouched, Listed, Allocated
<1> QED
  BY <1>7, <1>8, <1>9, <1>10, <1>11 DEF DataInv

\* A connection that is changed in place: it keeps its identifier and the
\* descriptor it has, and one it gets is open, or just opened, and nobody's.
LEMMA ChangeStep ==
  ASSUME DataInv, NEW c \in Listed, NEW record \in DataConnection, NEW given, NEW inUse,
         heap' = [heap EXCEPT ![c] = record],
         connections' = connections, alive' = alive, ports' = ports,
         descs \subseteq descs', descs' \subseteq Descs,
         record.identifier = heap[c].identifier,
         record.active = heap[c].active \/ record.active = NULL,
         \/ record.descriptor = heap[c].descriptor
         \/ /\ heap[c].descriptor = NULL
            /\ record.active = NULL
            /\ record.descriptor \in descs'
            /\ \A e \in Listed : heap[e].descriptor # record.descriptor
            /\ record.descriptor \notin descs \/ record.descriptor = given,
         record.descriptor # NULL => record.state \in Reached,
         \/ record.state \notin Reached
         \/ heap[c].state \in Reached
         \/ \A p \in Ports : heap[c].identifier = Passive(p) => ports[p].associated = c
  PROVE  DataInv' /\ Untouched(inUse, given)
<1> USE NullFacts
<1>1. DataTypes /\ Allocated /\ PortsAgree /\ DescriptorsOwned
  BY DEF DataInv
<1>2. c \in Conns /\ heap[c] \in DataConnection /\ c \in connections
  BY <1>1 DEF DataTypes, Allocated, Listed
<1>3. heap'[c] = record /\ \A e \in Conns \ {c} : heap'[e] = heap[e]
  BY <1>1, <1>2 DEF DataTypes
<1>4. \A e \in connections : e \in Conns
  BY <1>1 DEF DataTypes
<1>5. DataTypes'
  BY <1>1, <1>2 DEF DataTypes
<1>6. Allocated'
  BY <1>1, <1>3, <1>4 DEF Allocated, Listed
<1>7. \A e \in connections : heap'[e].identifier = heap[e].identifier
  BY <1>3, <1>4
<1>8. PortsAgree'
  <2>1. \A d, e \in Listed' : heap'[d].identifier = heap'[e].identifier => d = e
    BY <1>1, <1>7 DEF PortsAgree, Listed
  <2>2. ASSUME NEW p \in Ports, ports'[p].associated # NULL
        PROVE  /\ ports'[p].associated \in Listed'
               /\ heap'[ports'[p].associated].identifier = Passive(p)
    BY <1>1, <1>7, <2>2 DEF PortsAgree, Listed
  <2>3. ASSUME NEW d \in Listed', NEW p \in Ports, heap'[d].identifier = Passive(p),
               heap'[d].state \in Reached
        PROVE  ports'[p].associated = d
    BY <1>1, <1>3, <1>4, <1>7, <2>3 DEF PortsAgree, Listed, Reached
  <2> QED
    BY <2>1, <2>2, <2>3 DEF PortsAgree, Reached
<1>9. DescriptorsOwned'
  <2>1. \A e \in Listed' : heap'[e].active # NULL => IsActive(heap'[e].identifier)
    BY <1>1, <1>2, <1>3, <1>4, <1>7 DEF DescriptorsOwned, Listed
  <2>2. ASSUME NEW e \in Listed', heap'[e].descriptor # NULL
        PROVE  /\ heap'[e].active = NULL
               /\ heap'[e].state \in Reached
               /\ heap'[e].descriptor \in descs'
    BY <1>1, <1>2, <1>3, <1>4, <2>2 DEF DescriptorsOwned, Listed, Reached
  <2>3. ASSUME NEW e \in Listed', heap'[e].descriptor # NULL, NEW f \in Listed',
               heap'[f].descriptor = heap'[e].descriptor
        PROVE  f = e
    BY <1>1, <1>2, <1>3, <1>4, <2>3 DEF DescriptorsOwned, Listed
  <2> QED
    BY <2>1, <2>2, <2>3 DEF DescriptorsOwned, Reached
<1>10. Untouched(inUse, given)
  <2>1. \A e \in alive : heap[e].descriptor # NULL => heap'[e].descriptor = heap[e].descriptor
    BY <1>1, <1>3, <1>4 DEF Allocated, Listed
  <2>2. \A e \in connections' :
          \/ heap'[e].descriptor \notin descs
          \/ e \in connections /\ heap'[e].descriptor = heap[e].descriptor
          \/ heap'[e].descriptor = given
    BY <1>3, <1>4
  <2> QED
    BY <1>1, <1>7, <2>1, <2>2 DEF Untouched, Allocated, Listed
<1> QED
  BY <1>5, <1>6, <1>8, <1>9, <1>10 DEF DataInv

\* nts_internal_data_connections_to_close: nothing stays allocated, and what
\* is kept keeps its port and its descriptor.
LEMMA CloseStep ==
  ASSUME DataInv, NEW closing \in SUBSET Listed, NEW inUse, CloseConnections(closing)
  PROVE  DataInv' /\ Untouched(inUse, NULL)
<1> USE NullFacts
<1>1. DataTypes /\ Allocated /\ PortsAgree /\ DescriptorsOwned
  BY DEF DataInv
<1>2. /\ connections' = connections \ closing
      /\ alive' = {}
      /\ descs' = descs \ {heap[c].descriptor : c \in closing}
      /\ heap' = [c \in Conns |-> IF c \in closing THEN NULL ELSE heap[c]]
  BY <1>1 DEF CloseConnections, Allocated
<1>3. /\ connections' \subseteq connections /\ connections' \subseteq Conns
      /\ \A e \in connections' : heap'[e] = heap[e]
  BY <1>1, <1>2 DEF DataTypes
<1>4. ports' \in [Ports -> PortMetadata]
  BY <1>1 DEF CloseConnections, DeallocPorts, DataTypes, PortMetadata
<1>5. ASSUME NEW p \in Ports
      PROVE  ports'[p].associated = IF ports[p].associated \in closing
                                    THEN NULL ELSE ports[p].associated
  <2>1. ports[p] \in PortMetadata
    BY <1>1 DEF DataTypes
  <2> QED
    BY <2>1 DEF CloseConnections, DeallocPorts, PortMetadata
<1>6. DataTypes'
  BY <1>1, <1>2, <1>3, <1>4 DEF DataTypes
<1>7. Allocated'
  BY <1>1, <1>2, <1>3 DEF Allocated, Listed
<1>8. PortsAgree'
  <2>1. \A d, e \in Listed' : heap'[d].identifier = heap'[e].identifier => d = e
    BY <1>1, <1>3 DEF PortsAgree, Listed
  <2>2. ASSUME NEW p \in Ports, ports'[p].associated # NULL
        PROVE  /\ ports'[p].associated \in Listed'
               /\ heap'[ports'[p].associated].identifier = Passive(p)
    BY <1>1, <1>2, <1>3, <1>5, <2>2 DEF PortsAgree, Listed
  <2>3. ASSUME NEW d \in Listed', NEW p \in Ports, heap'[d].identifier = Passive(p),
               heap'[d].state \in Reached
        PROVE  ports'[p].associated = d
    BY <1>1, <1>2, <1>3, <1>5, <2>3 DEF PortsAgree, Listed, Reached
  <2> QED
    BY <2>1, <2>2, <2>3 DEF PortsAgree, Reached
<1>9. DescriptorsOwned'
  <2>1. \A e \in Listed' : heap'[e].active # NULL => IsActive(heap'[e].identifier)
    BY <1>1, <1>3 DEF DescriptorsOwned, Listed
  <2>2. ASSUME NEW e \in Listed', heap'[e].descriptor # NULL
        PROVE  heap'[e].descriptor \in descs'
    BY <1>1, <1>2, <1>3, <2>2 DEF DescriptorsOwned, Listed
  <2> QED
    BY <1>1, <1>3, <2>1, <2>2 DEF DescriptorsOwned, Listed
<1>10. Untouched(inUse, NULL)
  BY <1>2, <1>3 DEF Untouched, Listed
<1> QED
  BY <1>6, <1>7, <1>8, <1>9, <1>10 DEF DataInv

\* Nothing of the controller changes.
LEMMA NoStep ==
  ASSUME DataInv, UNCHANGED dataVars, NEW inUse
  PROVE  DataInv' /\ Untouched(inUse, NULL)
BY DEF dataVars, DataInv, DataTypes, Allocated, PortsAgree, DescriptorsOwned, Listed,
   Untouched
\* The flags of a port change, not the connection it points at.
LEMMA PortStep ==
  ASSUME DataInv, UNCHANGED <<connections, alive, heap, descs>>, NEW inUse,
         ports' \in [Ports -> PortMetadata],
         \A q \in Ports : ports'[q].associated = ports[q].associated
  PROVE  DataInv' /\ Untouched(inUse, NULL)
BY DEF DataInv, DataTypes, Allocated, PortsAgree, DescriptorsOwned, Listed, Untouched

LEMMA SetPortAsAvailableStep ==
  ASSUME DataInv, NEW p \in Ports, SetPortAsAvailable(p), NEW inUse
  PROVE  DataInv' /\ Untouched(inUse, NULL)
<1>1. ports \in [Ports -> PortMetadata]
  BY DEF DataInv, DataTypes
<1>2. ports' = [ports EXCEPT ![p].available = TRUE]
  BY DEF SetPortAsAvailable
<1>3. /\ ports' \in [Ports -> PortMetadata]
      /\ \A q \in Ports : ports'[q].associated = ports[q].associated
  BY <1>1, <1>2 DEF PortMetadata
<1> QED
  BY <1>3, PortStep DEF SetPortAsAvailable

LEMMA GetAvailablePortStep ==
  ASSUME DataInv, NEW p \in Ports \cup {0}, GetAvailablePort(p), NEW inUse
  PROVE  DataInv' /\ Untouched(inUse, NULL)
<1>1. ports \in [Ports -> PortMetadata]
  BY DEF DataInv, DataTypes
<1>2. \/ p \in Ports /\ ports' = [ports EXCEPT ![p].reserved = TRUE]
      \/ ports' = ports
  BY DEF GetAvailablePort
<1>3. CASE p \in Ports /\ ports' = [ports EXCEPT ![p].reserved = TRUE]
  <2>1. /\ ports' \in [Ports -> PortMetadata]
        /\ \A q \in Ports : ports'[q].associated = ports[q].associated
    BY <1>1, <1>3 DEF PortMetadata
  <2> QED
    BY <2>1, PortStep DEF GetAvailablePort
<1>4. CASE ports' = ports
  BY <1>1, <1>4, PortStep DEF GetAvailablePort
<1> QED
  BY <1>2, <1>3, <1>4

\* The listener of a port ends up with the connection its port points at.
LEMMA GetForDataThreadStep ==
  ASSUME DataInv, NEW p \in Ports, NEW c \in Conns, NEW inUse,
         GetForDataThread(p, c, inUse)
  PROVE  /\ DataInv' /\ Untouched(inUse, NULL)
         /\ heap'[c].identifier = Passive(p)
         /\ ports'[p].associated = c
<1> USE NullFacts
<1>1. DataTypes /\ Allocated /\ PortsAgree /\ DescriptorsOwned
  BY DEF DataInv
<1>2. ports' = Associate(p, c) /\ descs' = descs
  BY DEF GetForDataThread
<1>3. ports' \in [Ports -> PortMetadata]
  BY <1>1, <1>2 DEF DataTypes, Associate, PortMetadata
<1>4. /\ \A q \in Ports \ {p} : ports'[q].associated = ports[q].associated
      /\ ports'[p].associated =
             IF ports[p].associated = NULL THEN c ELSE ports[p].associated
  <2>1. ports[p] \in PortMetadata
    BY <1>1 DEF DataTypes
  <2> QED
    BY <1>1, <1>2, <2>1 DEF DataTypes, Associate, PortMetadata
<1>5. CASE Find(Passive(p)) # {}
  <2>1. c \in Listed /\ heap[c].identifier = Passive(p)
    BY <1>5 DEF GetForDataThread, Find
  <2>2. UNCHANGED <<connections, alive, heap>>
    BY <1>5 DEF GetForDataThread, Same
  <2>3. ports'[p].associated = c
    BY <1>1, <1>4, <2>1 DEF PortsAgree
  <2>4. PortsAgree'
    <3>1. \A d, e \in Listed' : heap'[d].identifier = heap'[e].identifier => d = e
      BY <1>1, <2>2 DEF PortsAgree, Listed
    <3>2. ASSUME NEW q \in Ports, ports'[q].associated # NULL
          PROVE  /\ ports'[q].associated \in Listed'
                 /\ heap'[ports'[q].associated].identifier = Passive(q)
      BY <1>1, <1>4, <2>1, <2>2, <2>3, <3>2 DEF PortsAgree, Listed
    <3>3. ASSUME NEW d \in Listed', NEW q \in Ports, heap'[d].identifier = Passive(q),
                 heap'[d].state \in Reached
          PROVE  ports'[q].associated = d
      <4>1. ports[q].associated = d
        BY <1>1, <2>2, <3>3 DEF PortsAgree, Listed, Reached
      <4>2. d # NULL
        BY <1>1, <2>2, <3>3 DEF DataTypes, Listed
      <4> QED
        BY <1>4, <4>1, <4>2
    <3> QED
      BY <3>1, <3>2, <3>3 DEF PortsAgree, Reached
  <2>5. DataInv'
    BY <1>1, <1>2, <1>3, <2>2, <2>4
       DEF DataInv, DataTypes, Allocated, DescriptorsOwned, Listed
  <2>6. \A e \in alive, q \in Ports : ports[q].associated = e => ports'[q].associated = e
    BY <1>1, <1>4 DEF DataTypes, Allocated, Listed
  <2>7. Untouched(inUse, NULL)
    BY <1>2, <2>2, <2>6 DEF Untouched, Listed
  <2> QED
    BY <2>1, <2>2, <2>3, <2>5, <2>7
<1>6. CASE Find(Passive(p)) = {}
  <2> DEFINE record == NewPassive(p)
  <2>1. Push(c, record, inUse)
    BY <1>6 DEF GetForDataThread
  <2>2. record \in DataConnection /\ record.identifier = Passive(p)
    BY IdentFacts DEF NewPassive, DataConnection, DataConnectionState, ControlState
  <2>3. ports[p].associated = NULL
    BY <1>1, <1>6 DEF PortsAgree, Find
  <2>4. /\ record.descriptor = NULL /\ record.active = NULL
        /\ record.state \notin Reached
    BY DEF NewPassive, Reached
  <2>5. ports'[p].associated = c
    BY <1>4, <2>3
  <2>6. DataInv' /\ Untouched(inUse, NULL)
    <3> HIDE DEF record
    <3>1. \A q \in Ports :
             \/ ports'[q].associated = ports[q].associated
             \/ /\ ports[q].associated = NULL
                /\ ports'[q].associated = c
                /\ record.identifier = Passive(q)
      BY <1>4, <2>2, <2>3, <2>5
    <3> QED
      BY <1>2, <1>3, <1>6, <2>1, <2>2, <2>4, <3>1, PushStep
  <2>7. heap'[c] = record
    BY <1>1, <2>1 DEF Push, DataTypes
  <2> QED
    BY <2>2, <2>5, <2>6, <2>7
<1> QED
  BY <1>5, <1>6

\* What a data listener accepted becomes the descriptor of the connection of
\* its port.
LEMMA AddDescriptorStep ==
  ASSUME DataInv, NEW c \in alive, NEW d \in descs, NEW p \in Ports, NEW inUse,
         AddDescriptor(c, d),
         heap[c].identifier = Passive(p), ports[p].associated = c,
         \A e \in Listed : heap[e].descriptor # d
  PROVE  DataInv' /\ Untouched(inUse, d)
<1> USE NullFacts
<1>1. DataTypes /\ Allocated /\ PortsAgree /\ DescriptorsOwned
  BY DEF DataInv
<1>2. c \in Listed /\ c \in Conns /\ heap[c] \in DataConnection
  BY <1>1 DEF DataTypes, Allocated, Listed
<1>3. connections' = connections /\ alive' = alive /\ ports' = ports /\ descs' = descs
  BY DEF AddDescriptor, Same
<1>4. CASE CanAddDescriptor(c)
  <2> DEFINE record ==
        [heap[c] EXCEPT !.descriptor = d, !.old = FALSE,
                        !.state = IF @ = "HasAssociatedControl"
                                  THEN "HasBoth" ELSE "HasDescriptor"]
  <2>1. heap' = [heap EXCEPT ![c] = record]
    BY <1>1, <1>2, <1>4 DEF AddDescriptor, DataTypes, DataConnection
  <2>2. record \in DataConnection
    BY <1>1, <1>2 DEF DataConnection, DataConnectionState, DataTypes
  <2>3. /\ record.identifier = heap[c].identifier
        /\ record.active = heap[c].active
        /\ record.descriptor = d
        /\ record.state \in Reached
    BY <1>2 DEF DataConnection, Reached
  <2>4. heap[c].active = NULL
    BY <1>1, <1>2, IdentFacts DEF DescriptorsOwned
  <2>5. heap[c].descriptor = NULL
    BY <1>1, <1>2, <1>4 DEF DescriptorsOwned, CanAddDescriptor
  <2>6. \A q \in Ports : heap[c].identifier = Passive(q) => ports[q].associated = c
    BY IdentFacts
  <2>7. descs \subseteq descs' /\ descs' \subseteq Descs /\ d \in descs'
    BY <1>1, <1>3 DEF DataTypes
  <2> HIDE DEF record
  <2> QED
    BY <1>2, <1>3, <2>1, <2>2, <2>3, <2>4, <2>5, <2>6, <2>7, ChangeStep
<1>5. CASE ~CanAddDescriptor(c)
  <2>1. UNCHANGED dataVars
    BY <1>3, <1>5 DEF AddDescriptor, dataVars
  <2>2. DataInv' /\ Untouched(inUse, NULL)
    BY <2>1, NoStep
  <2>3. \A e \in connections' : e \in connections /\ heap'[e] = heap[e]
    BY <2>1 DEF dataVars
  <2> QED
    BY <2>2, <2>3 DEF Untouched
<1> QED
  BY <1>4, <1>5

LEMMA SweepStep ==
  ASSUME DataInv, DataConnectionsToClose, NEW inUse
  PROVE  DataInv' /\ Untouched(inUse, NULL)
<1>1. {c \in Listed : ShouldClose(c)} \in SUBSET Listed
  OBVIOUS
<1> QED
  BY <1>1, CloseStep DEF DataConnectionsToClose

LEMMA GrowOldStep ==
  ASSUME DataInv, NEW c \in Conns, GrowOld(c), NEW inUse
  PROVE  DataInv' /\ Untouched(inUse, NULL)
<1>1. DataTypes /\ Allocated /\ DescriptorsOwned
  BY DEF DataInv
<1> DEFINE record == [heap[c] EXCEPT !.old = TRUE]
<1>2. c \in Listed /\ heap[c] \in DataConnection
  BY <1>1 DEF GrowOld, Allocated
<1>3. heap' = [heap EXCEPT ![c] = record]
  BY <1>1, <1>2 DEF GrowOld, DataTypes, DataConnection
<1>4. record \in DataConnection
  BY <1>2 DEF DataConnection
<1>5. /\ record.identifier = heap[c].identifier
      /\ record.active = heap[c].active
      /\ record.descriptor = heap[c].descriptor
      /\ record.state = heap[c].state
  BY <1>2 DEF DataConnection
<1>6. /\ connections' = connections /\ alive' = alive /\ ports' = ports
      /\ descs' = descs /\ descs \subseteq Descs
  BY <1>1 DEF GrowOld, Same, DataTypes
<1>7. heap[c].descriptor # NULL => heap[c].state \in Reached
  BY <1>1, <1>2 DEF DescriptorsOwned, Reached
<1> HIDE DEF record
<1> QED
  BY <1>2, <1>3, <1>4, <1>5, <1>6, <1>7, ChangeStep

LEMMA SetControlStep ==
  ASSUME DataInv, NEW c \in alive, NEW control \in ControlState, SetControl(c, control),
         NEW inUse
  PROVE  /\ DataInv' /\ Untouched(inUse, NULL)
         /\ heap'[c].descriptor = heap[c].descriptor
<1>1. DataTypes /\ Allocated /\ DescriptorsOwned
  BY DEF DataInv
<1> DEFINE record == [heap[c] EXCEPT !.control = control]
<1>2. c \in Listed /\ c \in Conns /\ heap[c] \in DataConnection
  BY <1>1 DEF Allocated, DataTypes, Listed
<1>3. heap' = [heap EXCEPT ![c] = record]
  BY <1>1, <1>2 DEF SetControl, DataTypes, DataConnection
<1>4. record \in DataConnection
  BY <1>2 DEF DataConnection
<1>5. /\ record.identifier = heap[c].identifier
      /\ record.active = heap[c].active
      /\ record.descriptor = heap[c].descriptor
      /\ record.state = heap[c].state
  BY <1>2 DEF DataConnection
<1>6. /\ connections' = connections /\ alive' = alive /\ ports' = ports
      /\ descs' = descs /\ descs \subseteq Descs
  BY <1>1 DEF SetControl, Same, DataTypes
<1>7. heap[c].descriptor # NULL => heap[c].state \in Reached
  BY <1>1, <1>2 DEF DescriptorsOwned, Reached
<1>8. heap'[c] = record
  BY <1>1, <1>2, <1>3 DEF DataTypes
<1> HIDE DEF record
<1> QED
  BY <1>2, <1>3, <1>4, <1>5, <1>6, <1>7, <1>8, ChangeStep

LEMMA GetDescriptorToSendToStep ==
  ASSUME DataInv, NEW c \in alive, NEW d, GetDescriptorToSendTo(c, d), NEW inUse
  PROVE  /\ DataInv' /\ Untouched(inUse, NULL)
         /\ d # NULL => heap'[c].descriptor = d
<1>1. "Sending" \in ControlState /\ "Error" \in ControlState
  BY DEF ControlState
<1> QED
  BY <1>1, SetControlStep DEF GetDescriptorToSendTo

LEMMA DataConnectionCloseStep ==
  ASSUME DataInv, NEW c \in alive, DataConnectionClose(c), NEW inUse
  PROVE  DataInv' /\ Untouched(inUse, NULL)
<1>1. "Error" \in ControlState /\ {c} \in SUBSET Listed
  BY DEF ControlState, DataInv, Allocated
<1> QED
  BY <1>1, SetControlStep, CloseStep DEF DataConnectionClose
\* What the switch on the state leaves alone.
LEMMA ClaimedFacts ==
  ASSUME NEW record \in DataConnection
  PROVE  /\ Claimed(record) \in DataConnection
         /\ Claimed(record).identifier = record.identifier
         /\ Claimed(record).active = record.active
         /\ Claimed(record).descriptor = record.descriptor
         /\ Claimed(record).state \in Reached <=> record.state \in Reached
<1>1. record.state \in {"Empty", "HasDescriptor", "HasAssociatedControl", "HasBoth"}
  BY DEF DataConnection, DataConnectionState
<1>2. CASE record.state = "Empty"
  BY <1>2 DEF Claimed, Reached, DataConnection, DataConnectionState, ControlState
<1>3. CASE record.state = "HasDescriptor"
  BY <1>3 DEF Claimed, Reached, DataConnection, DataConnectionState, ControlState
<1>4. CASE record.state = "HasAssociatedControl"
  BY <1>4 DEF Claimed, Reached, DataConnection, DataConnectionState, ControlState
<1>5. CASE record.state = "HasBoth"
  BY <1>5 DEF Claimed, Reached, DataConnection, DataConnectionState, ControlState
<1> QED
  BY <1>1, <1>2, <1>3, <1>4, <1>5

LEMMA ConnectedFacts ==
  ASSUME NEW record \in DataConnection, NEW d \in Descs
  PROVE  /\ Connected(record, d) \in DataConnection
         /\ Connected(record, d).identifier = record.identifier
         /\ Connected(record, d).active = NULL
         /\ Connected(record, d).descriptor = d
         /\ Connected(record, d).state \in Reached
BY DEF Connected, Reached, DataConnection, DataConnectionState, ControlState

\* get_data_connection_for_control_thread_or_add, whatever it returns.
LEMMA GetForControlStep ==
  ASSUME DataInv, NEW ident \in Identifiers \cup {Automatic}, NEW res, NEW inUse,
         NEW used, GetForControl(ident, res, inUse, used)
  PROVE  DataInv' /\ Untouched(inUse, NULL)
<1> USE NullFacts
<1>1. DataTypes /\ Allocated /\ PortsAgree /\ DescriptorsOwned
  BY DEF DataInv
<1>2. CASE UNCHANGED dataVars
  BY <1>2, NoStep
<1>3. ASSUME NEW c \in Find(ident), Same, UNCHANGED <<ports, descs>>,
             heap' = [heap EXCEPT ![c] = Claimed(heap[c])]
      PROVE  DataInv' /\ Untouched(inUse, NULL)
  <2>1. c \in Listed /\ heap[c] \in DataConnection
    BY <1>1 DEF Find, Allocated
  <2>2. heap[c].descriptor # NULL => heap[c].state \in Reached
    BY <1>1, <2>1 DEF DescriptorsOwned, Reached
  <2>3. /\ connections' = connections /\ alive' = alive /\ ports' = ports
        /\ descs' = descs /\ descs \subseteq Descs
    BY <1>1, <1>3 DEF Same, DataTypes
  <2> QED
    BY <1>3, <2>1, <2>2, <2>3, ClaimedFacts, ChangeStep
<1>4. ASSUME NEW c \in Find(ident), Same, UNCHANGED ports, heap[c].active # NULL,
             NEW d \in Descs, d \notin descs, descs' = descs \cup {d},
             heap' = [heap EXCEPT ![c] = Connected(Claimed(heap[c]), d)]
      PROVE  DataInv' /\ Untouched(inUse, NULL)
  <2> DEFINE record == Connected(Claimed(heap[c]), d)
  <2>1. c \in Listed /\ heap[c] \in DataConnection
    BY <1>1 DEF Find, Allocated
  <2>2. heap[c].descriptor = NULL /\ IsActive(heap[c].identifier)
    BY <1>1, <1>4, <2>1 DEF DescriptorsOwned
  <2>3. /\ record \in DataConnection /\ record.identifier = heap[c].identifier
        /\ record.active = NULL /\ record.descriptor = d /\ record.state \in Reached
    BY <2>1, ClaimedFacts, ConnectedFacts
  <2>4. \A e \in Listed : heap[e].descriptor # d
    BY <1>1, <1>4 DEF DescriptorsOwned
  <2>5. \A p \in Ports : heap[c].identifier # Passive(p)
    BY <2>2, IdentFacts
  <2>6. /\ connections' = connections /\ alive' = alive /\ ports' = ports
        /\ descs \subseteq descs' /\ descs' \subseteq Descs /\ d \in descs'
    BY <1>1, <1>4 DEF Same, DataTypes
  <2>7. heap' = [heap EXCEPT ![c] = record]
    BY <1>4
  <2> HIDE DEF record
  <2> QED
    <3>1. d \notin descs
      BY <1>4
    <3> QED
      BY <2>1, <2>2, <2>3, <2>4, <2>5, <2>6, <2>7, <3>1, ChangeStep
<1>5. ASSUME ident # Automatic, Find(ident) = {}, UNCHANGED <<ports, descs>>,
             NEW c \in Conns, NEW record, Push(c, record, inUse),
             NEW active \in ActiveOutcomes, active # NULL => IsActive(ident),
             \/ /\ active = "connected"
                /\ record = [NewControl(ident) EXCEPT !.active = active,
                                !.state = "HasBoth", !.control = "Retrieved"]
             \/ record = [NewControl(ident) EXCEPT !.active = active]
      PROVE  DataInv' /\ Untouched(inUse, NULL)
  <2>1. NewControl(ident) \in DataConnection
    BY <1>5 DEF NewControl, DataConnection, DataConnectionState, ControlState
  <2>2. record \in DataConnection
    BY <1>5, <2>1 DEF DataConnection, DataConnectionState, ControlState, ActiveOutcomes
  <2>3. /\ record.identifier = ident
        /\ record.descriptor = NULL
        /\ record.active = active
        /\ active = NULL => record.state \notin Reached
    <3>1. CASE /\ active = "connected"
               /\ record = [NewControl(ident) EXCEPT !.active = active,
                               !.state = "HasBoth", !.control = "Retrieved"]
      BY <3>1 DEF NewControl
    <3>2. CASE record = [NewControl(ident) EXCEPT !.active = active]
      BY <3>2 DEF NewControl, Reached
    <3> QED
      BY <1>5, <3>1, <3>2
  <2>4. \A q \in Ports : record.identifier = Passive(q) => active = NULL
    BY <1>5, <2>3, IdentFacts
  <2>5. ports' \in [Ports -> PortMetadata] /\ descs' = descs
    BY <1>1, <1>5 DEF DataTypes
  <2> QED
    BY <1>5, <2>2, <2>3, <2>4, <2>5, PushStep
<1>6. CASE ident = Automatic /\ Same /\ UNCHANGED <<heap, ports, descs>>
  BY <1>2, <1>6 DEF Same, dataVars
<1>7. CASE \E c \in Find(ident) :
             /\ Same /\ UNCHANGED ports
             /\ \/ /\ heap' = [heap EXCEPT ![c] = Claimed(heap[c])]
                   /\ UNCHANGED descs
                \/ /\ heap[c].active # NULL
                   /\ \E d \in Descs :
                         /\ IsNew(d, used \cup descs)
                         /\ descs' = descs \cup {d}
                         /\ heap' = [heap EXCEPT ![c] = Connected(Claimed(heap[c]), d)]
  BY <1>3, <1>4, <1>7 DEF IsNew
<1>8. CASE /\ ident # Automatic
           /\ Find(ident) = {}
           /\ UNCHANGED <<ports, descs>>
           /\ \E c \in Conns, active \in ActiveOutcomes :
                 /\ active # NULL => IsActive(ident)
                 /\ IF active = "connected"
                    THEN Push(c, [NewControl(ident) EXCEPT !.active = active,
                                    !.state = "HasBoth", !.control = "Retrieved"], inUse)
                    ELSE Push(c, [NewControl(ident) EXCEPT !.active = active], inUse)
  BY <1>5, <1>8
<1> QED
  BY <1>6, <1>7, <1>8 DEF GetForControl

-----------------------------------------------------------------------------
(* The threads.                                                            *)

\* A data listener that takes no step keeps what it holds.
LEMMA ListenersKept ==
  ASSUME IInv, DataInv', Untouched(InUse, NULL), UNCHANGED listenerVars
  PROVE  ListenersInv'
<1> USE NullFacts
<1>1. /\ DataTypes /\ Allocated /\ DescriptorsOwned /\ ListenersInv
      /\ lheld \in [Ports -> Conns \cup {NULL}]
  BY DEF IInv, DataInv, ThreadTypes
<1>2. ASSUME NEW p \in Ports
      PROVE  /\ lpc[p] # "none" => p <= opened
             /\ lpc[p] \in {"poll", "get", "add", "sweep"} => lport[p] \in Ports
  BY <1>1, <1>2 DEF ListenersInv
<1>3. ASSUME NEW p \in Ports, lpc[p] = "add", lheld[p] \in alive'
      PROVE  /\ heap'[lheld[p]].identifier = Passive(lport[p])
             /\ ports'[lport[p]].associated = lheld[p]
  <2>1. lheld[p] \in InUse
    BY DEF InUse
  <2>2. lheld[p] \in alive /\ lport[p] \in Ports
    BY <1>1, <1>3, <2>1 DEF Untouched, ListenersInv
  <2> QED
    BY <1>1, <1>3, <2>2 DEF Untouched, ListenersInv
<1>4. ASSUME NEW p \in Ports, HoldsDesc(p)
      PROVE  /\ ldesc[p] \in descs'
             /\ \A c \in connections' : heap'[c].descriptor # ldesc[p]
             /\ \A q \in Ports : HoldsDesc(q) /\ ldesc[q] = ldesc[p] => q = p
  <2>1. /\ ldesc[p] \in descs
        /\ \A c \in Listed : heap[c].descriptor # ldesc[p]
        /\ \A q \in Ports : HoldsDesc(q) /\ ldesc[q] = ldesc[p] => q = p
    BY <1>1, <1>4 DEF ListenersInv
  <2>2. ldesc[p] \in descs' /\ ldesc[p] # NULL
    BY <1>1, <2>1 DEF Untouched, DataTypes
  <2>3. \A c \in connections' : heap'[c].descriptor # ldesc[p]
    BY <2>1, <2>2 DEF Untouched, Listed
  <2> QED
    BY <2>1, <2>2, <2>3
<1>5. UNCHANGED <<lpc, lport, lheld, ldesc, opened>>
  BY DEF listenerVars
<1> QED
  BY <1>2, <1>3, <1>4, <1>5 DEF ListenersInv, HoldsDesc, Listed

\* A transfer that is under way keeps its descriptor, whatever others do.
LEMMA TransfersKept ==
  ASSUME IInv, NEW given, Untouched(InUse, given),
         \A s \in Threads : session'[s].pc = "move" =>
             /\ session[s].pc = "move"
             /\ session'[s].dfd = session[s].dfd
             /\ session'[s].held = session[s].held
  PROVE  TransfersInv'
<1> SUFFICES ASSUME NEW s \in Threads, session'[s].pc = "move",
                    session'[s].dfd # NULL, session'[s].held \in alive'
             PROVE  heap'[session'[s].held].descriptor = session'[s].dfd
  BY DEF TransfersInv
<1>1. session[s].held \in InUse
  BY DEF InUse
<1>2. session[s].held \in alive
  BY <1>1 DEF Untouched
<1>3. heap[session[s].held].descriptor = session[s].dfd
  BY <1>2 DEF IInv, TransfersInv
<1> QED
  BY <1>2, <1>3 DEF Untouched
\* The queue of jobs holds what it did while sessions go on.
LEMMA JobsKept ==
  ASSUME JobsInv, UNCHANGED <<jobVars, mpc>>,
         \A s \in Threads :
             /\ session[s].pc # "none" => session'[s].pc # "none"
             /\ SessionOver(s) => session'[s] = session[s]
  PROVE  JobsInv'
<1>1. UNCHANGED <<cpc, job_ids, excess, dropped, mpc>>
  BY DEF jobVars
<1>2. JobTypes' /\ QueueBound'
  BY <1>1 DEF JobsInv, JobTypes, QueueBound
<1>3. \A i \in 1..Len(job_ids) : job_ids[i] \in Threads
  BY DEF JobsInv, JobTypes
<1>4. QueueOnce'
  BY <1>1, <1>3 DEF JobsInv, QueueOnce
<1>5. ASSUME NEW s \in Threads PROVE Kept(s)'
  <2>1. Kept(s)
    BY DEF JobsInv, NoneForgotten
  <2> QED
    BY <1>1, <2>1 DEF Kept, SessionOver
<1>6. NoneForgotten'
  BY <1>1, <1>5 DEF JobsInv, NoneForgotten
<1> QED
  BY <1>2, <1>4, <1>6 DEF JobsInv

\* A control thread takes a step: the others, the listeners and the main
\* thread are where they were.
LEMMA SessionStep ==
  ASSUME IInv, NEW s \in Threads, NEW next \in Session,
         session' = [session EXCEPT ![s] = next],
         UNCHANGED listenerVars, UNCHANGED <<jobVars, mpc>>,
         DataInv', Untouched(InUse, NULL),
         ~SessionOver(s), next.pc # "none",
         next.pc = "move" =>
             \/ session[s].pc = "move" /\ next.dfd = session[s].dfd
                                       /\ next.held = session[s].held
             \/ next.dfd # NULL => heap'[next.held].descriptor = next.dfd
  PROVE  IInv'
<1>1. ThreadTypes /\ JobsInv
  BY DEF IInv
<1>2. session'[s] = next /\ \A t \in Threads \ {s} : session'[t] = session[t]
  BY <1>1 DEF ThreadTypes
<1>3. ThreadTypes'
  BY <1>1 DEF ThreadTypes, listenerVars
<1>4. JobsInv'
  BY <1>1, <1>2, JobsKept
<1>5. TransfersInv'
  <2>1. CASE next.pc = "move" => /\ session[s].pc = "move"
                                 /\ next.dfd = session[s].dfd
                                 /\ next.held = session[s].held
    BY <1>2, <2>1, TransfersKept
  <2>2. CASE next.dfd # NULL => heap'[next.held].descriptor = next.dfd
    <3> SUFFICES ASSUME NEW t \in Threads, session'[t].pc = "move",
                        session'[t].dfd # NULL, session'[t].held \in alive'
                 PROVE  heap'[session'[t].held].descriptor = session'[t].dfd
      BY DEF TransfersInv
    <3>1. CASE t = s
      BY <1>2, <2>2, <3>1
    <3>2. CASE t # s
      <4>1. session'[t] = session[t] /\ session[t].held \in InUse
        BY <1>2, <3>2 DEF InUse
      <4>2. session[t].held \in alive
        BY <4>1 DEF Untouched
      <4>3. heap[session[t].held].descriptor = session[t].dfd
        BY <4>1, <4>2 DEF IInv, TransfersInv
      <4> QED
        BY <4>1, <4>2, <4>3 DEF Untouched
    <3> QED
      BY <3>1, <3>2
  <2> QED
    BY <2>1, <2>2
<1> QED
  BY <1>3, <1>4, <1>5, ListenersKept DEF IInv

\* The reply decides whether the thread goes on or its session ends.
LEMMA ReplyStep ==
  ASSUME IInv, NEW s \in Threads, NEW next \in Session, Reply(s, next),
         UNCHANGED listenerVars, UNCHANGED <<jobVars, mpc>>,
         DataInv', Untouched(InUse, NULL),
         ~SessionOver(s), next.pc # "none",
         next.pc # "move"
  PROVE  IInv'
<1>1. Closed \in Session /\ Closed.pc \notin {"move", "none"}
  BY NullFacts DEF Closed, Fresh, Session, Places
<1> HIDE DEF Closed
<1> QED
  BY <1>1, SessionStep DEF Reply

\* The state of a control thread after a command.
LEMMA FinishStep ==
  ASSUME IInv, NEW s \in Threads, Finish(s),
         UNCHANGED listenerVars, UNCHANGED <<jobVars, mpc>>,
         DataInv', Untouched(InUse, NULL),
         ~SessionOver(s)
  PROVE  IInv'
<1> DEFINE next == [session[s] EXCEPT !.pc = "ready", !.cmd = "none", !.held = NULL,
                                      !.dfd = NULL, !.togo = 0]
<1>1. session[s] \in Session
  BY DEF IInv, ThreadTypes
<1>2. next \in Session /\ next.pc \notin {"move", "none"}
  BY <1>1 DEF Session, Places
<1>3. Reply(s, next)
  BY DEF Finish
<1> HIDE DEF next
<1> QED
  BY <1>2, <1>3, ReplyStep

\* The commands that do not transfer.
LEMMA CommandStep ==
  ASSUME IInv, NEW s \in Threads,
         StartSession(s) \/ ClientLeaves(s) \/ Command(s)
  PROVE  IInv'
<1> USE NullFacts
<1>1. DataInv /\ ThreadTypes /\ session[s] \in Session
  BY DEF IInv, ThreadTypes
<1>2. ASSUME UNCHANGED dataVars PROVE DataInv' /\ Untouched(InUse, NULL)
  BY <1>1, <1>2, NoStep
<1>3. ASSUME Elsewhere PROVE UNCHANGED listenerVars /\ UNCHANGED <<jobVars, mpc>>
  BY <1>3 DEF Elsewhere, processVars
<1>4. ASSUME NEW c, Receives(s, c) PROVE session[s].pc = "ready" /\ ~SessionOver(s)
  BY <1>4 DEF Receives, SessionOver
<1>5. CASE StartSession(s)
  <2> DEFINE next == [Fresh EXCEPT !.pc = "ready"]
  <2>1. next \in Session /\ next.pc \notin {"move", "none"}
    BY DEF Fresh, Session, Places
  <2>2. Reply(s, next) /\ Elsewhere /\ UNCHANGED dataVars /\ ~SessionOver(s)
    BY <1>5 DEF StartSession, SessionOver
  <2> HIDE DEF next
  <2> QED
    BY <1>2, <1>3, <2>1, <2>2, ReplyStep
<1>6. CASE ClientLeaves(s)
  <2>1. Closed \in Session /\ Closed.pc \notin {"move", "none"}
    BY DEF Closed, Fresh, Session, Places
  <2>2. /\ session' = [session EXCEPT ![s] = Closed]
        /\ Elsewhere /\ UNCHANGED dataVars /\ ~SessionOver(s)
    BY <1>6 DEF ClientLeaves, SessionOver
  <2> QED
    BY <1>2, <1>3, <2>1, <2>2, SessionStep
<1>7. CASE AnswerOnly(s) \/ DirectoryCommand(s) \/ RefuseTransfer(s)
  <2>1. /\ Reply(s, session[s]) /\ Elsewhere /\ UNCHANGED dataVars
        /\ \E c : Receives(s, c)
    BY <1>7 DEF AnswerOnly, DirectoryCommand, RefuseTransfer
  <2> QED
    BY <1>1, <1>2, <1>3, <1>4, <2>1, ReplyStep
<1>8. ASSUME NEW name, User(s, name) PROVE IInv'
  <2> DEFINE next == [session[s] EXCEPT !.account =
                        IF name = "USER anonymous" THEN "OkAnon" ELSE "OnlyUser"]
  <2>1. session[s].pc = "ready" /\ ~SessionOver(s)
    BY <1>4, <1>8 DEF User
  <2>2. next \in Session /\ next.pc \notin {"move", "none"}
    BY <1>1, <2>1 DEF Session
  <2>3. Reply(s, next) /\ Elsewhere /\ UNCHANGED dataVars
    BY <1>8 DEF User
  <2> HIDE DEF next
  <2> QED
    BY <1>2, <1>3, <2>1, <2>2, <2>3, ReplyStep
<1>9. ASSUME NEW validity, Pass(s, validity) PROVE IInv'
  <2> DEFINE next == [session[s] EXCEPT !.account =
                        CASE @ = "OkAnon" -> "OkAnon"
                          [] @ = "OnlyUser" /\ validity = "Ok" -> "OkUser"
                          [] OTHER -> "Empty"]
  <2>1. session[s].pc = "ready" /\ ~SessionOver(s)
    BY <1>4, <1>9 DEF Pass
  <2>2. next \in Session /\ next.pc \notin {"move", "none"}
    BY <1>1, <2>1 DEF Session
  <2>3. Reply(s, next) /\ Elsewhere /\ UNCHANGED dataVars
    BY <1>9 DEF Pass
  <2> HIDE DEF next
  <2> QED
    BY <1>2, <1>3, <2>1, <2>2, <2>3, ReplyStep
<1>10. ASSUME NEW code, Type(s, code) PROVE IInv'
  <2> DEFINE next == [session[s] EXCEPT !.type = "Image"]
  <2>1. session[s].pc = "ready" /\ ~SessionOver(s)
    BY <1>4, <1>10 DEF Type
  <2>2. next \in Session /\ next.pc \notin {"move", "none"}
    BY <1>1, <2>1 DEF Session
  <2>3. Reply(s, next) /\ Elsewhere /\ UNCHANGED dataVars
    BY <1>10 DEF Type, Reply
  <2> HIDE DEF next
  <2> QED
    BY <1>2, <1>3, <2>1, <2>2, <2>3, ReplyStep
<1>11. CASE Pasv(s)
  <2>1. PICK p \in Ports \cup {0} :
            /\ GetAvailablePort(p)
            /\ Reply(s, [session[s] EXCEPT !.settings = IF p = 0 THEN @ ELSE Passive(p)])
    BY <1>11 DEF Pasv
  <2> DEFINE next == [session[s] EXCEPT !.settings = IF p = 0 THEN @ ELSE Passive(p)]
  <2>2. session[s].pc = "ready" /\ ~SessionOver(s) /\ Elsewhere
    BY <1>4, <1>11 DEF Pasv
  <2>3. next \in Session /\ next.pc \notin {"move", "none"}
    BY <1>1, <2>2, IdentFacts DEF Session
  <2>4. DataInv' /\ Untouched(InUse, NULL)
    BY <1>1, <2>1, GetAvailablePortStep
  <2>5. Reply(s, next)
    BY <2>1
  <2> HIDE DEF next
  <2> QED
    BY <1>3, <2>2, <2>3, <2>4, <2>5, ReplyStep
<1>12. ASSUME NEW a \in Addrs, Port(s, a) PROVE IInv'
  <2> DEFINE next == [session[s] EXCEPT !.settings = Active(a)]
  <2>1. session[s].pc = "ready" /\ ~SessionOver(s)
    BY <1>4, <1>12 DEF Port
  <2>2. next \in Session /\ next.pc \notin {"move", "none"}
    BY <1>1, <2>1, IdentFacts DEF Session
  <2>3. Reply(s, next) /\ Elsewhere /\ UNCHANGED dataVars
    BY <1>12 DEF Port
  <2> HIDE DEF next
  <2> QED
    BY <1>2, <1>3, <2>1, <2>2, <2>3, ReplyStep
<1>13. ASSUME NEW c \in Transfers, StartTransfer(s, c) PROVE IInv'
  <2> DEFINE next == [session[s] EXCEPT !.cmd = c, !.pc = "sweep"]
  <2>1. session[s].pc = "ready" /\ ~SessionOver(s)
    BY <1>4, <1>13 DEF StartTransfer
  <2>2. next \in Session /\ next.pc \notin {"move", "none"}
    BY <1>1 DEF Session, Places
  <2>3. session' = [session EXCEPT ![s] = next]
    BY <1>1, <1>13 DEF StartTransfer, Session, ThreadTypes
  <2>4. Elsewhere /\ UNCHANGED dataVars
    BY <1>13 DEF StartTransfer
  <2> HIDE DEF next
  <2> QED
    BY <1>2, <1>3, <2>1, <2>2, <2>3, <2>4, SessionStep
<1> QED
  BY <1>5, <1>6, <1>7, <1>8, <1>9, <1>10, <1>11, <1>12, <1>13 DEF Command
\* How much goes out at once is not more than there is.
LEMMA ChunkFits ==
  ASSUME NEW c, NEW n \in Nat, n > 0
  PROVE  n - Chunk(c, n) \in Nat
BY ServerAssumption DEF Chunk

\* STOR, RETR and LIST.
LEMMA TransferStepInv ==
  ASSUME IInv, NEW s \in Threads, TransferStep(s)
  PROVE  IInv'
<1> USE NullFacts
<1>1. DataInv /\ ThreadTypes /\ session[s] \in Session
  BY DEF IInv, ThreadTypes
<1>2. ASSUME UNCHANGED dataVars PROVE DataInv' /\ Untouched(InUse, NULL)
  BY <1>1, <1>2, NoStep
<1>3. ASSUME Elsewhere PROVE UNCHANGED listenerVars /\ UNCHANGED <<jobVars, mpc>>
  BY <1>3 DEF Elsewhere, processVars
<1>4. ASSUME NEW place \in Places \ {"none", "closed"}, At(s, place) PROVE ~SessionOver(s)
  BY <1>4 DEF At, SessionOver
<1>5. ASSUME NEW place \in Places \ {"move", "none"}, Goto(s, place), ~SessionOver(s),
             UNCHANGED listenerVars, UNCHANGED <<jobVars, mpc>>,
             DataInv', Untouched(InUse, NULL)
      PROVE  IInv'
  <2> DEFINE next == [session[s] EXCEPT !.pc = place]
  <2>1. next \in Session /\ next.pc \notin {"move", "none"}
    BY <1>1 DEF Session
  <2>2. session' = [session EXCEPT ![s] = next]
    BY <1>1, <1>5 DEF Goto, Session, ThreadTypes
  <2> HIDE DEF next
  <2> QED
    BY <1>5, <2>1, <2>2, SessionStep
<1>6. CASE Sweep(s)
  <2>1. Goto(s, "get") /\ Elsewhere /\ DataConnectionsToClose /\ At(s, "sweep")
    BY <1>6 DEF Sweep
  <2>2. DataInv' /\ Untouched(InUse, NULL)
    BY <1>1, <2>1, SweepStep
  <2> QED
    BY <1>3, <1>4, <1>5, <2>1, <2>2 DEF Places
<1>7. ASSUME NEW res \in Conns \cup {NULL}, Look(s, res)
      PROVE  DataInv' /\ Untouched(InUse, NULL)
  <2>1. session[s].settings \in Identifiers \cup {Automatic}
    BY <1>1 DEF Session
  <2> QED
    BY <1>1, <1>7, <2>1, GetForControlStep DEF Look
<1>8. ASSUME NEW res \in Conns \cup {NULL}
      PROVE  After(s, res) \in Session /\ After(s, res).pc \notin {"move", "none"}
  BY <1>1 DEF After, Session, Places
<1>9. CASE GetConnection(s)
  <2>1. PICK res \in Conns \cup {NULL} : Look(s, res) /\ Reply(s, After(s, res))
    BY <1>9 DEF GetConnection
  <2>2. Elsewhere /\ At(s, "get")
    BY <1>9 DEF GetConnection
  <2> QED
    BY <1>3, <1>4, <1>7, <1>8, <2>1, <2>2, ReplyStep DEF Places
<1>10. CASE Wait(s)
  <2>1. /\ Goto(s, "retry") \/ Goto(s, "sleep")
        /\ Elsewhere /\ UNCHANGED dataVars /\ At(s, "wait")
    BY <1>10 DEF Wait
  <2> QED
    BY <1>2, <1>3, <1>4, <1>5, <2>1 DEF Places
<1>11. CASE WakeUp(s)
  <2>1. /\ Goto(s, "retry") \/ Goto(s, "refuse")
        /\ UNCHANGED listenerVars /\ UNCHANGED <<jobVars, mpc>> /\ UNCHANGED dataVars
        /\ At(s, "sleep")
    BY <1>11 DEF WakeUp
  <2> QED
    BY <1>2, <1>4, <1>5, <2>1 DEF Places
<1>12. CASE Retry(s)
  <2>1. PICK res \in Conns \cup {NULL} :
            Look(s, res) /\ session' = [session EXCEPT ![s] = After(s, res)]
    BY <1>12 DEF Retry
  <2>2. Elsewhere /\ At(s, "retry")
    BY <1>12 DEF Retry
  <2> QED
    BY <1>3, <1>4, <1>7, <1>8, <2>1, <2>2, SessionStep DEF Places
<1>13. CASE WaitTimeout(s)
  <2>1. Goto(s, "refuse") /\ Elsewhere /\ UNCHANGED dataVars /\ At(s, "retry")
    BY <1>13 DEF WaitTimeout
  <2> QED
    BY <1>2, <1>3, <1>4, <1>5, <2>1 DEF Places
<1>18. CASE Refuse(s)
  <2>1. Finish(s) /\ Elsewhere /\ UNCHANGED dataVars /\ At(s, "refuse")
    BY <1>18 DEF Refuse
  <2> QED
    BY <1>2, <1>3, <1>4, <2>1, FinishStep DEF Places
<1>14. CASE Take(s)
  <2>1. Elsewhere /\ At(s, "take") /\ session[s].held \in alive
    BY <1>14 DEF Take
  <2>2. PICK d \in Descs \cup {NULL} :
            /\ GetDescriptorToSendTo(session[s].held, d)
            /\ \/ \E n \in DataToSend(session[s].cmd) :
                     session' = [session EXCEPT ![s].dfd = d, ![s].togo = n,
                                                ![s].pc = "move"]
               \/ Finish(s)
    BY <1>14 DEF Take
  <2>3. /\ DataInv' /\ Untouched(InUse, NULL)
        /\ d # NULL => heap'[session[s].held].descriptor = d
    BY <1>1, <2>1, <2>2, GetDescriptorToSendToStep
  <2>4. ASSUME NEW n \in DataToSend(session[s].cmd),
               session' = [session EXCEPT ![s].dfd = d, ![s].togo = n, ![s].pc = "move"]
        PROVE  IInv'
    <3> DEFINE next == [session[s] EXCEPT !.dfd = d, !.togo = n, !.pc = "move"]
    <3>1. n \in Nat
      BY ServerAssumption DEF DataToSend
    <3>2. /\ next \in Session /\ next.held = session[s].held /\ next.dfd = d
          /\ next.pc # "none"
      BY <1>1, <3>1 DEF Session, Places
    <3>3. session' = [session EXCEPT ![s] = next]
      BY <1>1, <2>4 DEF Session, ThreadTypes
    <3> HIDE DEF next
    <3> QED
      BY <1>3, <1>4, <2>1, <2>3, <3>2, <3>3, SessionStep DEF Places
  <2> QED
    BY <1>3, <1>4, <2>1, <2>2, <2>3, <2>4, FinishStep DEF Places
<1>15. CASE Receive(s)
  <2>1. Finish(s) /\ Elsewhere /\ UNCHANGED dataVars /\ At(s, "move")
    BY <1>15 DEF Receive
  <2> QED
    BY <1>2, <1>3, <1>4, <2>1, FinishStep DEF Places
<1>16. CASE Send(s)
  <2>1. Elsewhere /\ UNCHANGED dataVars /\ At(s, "move")
    BY <1>16 DEF Send
  <2>2. \/ /\ session[s].togo > 0
           /\ session' = [session EXCEPT ![s].togo = @ - Chunk(session[s].cmd, @)]
        \/ Finish(s)
        \/ Goto(s, "close")
    BY <1>16 DEF Send
  <2>3. ASSUME session[s].togo > 0,
               session' = [session EXCEPT ![s].togo = @ - Chunk(session[s].cmd, @)]
        PROVE  IInv'
    <3>1. PICK left : left = session[s].togo - Chunk(session[s].cmd, session[s].togo)
      OBVIOUS
    <3> DEFINE next == [session[s] EXCEPT !.togo = left]
    <3>2. session[s].togo \in Nat
      BY <1>1 DEF Session
    <3>3. left \in Nat
      BY <2>3, <3>1, <3>2, ChunkFits
    <3>4. next \in Session /\ next.pc = session[s].pc
          /\ next.held = session[s].held /\ next.dfd = session[s].dfd
      BY <1>1, <3>3 DEF Session
    <3>5. session' = [session EXCEPT ![s] = next]
      BY <1>1, <2>3, <3>1 DEF Session, ThreadTypes
    <3> HIDE DEF next
    <3> QED
      BY <1>2, <1>3, <1>4, <2>1, <3>4, <3>5, SessionStep DEF Places, At
  <2> QED
    BY <1>2, <1>3, <1>4, <1>5, <2>1, <2>2, <2>3, FinishStep DEF Places
<1>17. CASE Close(s)
  <2>1. /\ Finish(s) /\ Elsewhere /\ At(s, "close")
        /\ session[s].held \in alive /\ DataConnectionClose(session[s].held)
    BY <1>17 DEF Close
  <2>2. DataInv' /\ Untouched(InUse, NULL)
    BY <1>1, <2>1, DataConnectionCloseStep
  <2> QED
    BY <1>3, <1>4, <2>1, <2>2, FinishStep DEF Places
<1> QED
  BY <1>6, <1>9, <1>10, <1>11, <1>12, <1>13, <1>14, <1>15, <1>16, <1>17,
     <1>18 DEF TransferStep, WaitStep

\* The listener of p takes a step and changes nothing that others hold.
LEMMA ListenerMoves ==
  ASSUME IInv, NEW p \in Ports, UNCHANGED <<session, jobVars, mpc, opened>>,
         DataInv', NEW given, Untouched(InUse, given),
         given # NULL => lpc[p] = "add" /\ ldesc[p] = given,
         ThreadTypes',
         lpc[p] \notin {"none", "ended"}, lpc'[p] # "none",
         \A q \in Ports \ {p} :
             /\ lpc'[q] = lpc[q] /\ lport'[q] = lport[q]
             /\ lheld'[q] = lheld[q] /\ ldesc'[q] = ldesc[q],
         lpc'[p] \in {"poll", "get", "add", "sweep"} => lport'[p] \in Ports,
         lpc'[p] = "add" =>
             /\ lpc[p] = "get" /\ ldesc'[p] = ldesc[p] /\ given = NULL
             /\ heap'[lheld'[p]].identifier = Passive(lport'[p])
             /\ ports'[lport'[p]].associated = lheld'[p],
         lpc'[p] = "get" => ldesc'[p] \in descs' \ descs /\ heap' = heap
                                /\ connections' = connections
  PROVE  IInv'
<1> USE NullFacts
<1>1. /\ DataTypes /\ Allocated /\ DescriptorsOwned /\ ListenersInv /\ JobsInv
      /\ ThreadTypes
  BY DEF IInv, DataInv
<1>2. ASSUME NEW q \in Ports, q # p, lpc[q] = "add", lheld[q] \in alive'
      PROVE  /\ heap'[lheld[q]].identifier = Passive(lport[q])
             /\ ports'[lport[q]].associated = lheld[q]
  <2>1. lheld[q] \in InUse
    BY DEF InUse
  <2>2. lheld[q] \in alive /\ lport[q] \in Ports
    BY <1>1, <1>2, <2>1 DEF Untouched, ListenersInv
  <2> QED
    BY <1>1, <1>2, <2>2 DEF Untouched, ListenersInv
<1>3. ASSUME NEW q \in Ports, HoldsDesc(q), q # p \/ given = NULL
      PROVE  /\ ldesc[q] \in descs /\ ldesc[q] \in descs'
             /\ \A c \in connections' : heap'[c].descriptor # ldesc[q]
  <2>1. /\ ldesc[q] \in descs
        /\ \A c \in Listed : heap[c].descriptor # ldesc[q]
    BY <1>1, <1>3 DEF ListenersInv
  <2>2. ldesc[q] \in descs' /\ ldesc[q] # NULL
    BY <1>1, <2>1 DEF Untouched, DataTypes
  <2>3. given = NULL \/ ldesc[q] # given
    BY <1>1, <1>3 DEF ListenersInv, HoldsDesc
  <2> QED
    BY <2>1, <2>2, <2>3 DEF Untouched, Listed
<1>4. ListenersInv'
  <2>1. ASSUME NEW q \in Ports
        PROVE  /\ lpc'[q] # "none" => q <= opened'
               /\ lpc'[q] \in {"poll", "get", "add", "sweep"} => lport'[q] \in Ports
    BY <1>1, <2>1 DEF ListenersInv
  <2>2. ASSUME NEW q \in Ports, lpc'[q] = "add", lheld'[q] \in alive'
        PROVE  /\ heap'[lheld'[q]].identifier = Passive(lport'[q])
               /\ ports'[lport'[q]].associated = lheld'[q]
    BY <1>2, <2>2
  <2>3. ASSUME NEW q \in Ports, HoldsDesc(q)'
        PROVE  /\ ldesc'[q] \in descs'
               /\ \A c \in Listed' : heap'[c].descriptor # ldesc'[q]
               /\ ldesc'[q] \in descs \/ (q = p /\ ldesc'[q] \notin descs)
    <3>1. CASE q # p \/ lpc'[q] = "add"
      BY <1>3, <2>3, <3>1 DEF HoldsDesc, Listed
    <3>2. CASE q = p /\ lpc'[q] = "get"
      <4>1. ldesc'[q] # NULL /\ ldesc'[q] \notin descs /\ ldesc'[q] \in descs'
        BY <3>2 DEF DataInv, DataTypes
      <4> QED
        BY <1>1, <3>2, <4>1 DEF DescriptorsOwned, Listed
    <3> QED
      BY <2>3, <3>1, <3>2 DEF HoldsDesc
  <2>4. ASSUME NEW q \in Ports, NEW r \in Ports, HoldsDesc(q)', HoldsDesc(r)',
               ldesc'[r] = ldesc'[q]
        PROVE  r = q
    <3>1. ASSUME NEW t \in Ports, HoldsDesc(t)', ldesc'[t] \in descs
          PROVE  HoldsDesc(t) /\ ldesc'[t] = ldesc[t]
      <4>1. t # p \/ lpc'[t] = "add"
        BY <3>1 DEF HoldsDesc
      <4> QED
        BY <3>1, <4>1 DEF HoldsDesc
    <3>2. CASE ldesc'[q] \in descs
      BY <1>1, <2>4, <3>1, <3>2 DEF ListenersInv
    <3>3. CASE ldesc'[q] \notin descs
      BY <2>3, <2>4, <3>3
    <3> QED
      BY <3>2, <3>3
  <2> QED
    BY <2>1, <2>2, <2>3, <2>4 DEF ListenersInv
<1>5. TransfersInv'
  BY TransfersKept
<1>6. JobsInv'
  BY <1>1, JobsKept
<1> QED
  BY <1>4, <1>5, <1>6 DEF IInv
LEMMA ListenerStepInv ==
  ASSUME IInv, NEW p \in Ports, ListenerStep(p) \/ Accept(p) \/ ListenerEnds(p)
  PROVE  IInv'
<1> USE NullFacts
<1>1. DataInv /\ DataTypes /\ ThreadTypes /\ ListenersInv
  BY DEF IInv, DataInv
<1>2. CASE StartListener(p)
  <2>1. opened \in Ports /\ lpc[p] = "start"
    BY <1>1, <1>2 DEF StartListener, ListenersInv, ThreadTypes, Ports
  <2>2. DataInv' /\ Untouched(InUse, NULL)
    BY <1>1, <1>2, <2>1, SetPortAsAvailableStep DEF StartListener
  <2>3. /\ UNCHANGED <<session, jobVars, mpc, opened, lheld, ldesc>>
        /\ lpc' = [lpc EXCEPT ![p] = "poll"]
        /\ lport' = [lport EXCEPT ![p] = opened]
    BY <1>2 DEF StartListener, Sessions
  <2>4. ThreadTypes'
    BY <1>1, <2>1, <2>3 DEF ThreadTypes, ListenerPlaces
  <2>5. lpc'[p] = "poll" /\ lport'[p] = opened
    BY <1>1, <2>3 DEF ThreadTypes
  <2>6. \A q \in Ports \ {p} :
          /\ lpc'[q] = lpc[q] /\ lport'[q] = lport[q]
          /\ lheld'[q] = lheld[q] /\ ldesc'[q] = ldesc[q]
    BY <1>1, <2>3 DEF ThreadTypes
  <2> QED
    BY <2>1, <2>2, <2>3, <2>4, <2>5, <2>6, ListenerMoves
<1>3. CASE Accept(p)
  <2>1. PICK d \in Descs :
            /\ IsNew(d, UsedDescs \cup descs)
            /\ descs' = descs \cup {d}
            /\ ldesc' = [ldesc EXCEPT ![p] = d]
    BY <1>3 DEF Accept
  <2>2. /\ lpc[p] = "poll" /\ lpc' = [lpc EXCEPT ![p] = "get"]
        /\ UNCHANGED <<connections, alive, heap, ports, lport, lheld, opened, session, jobVars, mpc>>
    BY <1>3 DEF Accept, Sessions
  <2>3. d \notin descs
    BY <2>1 DEF IsNew
  <2>4. DataInv' /\ Untouched(InUse, NULL)
    BY <1>1, <2>1, <2>2
       DEF DataInv, DataTypes, Allocated, PortsAgree, DescriptorsOwned, Listed, Untouched
  <2>5. ThreadTypes'
    BY <1>1, <2>1, <2>2 DEF ThreadTypes, ListenerPlaces
  <2>6. lpc'[p] = "get" /\ ldesc'[p] = d /\ lport'[p] \in Ports
    BY <1>1, <2>1, <2>2 DEF ThreadTypes, ListenersInv
  <2>7. \A q \in Ports \ {p} :
          /\ lpc'[q] = lpc[q] /\ lport'[q] = lport[q]
          /\ lheld'[q] = lheld[q] /\ ldesc'[q] = ldesc[q]
    BY <1>1, <2>1, <2>2 DEF ThreadTypes
  <2>8. d \in descs' \ descs
    BY <2>1, <2>3
  <2> QED
    BY <2>2, <2>4, <2>5, <2>6, <2>7, <2>8, ListenerMoves
<1>4. CASE ListenerGet(p)
  <2>1. PICK c \in Conns : /\ GetForDataThread(lport[p], c, InUse)
                           /\ lheld' = [lheld EXCEPT ![p] = c]
    BY <1>4 DEF ListenerGet
  <2>2. /\ lpc[p] = "get" /\ lpc' = [lpc EXCEPT ![p] = "add"]
        /\ UNCHANGED <<lport, ldesc, opened, session, jobVars, mpc>>
    BY <1>4 DEF ListenerGet, Sessions
  <2>3. lport[p] \in Ports
    BY <1>1, <2>2 DEF ListenersInv
  <2>4. /\ DataInv' /\ Untouched(InUse, NULL)
        /\ heap'[c].identifier = Passive(lport[p])
        /\ ports'[lport[p]].associated = c
    BY <1>1, <2>1, <2>3, GetForDataThreadStep
  <2>5. ThreadTypes'
    BY <1>1, <2>1, <2>2 DEF ThreadTypes, ListenerPlaces
  <2>6. lpc'[p] = "add" /\ lheld'[p] = c /\ lport' = lport /\ ldesc' = ldesc
    BY <1>1, <2>1, <2>2 DEF ThreadTypes
  <2>7. \A q \in Ports \ {p} :
          /\ lpc'[q] = lpc[q] /\ lport'[q] = lport[q]
          /\ lheld'[q] = lheld[q] /\ ldesc'[q] = ldesc[q]
    BY <1>1, <2>1, <2>2 DEF ThreadTypes
  <2> QED
    BY <2>2, <2>3, <2>4, <2>5, <2>6, <2>7, ListenerMoves
<1>5. CASE ListenerAdd(p)
  <2>1. /\ lpc[p] = "add" /\ lheld[p] \in alive
        /\ AddDescriptor(lheld[p], ldesc[p])
        /\ UNCHANGED <<lport, opened, session, jobVars, mpc>>
        /\ lpc' = [lpc EXCEPT ![p] = "sweep"] \/ lpc' = [lpc EXCEPT ![p] = "ended"]
        /\ lheld' = [lheld EXCEPT ![p] = NULL]
        /\ ldesc' = [ldesc EXCEPT ![p] = NULL]
    BY <1>5 DEF ListenerAdd, Sessions
  <2>2. /\ lport[p] \in Ports /\ ldesc[p] \in descs
        /\ heap[lheld[p]].identifier = Passive(lport[p])
        /\ ports[lport[p]].associated = lheld[p]
        /\ \A e \in Listed : heap[e].descriptor # ldesc[p]
    BY <1>1, <2>1 DEF ListenersInv, HoldsDesc
  <2>3. DataInv' /\ Untouched(InUse, ldesc[p])
    BY <1>1, <2>1, <2>2, AddDescriptorStep
  <2>4. ThreadTypes'
    BY <1>1, <2>1 DEF ThreadTypes, ListenerPlaces
  <2>5. lpc'[p] \in {"sweep", "ended"} /\ lport'[p] \in Ports
    BY <1>1, <2>1, <2>2 DEF ThreadTypes
  <2>6. \A q \in Ports \ {p} :
          /\ lpc'[q] = lpc[q] /\ lport'[q] = lport[q]
          /\ lheld'[q] = lheld[q] /\ ldesc'[q] = ldesc[q]
    BY <1>1, <2>1 DEF ThreadTypes
  <2>7. UNCHANGED <<session, jobVars, mpc, opened>>
    BY <2>1
  <2>8. PICK d : d = ldesc[p]
    OBVIOUS
  <2>9. lpc[p] = "add" /\ ldesc[p] = d /\ Untouched(InUse, d)
    BY <2>1, <2>3, <2>8
  <2> QED
    BY <2>3, <2>4, <2>5, <2>6, <2>7, <2>9, ListenerMoves
<1>6. CASE ListenerSweep(p) \/ ListenerEnds(p)
  <2>1. /\ lpc[p] \in {"sweep", "poll"}
        /\ UNCHANGED <<lport, lheld, ldesc, opened, session, jobVars, mpc>>
        /\ lpc' = [lpc EXCEPT ![p] = "poll"] \/ lpc' = [lpc EXCEPT ![p] = "ended"]
    BY <1>6 DEF ListenerSweep, ListenerEnds, Sessions
  <2>2. DataInv' /\ Untouched(InUse, NULL)
    BY <1>1, <1>6, SweepStep, NoStep DEF ListenerSweep, ListenerEnds
  <2>3. ThreadTypes'
    BY <1>1, <2>1 DEF ThreadTypes, ListenerPlaces
  <2>4. lpc'[p] \in {"poll", "ended"} /\ lport'[p] \in Ports
    BY <1>1, <2>1 DEF ThreadTypes, ListenersInv
  <2>5. \A q \in Ports \ {p} :
          /\ lpc'[q] = lpc[q] /\ lport'[q] = lport[q]
          /\ lheld'[q] = lheld[q] /\ ldesc'[q] = ldesc[q]
    BY <1>1, <2>1 DEF ThreadTypes
  <2> QED
    BY <2>1, <2>2, <2>3, <2>4, <2>5, ListenerMoves
<1> QED
  BY <1>2, <1>3, <1>4, <1>5, <1>6 DEF ListenerStep

\* The orchestrator comes to the next port.
LEMMA OpenPortInv == ASSUME IInv, OpenPort PROVE IInv'
<1> USE NullFacts
<1>1. DataInv /\ ThreadTypes /\ ListenersInv /\ TransfersInv /\ JobsInv
  BY DEF IInv
<1>2. /\ opened < PortAmount /\ opened' = opened + 1
      /\ \/ lpc' = [lpc EXCEPT ![opened + 1] = "start"]
         \/ lpc' = [lpc EXCEPT ![opened + 1] = "absent"]
      /\ UNCHANGED <<dataVars, lport, lheld, ldesc, session, jobVars, mpc>>
  BY DEF OpenPort, Sessions
<1>3. opened \in Nat /\ opened + 1 \in Ports /\ opened' \in 0..PortAmount
  BY <1>1, <1>2, DataAssumption DEF ThreadTypes, Ports
<1>4. ThreadTypes'
  BY <1>1, <1>2, <1>3 DEF ThreadTypes, ListenerPlaces
<1>5. DataInv' /\ Untouched(InUse, NULL)
  BY <1>1, <1>2, NoStep
<1>6. TransfersInv'
  BY <1>2, <1>5, TransfersKept
<1>7. JobsInv'
  BY <1>1, <1>2, JobsKept
<1>8. \A p \in Ports :
        \/ p = opened + 1 /\ lpc'[p] \in {"start", "absent"}
        \/ p # opened + 1 /\ lpc'[p] = lpc[p]
  BY <1>1, <1>2, <1>3 DEF ThreadTypes
<1>9. \A p \in Ports : lpc'[p] # "none" => p <= opened'
  <2>1. \A p \in Ports : p \in Nat
    BY DEF Ports
  <2> QED
    BY <1>1, <1>2, <1>3, <1>8, <2>1 DEF ListenersInv
<1>10. ListenersInv'
  <2>1. UNCHANGED <<connections, alive, heap, ports, descs>>
    BY <1>2 DEF dataVars
  <2> QED
    BY <1>1, <1>2, <1>8, <1>9, <2>1 DEF ListenersInv, HoldsDesc, Listed
<1> QED
  BY <1>4, <1>5, <1>6, <1>7, <1>10 DEF IInv

\* The control listener accepts a client: its job is the last of the queue.
LEMMA AcceptClientInv ==
  ASSUME IInv, NEW s \in Threads, AcceptClient(s)
  PROVE  IInv'
<1> USE NullFacts
<1>1. DataInv /\ ThreadTypes /\ JobsInv /\ session[s] \in Session
  BY DEF IInv, ThreadTypes
<1>2. /\ cpc = "poll" /\ session[s].pc = "none"
      /\ session' = [session EXCEPT ![s].pc = "queued"]
      /\ job_ids' = Append(job_ids, s)
      /\ excess' = Excess(Len(job_ids'))
      /\ cpc' = IF excess' > 0 THEN "drain" ELSE "poll"
      /\ UNCHANGED <<dataVars, listenerVars, dropped, mpc>>
  BY DEF AcceptClient, processVars
<1>3. [session[s] EXCEPT !.pc = "queued"] \in Session
  BY <1>1 DEF Session, Places
<1>4. /\ session'[s].pc = "queued"
      /\ \A t \in Threads \ {s} : session'[t] = session[t]
      /\ session' \in [Threads -> Session]
  BY <1>1, <1>2, <1>3 DEF ThreadTypes, Session
<1>5. ThreadTypes'
  BY <1>1, <1>2, <1>4 DEF ThreadTypes, listenerVars
<1>6. DataInv' /\ Untouched(InUse, NULL)
  BY <1>1, <1>2, NoStep
<1>7. ListenersInv' /\ TransfersInv'
  BY <1>2, <1>4, <1>6, ListenersKept, TransfersKept
<1>8. PICK n \in Nat : n = Len(job_ids)
  BY <1>1 DEF JobsInv, JobTypes
<1>9. /\ job_ids' \in Seq(Threads) /\ Len(job_ids') = n + 1
      /\ job_ids'[n + 1] = s
      /\ \A i \in 1..n : job_ids'[i] = job_ids[i] /\ job_ids[i] \in Threads
  BY <1>1, <1>2, <1>8 DEF JobsInv, JobTypes
<1>10. n <= FtpMaxQueueSize
  BY <1>1, <1>2, <1>8 DEF JobsInv, QueueBound
<1>11. JobTypes' /\ QueueBound'
  <2>1. excess' \in Nat /\ (excess' > 0 => n + 1 <= FtpMaxQueueSize + excess')
        /\ (excess' = 0 => n + 1 <= FtpMaxQueueSize)
    <3>1. excess' = IF n + 1 > FtpMaxQueueSize THEN (n + 1) - (n + 1) \div 2 ELSE 0
      BY <1>2, <1>9 DEF Excess
    <3> QED
      BY <1>10, <3>1, ServerAssumption
  <2>2. cpc' = "drain" <=> excess' > 0
    BY <1>2
  <2> QED
    BY <1>1, <1>2, <1>9, <1>10, <2>1, <2>2, ServerAssumption DEF JobsInv, JobTypes, QueueBound
<1>12. QueueOnce'
  <2>1. \A i \in 1..n : job_ids[i] # s /\ session[job_ids[i]].pc # "none"
    BY <1>1, <1>2, <1>8 DEF JobsInv, QueueOnce
  <2>2. ASSUME NEW i \in 1..(n + 1) PROVE session'[job_ids'[i]].pc # "none"
    BY <1>4, <1>9, <2>1
  <2>3. ASSUME NEW i \in 1..(n + 1), NEW k \in 1..(n + 1), job_ids'[i] = job_ids'[k]
        PROVE  i = k
    <3>1. CASE i \in 1..n /\ k \in 1..n
      BY <1>1, <1>8, <1>9, <2>3, <3>1 DEF JobsInv, QueueOnce
    <3>2. CASE i = n + 1 \/ k = n + 1
      BY <1>9, <2>1, <2>3, <3>2
    <3> QED
      BY <3>1, <3>2
  <2> QED
    BY <1>9, <2>2, <2>3 DEF QueueOnce
<1>13. ASSUME NEW t \in Threads PROVE Kept(t)'
  <2>1. Kept(t)
    BY <1>1 DEF JobsInv, NoneForgotten
  <2>2. CASE t = s
    BY <1>9, <2>2 DEF Kept
  <2>3. CASE t # s
    BY <1>2, <1>4, <1>8, <1>9, <2>1, <2>3 DEF Kept, SessionOver
  <2> QED
    BY <2>2, <2>3
<1>14. NoneForgotten'
  BY <1>1, <1>2, <1>13 DEF JobsInv, NoneForgotten
<1> QED
  BY <1>5, <1>6, <1>7, <1>11, <1>12, <1>14 DEF IInv, JobsInv

\* The oldest job leaves the queue: it is over or is given up.
LEMMA PopFacts ==
  ASSUME JobsInv, PopAndAwait
  PROVE  /\ job_ids' \in Seq(Threads) /\ Len(job_ids) \in Nat \ {0}
         /\ Len(job_ids') = Len(job_ids) - 1
         /\ QueueOnce'
         /\ \A s \in Threads : Kept(s)'
<1>1. /\ job_ids \in Seq(Threads) /\ job_ids # <<>> /\ job_ids' = Tail(job_ids)
      /\ QueueOnce /\ session' = session
  BY DEF JobsInv, JobTypes, PopAndAwait
<1>2. PICK n \in Nat \ {0} : n = Len(job_ids)
  BY <1>1
<1>3. /\ job_ids' \in Seq(Threads) /\ Len(job_ids') = n - 1
      /\ \A i \in 1..(n - 1) : job_ids'[i] = job_ids[i + 1]
      /\ Head(job_ids) = job_ids[1] /\ job_ids[1] \in Threads
  BY <1>1, <1>2
<1>4. QueueOnce'
  <2>1. ASSUME NEW i \in 1..(n - 1)
        PROVE  i + 1 \in 1..n /\ session'[job_ids'[i]].pc # "none"
    BY <1>1, <1>2, <1>3 DEF QueueOnce
  <2>2. ASSUME NEW i \in 1..(n - 1), NEW k \in 1..(n - 1), job_ids'[i] = job_ids'[k]
        PROVE  i = k
    <3>1. i + 1 \in 1..n /\ k + 1 \in 1..n /\ job_ids[i + 1] = job_ids[k + 1]
      BY <1>3, <2>1, <2>2
    <3>2. i + 1 = k + 1
      BY <1>1, <1>2, <3>1 DEF QueueOnce
    <3> QED
      BY <3>2
  <2> QED
    BY <1>3, <2>1, <2>2 DEF QueueOnce
<1>5. ASSUME NEW s \in Threads PROVE Kept(s)'
  <2>1. Kept(s) /\ dropped \subseteq dropped'
    BY DEF JobsInv, NoneForgotten, PopAndAwait
  <2>2. CASE s = job_ids[1]
    <3>1. SessionOver(s) \/ s \in dropped'
      BY <1>3, <2>2 DEF PopAndAwait
    <3> QED
      BY <1>1, <3>1 DEF Kept, SessionOver
  <2>3. CASE s # job_ids[1]
    <3>1. ASSUME NEW i \in 1..n, job_ids[i] = s
          PROVE  \E k \in 1..(n - 1) : job_ids'[k] = s
      <4>1. i - 1 \in 1..(n - 1) /\ (i - 1) + 1 = i
        BY <2>3, <3>1
      <4>2. job_ids'[i - 1] = job_ids[(i - 1) + 1]
        BY <1>3, <4>1
      <4> QED
        BY <3>1, <4>1, <4>2
    <3> QED
      BY <1>1, <1>2, <1>3, <2>1, <3>1 DEF Kept, SessionOver
  <2> QED
    BY <2>2, <2>3
<1> QED
  BY <1>2, <1>3, <1>4, <1>5

\* The steps that shorten the queue, end the control listener or are the main
\* thread's leave sessions and data alone.
LEMMA QueueStepInv ==
  ASSUME IInv, ControlDrain \/ ControlEnds \/ MainStep
  PROVE  IInv'
<1>1. DataInv /\ ThreadTypes /\ JobsInv
  BY DEF IInv
<1>2. UNCHANGED <<dataVars, session, listenerVars>>
  BY DEF ControlDrain, ControlEnds, MainStep, MainJoin, MainDrain, MainDestroy,
     MainCleanup, PopAndAwait
<1>3. DataInv' /\ Untouched(InUse, NULL)
  BY <1>1, <1>2, NoStep
<1>4. ListenersInv' /\ TransfersInv' /\ ThreadTypes'
  BY <1>1, <1>2, <1>3, ListenersKept, TransfersKept DEF ThreadTypes, listenerVars
<1>5. JobTypes /\ QueueBound /\ QueueOnce /\ NoneForgotten
  BY <1>1 DEF JobsInv
<1>6. CASE ControlDrain
  <2>1. /\ cpc = "drain" /\ PopAndAwait /\ excess' = excess - 1
        /\ cpc' = IF excess' > 0 THEN "drain" ELSE "poll"
        /\ mpc' = mpc
    BY <1>6 DEF ControlDrain
  <2>2. /\ job_ids' \in Seq(Threads) /\ Len(job_ids) \in Nat \ {0}
        /\ Len(job_ids') = Len(job_ids) - 1
        /\ QueueOnce'
        /\ \A s \in Threads : Kept(s)'
    BY <1>1, <2>1, PopFacts
  <2>3. JobTypes' /\ QueueBound'
    BY <1>5, <2>1, <2>2, ServerAssumption DEF JobTypes, QueueBound
  <2>4. NoneForgotten'
    BY <1>5, <2>1, <2>2 DEF NoneForgotten
  <2> QED
    BY <1>3, <1>4, <2>2, <2>3, <2>4 DEF IInv, JobsInv
<1>7. CASE MainDrain
  <2>1. mpc = "drain" /\ PopAndAwait /\ UNCHANGED <<cpc, excess, mpc>>
    BY <1>7 DEF MainDrain
  <2>2. /\ job_ids' \in Seq(Threads) /\ Len(job_ids) \in Nat \ {0}
        /\ Len(job_ids') = Len(job_ids) - 1
        /\ QueueOnce'
        /\ \A s \in Threads : Kept(s)'
    BY <1>1, <2>1, PopFacts
  <2>3. JobTypes' /\ QueueBound'
    BY <1>5, <2>1, <2>2, ServerAssumption DEF JobTypes, QueueBound
  <2>4. NoneForgotten'
    BY <1>5, <2>1, <2>2 DEF NoneForgotten
  <2> QED
    BY <1>3, <1>4, <2>2, <2>3, <2>4 DEF IInv, JobsInv
<1>8. CASE ControlEnds \/ MainJoin \/ MainDestroy \/ MainCleanup
  <2>1. /\ UNCHANGED <<job_ids, excess, dropped>>
        /\ cpc' \in {"ended", cpc} /\ (cpc' # cpc => cpc = "poll")
        /\ mpc' \in {"join", "drain", "destroy", "done"}
        /\ mpc' # "join" => mpc # "join" \/ cpc' = "ended"
        /\ mpc' \in {"destroy", "done"} => mpc \in {"destroy", "done"} \/ job_ids = <<>>
    BY <1>5, <1>8 DEF ControlEnds, MainJoin, MainDestroy, MainCleanup, jobVars, processVars,
       JobTypes
  <2>2. JobTypes' /\ QueueBound'
    BY <1>5, <2>1 DEF JobTypes, QueueBound
  <2>3. QueueOnce'
    BY <1>2, <1>5, <2>1 DEF QueueOnce
  <2>4. NoneForgotten'
    BY <1>2, <1>5, <2>1 DEF NoneForgotten, Kept, SessionOver
  <2> QED
    BY <1>3, <1>4, <2>2, <2>3, <2>4 DEF IInv, JobsInv
<1> QED
  BY <1>6, <1>7, <1>8 DEF MainStep
\* Steps that leave all threads where they are.
LEMMA QuietInv ==
  ASSUME IInv, DataInv', Untouched(InUse, NULL),
         UNCHANGED <<session, listenerVars, jobVars, mpc>>
  PROVE  IInv'
<1>1. ThreadTypes /\ JobsInv
  BY DEF IInv
<1>2. ListenersInv' /\ TransfersInv'
  BY ListenersKept, TransfersKept
<1>3. JobsInv'
  BY <1>1, JobsKept
<1> QED
  BY <1>1, <1>2, <1>3 DEF IInv, ThreadTypes, listenerVars

LEMMA InitInv == Init => IInv
<1> SUFFICES ASSUME Init PROVE IInv
  OBVIOUS
<1> USE NullFacts
<1>1. DataInv
  BY DEF Init, DataInit, DataInv, DataTypes, Allocated, PortsAgree, DescriptorsOwned,
     Listed, PortMetadata
<1>2. Fresh \in Session
  BY DEF Fresh, Session, Places
<1>3. ThreadTypes
  BY <1>2, DataAssumption DEF Init, ThreadTypes, ListenerPlaces
<1>4. ListenersInv
  BY DEF Init, ListenersInv, HoldsDesc
<1>5. TransfersInv
  BY DEF Init, TransfersInv, Fresh
<1>6. JobsInv
  BY ServerAssumption
     DEF Init, JobsInv, JobTypes, QueueBound, QueueOnce, NoneForgotten, Kept,
         SessionOver, Fresh
<1> QED
  BY <1>1, <1>3, <1>4, <1>5, <1>6 DEF IInv

LEMMA NextInv == IInv /\ [Next]_vars => IInv'
<1> SUFFICES ASSUME IInv, [Next]_vars PROVE IInv'
  OBVIOUS
<1>1. DataInv
  BY DEF IInv
<1>2. ASSUME NEW s \in Threads, StartSession(s) \/ ClientLeaves(s) \/ Command(s)
      PROVE  IInv'
  BY <1>2, CommandStep
<1>3. ASSUME NEW s \in Threads, TransferStep(s) PROVE IInv'
  BY <1>3, TransferStepInv
<1>4. ASSUME NEW c \in Conns, GrowOld(c),
             UNCHANGED <<session, listenerVars, jobVars, processVars>>
      PROVE  IInv'
  BY <1>1, <1>4, GrowOldStep, QuietInv DEF processVars
<1>5. CASE OpenPort
  BY <1>5, OpenPortInv
<1>6. ASSUME NEW p \in Ports, ListenerStep(p) \/ Accept(p) \/ ListenerEnds(p)
      PROVE  IInv'
  BY <1>6, ListenerStepInv
<1>7. CASE ControlStep \/ MainStep
  BY <1>7, AcceptClientInv, QueueStepInv DEF ControlStep
<1>8. CASE UNCHANGED vars
  <2>1. UNCHANGED <<dataVars, session, listenerVars, jobVars, mpc>>
    BY <1>8 DEF vars, processVars
  <2> QED
    BY <1>1, <2>1, NoStep, QuietInv
<1> QED
  BY <1>2, <1>3, <1>4, <1>5, <1>6, <1>7, <1>8 DEF Next

-----------------------------------------------------------------------------
(* The data controller (data.c) is well formed and its table of ports      *)
(* agrees with its vector of connections after any interleaving of control *)
(* threads, data listeners and sweeps, for any number of each, up to the   *)
(* first dereference of freed memory.                                      *)
THEOREM ControllerCorrect == Spec => []ControllerInv
<1>1. IInv => ControllerInv
  <2> SUFFICES ASSUME IInv PROVE TypeOK /\ PortsAgree
    BY DEF ControllerInv
  <2>1. DataTypes /\ Allocated /\ PortsAgree /\ ThreadTypes
    BY DEF IInv, DataInv
  <2>2. alive \subseteq Conns
    BY <2>1 DEF DataTypes, Allocated, Listed
  <2>3. \A s \in Threads :
          /\ session[s].account \in {"Empty", "OnlyUser", "OkAnon", "OkUser"}
          /\ session[s].settings \in Identifiers \cup {Automatic}
          /\ session[s].held \in Conns \cup {NULL}
          /\ session[s].dfd \in Descs \cup {NULL}
          /\ session[s].togo \in Nat
    BY <2>1 DEF ThreadTypes, Session
  <2> QED
    BY <2>1, <2>2, <2>3 DEF TypeOK, DataTypes, ThreadTypes
<1> QED
  BY InitInv, NextInv, <1>1, PTL DEF Spec

(* No data connection is forgotten, a connection's descriptor is open and  *)
(* its own, and a transfer uses the descriptor of the connection it holds  *)
(* (data.c), however many clients, listeners and transfers there are.      *)
THEOREM DescriptorsCorrect == Spec => []DescriptorsAreKept
<1>1. IInv => DescriptorsAreKept
  BY DEF IInv, DataInv, Allocated, DescriptorsOwned, TransfersInv, DescriptorsAreKept
<1> QED
  BY InitInv, NextInv, <1>1, PTL DEF Spec

(* Neither the control listener, when it shortens the queue of JobIds, nor *)
(* the main thread forgets a session, and the queue keeps to its limit,    *)
(* for any number of clients, any pool and any limit (server.c).           *)
THEOREM NoSessionForgotten == Spec => []SessionsAreAwaited
<1>1. IInv => SessionsAreAwaited
  BY DEF IInv, JobsInv, JobTypes, QueueBound, QueueOnce, NoneForgotten, Kept,
         SessionsAreAwaited
<1> QED
  BY InitInv, NextInv, <1>1, PTL DEF Spec
=============================================================================
