------------------------------ MODULE FtpServer ------------------------------
(***************************************************************************)
(* The FTP server (src/ftp/server.c) around the data controller: the main  *)
(* thread, the control listener, the data orchestrator with one listener   *)
(* thread per passive port, and the control threads, each of which serves  *)
(* one client's commands one after the other.  A control thread that wants *)
(* a data connection that is not there yet waits for it, asleep or, when   *)
(* the process-wide SIGUSR1 flag is up, spinning.                          *)
(*                                                                         *)
(* The pool is used through what JobPool states of it: a job waits until   *)
(* fewer than PoolSize jobs run, pool_await returns when its job is over   *)
(* or is interrupted by SIGINT, and pool_destroy returns when no job runs. *)
(*                                                                         *)
(* Paths, file contents, listings and the wording of replies are left out: *)
(* a command that touches the file system may find any outcome.  Every     *)
(* reply may fail to be sent, which ends the session.                      *)
(*                                                                         *)
(* What a thread does with a connection that has been freed, or with a     *)
(* descriptor that is NULL, is undefined: the thread takes no such step    *)
(* and stays where it is, while the others may go on.                      *)
(***************************************************************************)
EXTENDS FtpData, Sequences

CONSTANTS
    Commands,        \* the commands each client sends ("invalid": no command)
    FileSizes,       \* sizes of what RETR and LIST send
    SendChunkSize,   \* SEND_CHUNK_SIZE
    PoolSize,        \* worker_threads_amount of the control pool
    FtpMaxQueueSize  \* FTP_MAX_QUEUE_SIZE

ASSUME ServerAssumption ==
    /\ FileSizes \subseteq Nat
    /\ SendChunkSize \in Nat \ {0}
    /\ PoolSize \in Nat \ {0}
    /\ FtpMaxQueueSize \in Nat
    /\ \A s \in Threads : Commands[s] \subseteq STRING

VARIABLES
    session,   \* each control thread: its place, its FTPState and its locals
    lpc,       \* where each data listener is
    lport,     \* the port_index it was given
    lheld,     \* the DataConnection pointer it holds
    ldesc,     \* the descriptor it has accepted
    opened,    \* how many ports the orchestrator has come to
    cpc,       \* where the control listener is
    job_ids,   \* control_job_id_queue; a job is known by its session
    excess,    \* remaining_size - boundary while the control listener shortens it
    dropped,   \* the jobs whose pool_await was interrupted
    usr1,      \* g_usr1_signal_received
    mpc        \* where the main thread is

listenerVars == <<lpc, lport, lheld, ldesc, opened>>
jobVars      == <<cpc, job_ids, excess, dropped>>
processVars  == <<usr1, mpc>>
vars == <<dataVars, session, listenerVars, jobVars, processVars>>

\* alloc_default_state, and a control thread's local variables: the transfer
\* command it works on, the DataConnection pointer and the data descriptor it
\* holds, and what is left to send.
Fresh ==
    [pc |-> "none", account |-> "Empty", settings |-> Automatic, type |-> "Ascii",
     cmd |-> "none", held |-> NULL, dfd |-> NULL, togo |-> 0]

Init ==
    /\ DataInit
    /\ session = [s \in Threads |-> Fresh]
    /\ lpc = [p \in Ports |-> "none"]
    /\ lport = [p \in Ports |-> 0]
    /\ lheld = [p \in Ports |-> NULL]
    /\ ldesc = [p \in Ports |-> NULL]
    /\ opened = 0
    /\ cpc = "poll"
    /\ job_ids = <<>>
    /\ excess = 0
    /\ dropped = {}
    /\ usr1 = FALSE
    /\ mpc = "join"

\* Pointers and descriptors that are still referred to.
InUse == {session[s].held : s \in Threads} \cup {lheld[p] : p \in Ports}
UsedDescs == {session[s].dfd : s \in Threads} \cup {ldesc[p] : p \in Ports}
             \cup {heap[c].descriptor : c \in Listed \cap alive}

-----------------------------------------------------------------------------
(* The commands of a client.                                               *)

\* What parse_single_ftp_command knows without and with an argument.
Argumentless ==
    {"CDUP", "QUIT", "REIN", "PASV", "STOU", "ABOR", "PWD", "LIST", "NLST", "SYST",
     "STAT", "HELP", "NOOP", "FEAT"}
WithText ==
    {"USER", "PASS", "ACCT", "CWD", "SMNT", "RETR", "STOR", "APPE", "RNFR", "RNTO",
     "DELE", "RMD", "MKD", "LIST", "NLST", "SITE", "STAT", "HELP"}
WithCredentials == {"AUTH", "ADAT", "MIC", "CONF", "ENC"}
\* An argument that does not parse makes these two invalid.
WithParsedArgument == {"TYPE", "PORT"}
Known == Argumentless \cup WithText \cup WithCredentials \cup WithParsedArgument
Directory == {"PWD", "CWD", "CDUP"}
Transfers == {"STOR", "RETR", "LIST"}
Handled == Directory \cup Transfers \cup {"USER", "PASS", "TYPE", "PASV", "PORT"}

\* The cleanup at the end of ftp_control_socket_connection_handler.
Closed == [Fresh EXCEPT !.pc = "closed"]

\* SEND_RESPONSE_WITH_ERROR_CHECK: the reply is sent and the thread goes on
\* as `next`, or it cannot be sent and the session ends.
Reply(s, next) ==
    \/ session' = [session EXCEPT ![s] = next]
    \/ session' = [session EXCEPT ![s] = Closed]

Elsewhere == UNCHANGED <<listenerVars, jobVars, processVars>>

Receives(s, c) == session[s].pc = "ready" /\ c \in Commands[s]

SessionOver(s) == session[s].pc \in {"none", "closed"}
Running == {s \in Threads : ~SessionOver(s) /\ session[s].pc # "queued"}

\* A worker of the pool starts the handler: up to its greeting errors, and a
\* greeting that cannot be sent, end it.
StartSession(s) ==
    /\ session[s].pc = "queued"
    /\ Cardinality(Running) < PoolSize
    /\ Reply(s, [Fresh EXCEPT !.pc = "ready"])
    /\ UNCHANGED dataVars
    /\ Elsewhere

\* The client has left: the commands, which now read as NULL, are answered
\* until an answer cannot be sent any more.
ClientLeaves(s) ==
    /\ session[s].pc = "ready"
    /\ session' = [session EXCEPT ![s] = Closed]
    /\ UNCHANGED dataVars
    /\ Elsewhere

\* Commands that are answered and change nothing: FEAT, AUTH, SYST, NOOP, all
\* that have no case of their own (QUIT is one) and what is no command.
AnswerOnly(s) ==
    /\ \E c \in (Known \ Handled) \cup {"invalid"} : Receives(s, c)
    /\ Reply(s, session[s])
    /\ UNCHANGED dataVars
    /\ Elsewhere

\* PWD, CWD and CDUP: refused or done, they change at most the directory.
DirectoryCommand(s) ==
    /\ \E c \in Directory : Receives(s, c)
    /\ Reply(s, session[s])
    /\ UNCHANGED dataVars
    /\ Elsewhere

\* USER: the anonymous user needs no password.
User(s, name) ==
    /\ Receives(s, name)
    /\ Reply(s, [session[s] EXCEPT !.account =
                    IF name = "USER anonymous" THEN "OkAnon" ELSE "OnlyUser"])
    /\ UNCHANGED dataVars
    /\ Elsewhere

\* account_verify.
UserValidity == {"Ok", "NoSuchUser", "WrongPassword", "InternalError"}

\* PASS: every verdict but Ok, and a PASS without USER, leaves no account.
Pass(s, validity) ==
    /\ Receives(s, "PASS")
    /\ Reply(s, [session[s] EXCEPT !.account =
                    CASE @ = "OkAnon" -> "OkAnon"
                      [] @ = "OnlyUser" /\ validity = "Ok" -> "OkUser"
                      [] OTHER -> "Empty"])
    /\ UNCHANGED dataVars
    /\ Elsewhere

\* parse_ftp_command_type_info takes these three.
TypeCodes == {"A", "E", "I"}

\* TYPE I is the only type that is taken; A and E end the session.
Type(s, code) ==
    /\ Receives(s, "TYPE")
    /\ IF code = "I" THEN Reply(s, [session[s] EXCEPT !.type = "Image"])
       ELSE session' = [session EXCEPT ![s] = Closed]
    /\ UNCHANGED dataVars
    /\ Elsewhere

\* PASV: the port is reserved before the reply, the settings change after it.
Pasv(s) ==
    /\ Receives(s, "PASV")
    /\ \E p \in Ports \cup {0} :
          /\ GetAvailablePort(p)
          /\ Reply(s, [session[s] EXCEPT !.settings = IF p = 0 THEN @ ELSE Passive(p)])
    /\ Elsewhere

\* PORT.
Port(s, a) ==
    /\ Receives(s, "PORT")
    /\ Reply(s, [session[s] EXCEPT !.settings = Active(a)])
    /\ UNCHANGED dataVars
    /\ Elsewhere

-----------------------------------------------------------------------------
(* STOR, RETR and LIST.                                                    *)

LoggedIn(s) == session[s].account \in {"OkAnon", "OkUser"}

\* STOR, RETR and LIST want a login and a data connection mode.
TransferAllowed(s) == LoggedIn(s) /\ session[s].settings # Automatic

\* The command is refused: no login, no mode, or a path that will not do.
RefuseTransfer(s) ==
    /\ \E c \in Transfers : Receives(s, c)
    /\ Reply(s, session[s])
    /\ UNCHANGED dataVars
    /\ Elsewhere

At(s, place) == session[s].pc = place
Goto(s, place) == session' = [session EXCEPT ![s].pc = place]

StartTransfer(s, c) ==
    /\ Receives(s, c)
    /\ TransferAllowed(s)
    /\ session' = [session EXCEPT ![s].cmd = c, ![s].pc = "sweep"]
    /\ UNCHANGED dataVars
    /\ Elsewhere

\* The command is over: its pointers are gone with the stack frame.
Finish(s) ==
    Reply(s, [session[s] EXCEPT !.pc = "ready", !.cmd = "none", !.held = NULL,
                                !.dfd = NULL, !.togo = 0])

Sweep(s) ==
    /\ At(s, "sweep")
    /\ Listed \subseteq alive
    /\ ~ClosesNull
    /\ DataConnectionsToClose
    /\ Goto(s, "get")
    /\ Elsewhere

\* The look for the data connection, and where the thread goes with it.
Look(s, res) == GetForControl(session[s].settings, res, InUse, UsedDescs)
After(s, res) ==
    [session[s] EXCEPT !.held = res, !.pc = IF res = NULL THEN "wait" ELSE "take"]

\* The first look; the reply says whether the connection is there.
GetConnection(s) ==
    /\ At(s, "get")
    /\ Listed \subseteq alive
    /\ \E res \in Conns \cup {NULL} : Look(s, res) /\ Reply(s, After(s, res))
    /\ Elsewhere

\* The head of the loop: asleep unless the flag is up, and the flag is only
\* taken down after a sleep.
Wait(s) ==
    /\ At(s, "wait")
    /\ Goto(s, IF usr1 THEN "retry" ELSE "sleep")
    /\ UNCHANGED dataVars
    /\ Elsewhere

\* nanosleep ends with its interval or with the signal; another error is
\* answered.
WakeUp(s) ==
    /\ At(s, "sleep")
    /\ \/ Goto(s, "retry") /\ usr1' = FALSE
       \/ Goto(s, "refuse") /\ UNCHANGED usr1
    /\ UNCHANGED <<dataVars, listenerVars, jobVars, mpc>>

Retry(s) ==
    /\ At(s, "retry")
    /\ Listed \subseteq alive
    /\ \E res \in Conns \cup {NULL} :
          Look(s, res) /\ session' = [session EXCEPT ![s] = After(s, res)]
    /\ Elsewhere

\* Fault: the wait has no end of its own.
WaitForever(s) == FALSE /\ UNCHANGED vars

\* 15 seconds have passed.
WaitTimeout(s) ==
    /\ At(s, "retry")
    /\ Goto(s, "refuse")
    /\ UNCHANGED dataVars
    /\ Elsewhere

\* The reply to a transfer that has no data connection.
Refuse(s) ==
    /\ At(s, "refuse")
    /\ Finish(s)
    /\ UNCHANGED dataVars
    /\ Elsewhere

\* get_data_to_send_for_retr and get_data_to_send_for_list: bytes of the file,
\* lines of the listing.
DataToSend(c) == IF c = "STOR" THEN {0} ELSE FileSizes

\* data_connection_get_descriptor_to_send_to, and what is to be sent.  RETR and
\* LIST test the control connection's descriptor here, not the one they got,
\* and give up when the type is not binary or the data cannot be had.
Take(s) ==
    /\ At(s, "take")
    /\ session[s].held \in alive
    /\ \E d \in Descs \cup {NULL} :
          /\ GetDescriptorToSendTo(session[s].held, d)
          /\ \/ /\ session[s].cmd = "STOR" \/ session[s].type = "Image"
                /\ \E n \in DataToSend(session[s].cmd) :
                      session' = [session EXCEPT ![s].dfd = d, ![s].togo = n,
                                                 ![s].pc = "move"]
             \/ /\ session[s].cmd # "STOR"
                /\ Finish(s)
    /\ Elsewhere

Usable(s) == session[s].dfd # NULL /\ session[s].dfd \in descs

\* STOR reads until the client closes the data connection, stores the file and
\* reports success; it does not close the data connection.
Receive(s) ==
    /\ At(s, "move")
    /\ session[s].cmd = "STOR"
    /\ Usable(s)
    /\ Finish(s)
    /\ UNCHANGED dataVars
    /\ Elsewhere

\* How much goes out at once: one line of a listing, one chunk of a file.
Chunk(c, n) ==
    CASE c = "LIST" -> 1
      [] n < SendChunkSize -> n
      [] OTHER -> SendChunkSize

\* send_data_to_send, once per turn of the loop; an error ends the command
\* with the connection left in state Sending.
Send(s) ==
    /\ At(s, "move")
    /\ session[s].cmd # "STOR"
    /\ \/ /\ session[s].togo > 0
          /\ Usable(s)
          /\ \/ session' = [session EXCEPT ![s].togo = @ - Chunk(session[s].cmd, @)]
             \/ Finish(s)
       \/ /\ session[s].togo = 0
          /\ Goto(s, "close")
    /\ UNCHANGED dataVars
    /\ Elsewhere

Close(s) ==
    /\ At(s, "close")
    /\ session[s].held \in alive
    /\ CanClose(session[s].held) =>
          Listed \subseteq alive /\ heap[session[s].held].descriptor # NULL
    /\ DataConnectionClose(session[s].held)
    /\ Finish(s)
    /\ Elsewhere

-----------------------------------------------------------------------------
(* The data listeners, the orchestrator that starts them, the control      *)
(* listener and the main thread.                                           *)

Sessions == UNCHANGED <<session, jobVars, mpc>>

\* The orchestrator opens the next port and creates its thread; when one of
\* the calls fails the port stays without one and its thread_ref unset.
OpenPort ==
    /\ opened < PortAmount
    /\ opened' = opened + 1
    /\ \/ lpc' = [lpc EXCEPT ![opened + 1] = "start"]
       \/ lpc' = [lpc EXCEPT ![opened + 1] = "absent"]
    /\ UNCHANGED <<dataVars, lport, lheld, ldesc, usr1>>
    /\ Sessions

\* The thread reads its argument, a variable of the orchestrator's loop body,
\* which holds what the turn that is under way has put there.
StartListener(p) ==
    /\ lpc[p] = "start"
    /\ lport' = [lport EXCEPT ![p] = opened]
    /\ SetPortAsAvailable(opened)
    /\ lpc' = [lpc EXCEPT ![p] = "poll"]
    /\ UNCHANGED <<lheld, ldesc, opened, usr1>>
    /\ Sessions

\* poll and accept: a client connects to the port.
Accept(p) ==
    /\ lpc[p] = "poll"
    /\ \E d \in Descs :
          /\ IsNew(d, UsedDescs \cup descs)
          /\ descs' = descs \cup {d}
          /\ ldesc' = [ldesc EXCEPT ![p] = d]
    /\ lpc' = [lpc EXCEPT ![p] = "get"]
    /\ UNCHANGED <<connections, alive, heap, ports, lport, lheld, opened, usr1>>
    /\ Sessions

ListenerGet(p) ==
    /\ lpc[p] = "get"
    /\ Listed \subseteq alive
    /\ \E c \in Conns :
          /\ GetForDataThread(lport[p], c, InUse)
          /\ lheld' = [lheld EXCEPT ![p] = c]
    /\ lpc' = [lpc EXCEPT ![p] = "add"]
    /\ UNCHANGED <<lport, ldesc, opened, usr1>>
    /\ Sessions

\* A descriptor that cannot be added ends the thread, and so does a pthread_kill
\* that fails after the descriptor has been added.
ListenerAdd(p) ==
    /\ lpc[p] = "add"
    /\ lheld[p] \in alive
    /\ AddDescriptor(lheld[p], ldesc[p])
    /\ \/ /\ CanAddDescriptor(lheld[p])
          /\ usr1' = (usr1 \/ SignalsThread(lheld[p]))
          /\ lpc' = [lpc EXCEPT ![p] = "sweep"]
       \/ /\ ~CanAddDescriptor(lheld[p]) \/ SignalsThread(lheld[p])
          /\ UNCHANGED usr1
          /\ lpc' = [lpc EXCEPT ![p] = "ended"]
    /\ lheld' = [lheld EXCEPT ![p] = NULL]
    /\ ldesc' = [ldesc EXCEPT ![p] = NULL]
    /\ UNCHANGED <<lport, opened>>
    /\ Sessions

\* The sweep after a connection, or when poll returns with nothing to accept:
\* another signal than SIGINT has interrupted it, or the socket has an error.
\* A time-out does not come here, the inner loop just polls again.
ListenerSweep(p) ==
    /\ lpc[p] \in {"sweep", "poll"}
    /\ Listed \subseteq alive
    /\ ~ClosesNull
    /\ DataConnectionsToClose
    /\ lpc' = [lpc EXCEPT ![p] = "poll"]
    /\ UNCHANGED <<lport, lheld, ldesc, opened, usr1>>
    /\ Sessions

\* SIGINT, or an accept that fails, ends the thread.
ListenerEnds(p) ==
    /\ lpc[p] = "poll"
    /\ lpc' = [lpc EXCEPT ![p] = "ended"]
    /\ UNCHANGED <<dataVars, lport, lheld, ldesc, opened, usr1>>
    /\ Sessions

\* How many JobIds are awaited when the queue has grown to this size.
Excess(size) == IF size > FtpMaxQueueSize THEN size - size \div 2 ELSE 0

\* The control listener accepts a client, submits its handler and pushes the
\* JobId, then reads the size of the queue.
AcceptClient(s) ==
    /\ cpc = "poll"
    /\ session[s].pc = "none"
    /\ session' = [session EXCEPT ![s].pc = "queued"]
    /\ job_ids' = Append(job_ids, s)
    /\ excess' = Excess(Len(job_ids'))
    /\ cpc' = IF excess' > 0 THEN "drain" ELSE "poll"
    /\ UNCHANGED <<dataVars, listenerVars, dropped, processVars>>

\* The oldest JobId is popped and awaited: pool_await returns when the job is
\* over, or when SIGINT interrupts it before that.
PopAndAwait ==
    /\ job_ids # <<>>
    /\ job_ids' = Tail(job_ids)
    /\ \/ SessionOver(Head(job_ids)) /\ UNCHANGED dropped
       \/ ~SessionOver(Head(job_ids)) /\ dropped' = dropped \cup {Head(job_ids)}
    /\ UNCHANGED <<dataVars, session, listenerVars, usr1>>

\* Fault: the JobIds are popped, not awaited.
ControlDrainPops ==
    /\ cpc = "drain"
    /\ job_ids' = Tail(job_ids)
    /\ excess' = excess - 1
    /\ cpc' = IF excess' > 0 THEN "drain" ELSE "poll"
    /\ UNCHANGED <<dataVars, session, listenerVars, dropped, processVars>>

\* The control listener shortens the queue.
ControlDrain ==
    /\ cpc = "drain"
    /\ PopAndAwait
    /\ excess' = excess - 1
    /\ cpc' = IF excess' > 0 THEN "drain" ELSE "poll"
    /\ UNCHANGED mpc

\* SIGINT, or an accept that fails, ends the control listener.
ControlEnds ==
    /\ cpc = "poll"
    /\ cpc' = "ended"
    /\ UNCHANGED <<dataVars, session, listenerVars, job_ids, excess, dropped, processVars>>

\* start_ftp_server joins the control listener, then the orchestrator, which has
\* joined its listeners by then.  Of its join of a thread that was never created
\* no more is known than that it may return: it may also end the program, or
\* never return, and nothing makes MainJoin happen.
MainJoin ==
    /\ mpc = "join"
    /\ cpc = "ended"
    /\ opened = PortAmount /\ \A p \in Ports : lpc[p] \in {"ended", "absent"}
    /\ mpc' = "drain"
    /\ UNCHANGED <<dataVars, session, listenerVars, jobVars, usr1>>

MainDrain ==
    /\ mpc = "drain"
    /\ PopAndAwait
    /\ UNCHANGED <<cpc, excess, mpc>>

\* Nothing is left in the queue: pool_destroy is called.
MainDestroy ==
    /\ mpc = "drain"
    /\ job_ids = <<>>
    /\ mpc' = "destroy"
    /\ UNCHANGED <<dataVars, session, listenerVars, jobVars, usr1>>

\* pool_destroy returns and everything is released.
MainCleanup ==
    /\ mpc = "destroy"
    /\ Running = {}
    /\ mpc' = "done"
    /\ UNCHANGED <<dataVars, session, listenerVars, jobVars, usr1>>

ControlStep == (\E s \in Threads : AcceptClient(s)) \/ ControlDrain \/ ControlEnds
MainStep == MainJoin \/ MainDrain \/ MainDestroy \/ MainCleanup

-----------------------------------------------------------------------------
(* What is undefined.                                                      *)

\* The connections a control thread's next operation dereferences.
Touched(s) ==
    CASE session[s].pc \in {"sweep", "get", "retry"} -> Listed
      [] session[s].pc = "take" -> {session[s].held}
      [] session[s].pc = "close" -> {session[s].held} \cup
             IF session[s].held \in alive /\ CanClose(session[s].held) THEN Listed ELSE {}
      [] OTHER -> {}

ListenerTouched(p) ==
    CASE lpc[p] \in {"get", "sweep", "poll"} -> Listed
      [] lpc[p] = "add" -> {lheld[p]}
      [] OTHER -> {}

\* Its next step reads from or writes to the data connection.
Moves(s) == session[s].pc = "move" /\ (session[s].cmd = "STOR" \/ session[s].togo > 0)

UsesFreed ==
    \/ \E s \in Threads : ~(Touched(s) \subseteq alive)
    \/ \E p \in Ports : ~(ListenerTouched(p) \subseteq alive)
    \/ \E s \in Threads : /\ Moves(s)
                           /\ session[s].dfd # NULL
                           /\ session[s].dfd \notin descs

-----------------------------------------------------------------------------
(* The specification.                                                      *)

Command(s) ==
    \/ AnswerOnly(s) \/ DirectoryCommand(s) \/ RefuseTransfer(s)
    \/ \E name \in {"USER", "USER anonymous"} : User(s, name)
    \/ \E validity \in UserValidity : Pass(s, validity)
    \/ \E code \in TypeCodes : Type(s, code)
    \/ Pasv(s)
    \/ \E a \in Addrs : Port(s, a)
    \/ \E c \in Transfers : StartTransfer(s, c)

\* The wait for the data connection, in which the thread depends on nobody.
WaitStep(s) == Wait(s) \/ WakeUp(s) \/ Retry(s) \/ WaitTimeout(s)

TransferStep(s) ==
    \/ Sweep(s) \/ GetConnection(s) \/ WaitStep(s) \/ Refuse(s)
    \/ Take(s) \/ Receive(s) \/ Send(s) \/ Close(s)

ListenerStep(p) ==
    \/ StartListener(p) \/ ListenerGet(p) \/ ListenerAdd(p) \/ ListenerSweep(p)

Next ==
    \/ \E s \in Threads : StartSession(s) \/ ClientLeaves(s) \/ Command(s)
    \/ \E s \in Threads : TransferStep(s)
    \/ \E c \in Conns : /\ GrowOld(c)
                         /\ UNCHANGED <<session, listenerVars, jobVars, processVars>>
    \/ OpenPort
    \/ \E p \in Ports : ListenerStep(p) \/ Accept(p) \/ ListenerEnds(p)
    \/ ControlStep
    \/ MainStep

\* A control thread keeps running while it waits for a data connection; the
\* clock, which decides whether a turn of the wait is the last one, gets past
\* 15 seconds however often the thread turns.  Nothing is assumed of the steps
\* in which a thread reads from its client or writes to it.
Fairness ==
    \A s \in Threads :
        /\ WF_vars(WaitStep(s))
        /\ SF_vars(WaitTimeout(s))

Spec == Init /\ [][Next]_vars /\ Fairness

-----------------------------------------------------------------------------
(* Properties.                                                             *)

\* Every variable keeps to its type; what is left to send never drops below 0.
TypeOK ==
    /\ connections \subseteq Conns
    /\ alive \subseteq Conns
    /\ \A c \in Conns : heap[c] = NULL \/ heap[c] \in DataConnection
    /\ ports \in [Ports -> PortMetadata]
    /\ descs \subseteq Descs
    /\ \A s \in Threads :
          /\ session[s].account \in {"Empty", "OnlyUser", "OkAnon", "OkUser"}
          /\ session[s].settings \in Identifiers \cup {Automatic}
          /\ session[s].held \in Conns \cup {NULL}
          /\ session[s].dfd \in Descs \cup {NULL}
          /\ session[s].togo \in Nat
    /\ lport \in [Ports -> Ports \cup {0}]
    /\ lheld \in [Ports -> Conns \cup {NULL}]

\* The table of ports and the vector of connections (data.c) agree after any
\* interleaving of listeners, control threads and sweeps: there is one
\* connection per identifier, a port points at nothing but a listed passive
\* connection of its own, and a connection a client has reached is the one its
\* port points at, so that closing it is sure to give the port back.
PortsAgree ==
    /\ \A c, e \in Listed : heap[c].identifier = heap[e].identifier => c = e
    /\ \A p \in Ports :
          ports[p].associated # NULL =>
              /\ ports[p].associated \in Listed
              /\ heap[ports[p].associated].identifier = Passive(p)
    /\ \A c \in Listed, p \in Ports :
          heap[c].identifier = Passive(p) /\ heap[c].state \in {"HasDescriptor", "HasBoth"}
              => ports[p].associated = c

\* The controller's state is well formed and the ports agree with the
\* connections, whoever holds which of them.
ControllerInv == TypeOK /\ PortsAgree

\* No connection is forgotten and no descriptor is closed too early (data.c):
\* what is allocated is listed, a listed connection's descriptor is open and
\* belongs to no other, and a transfer that is under way uses the descriptor
\* of the connection it holds.
DescriptorsAreKept ==
    /\ alive \subseteq Listed
    /\ \A c \in Listed : heap[c].descriptor # NULL =>
          /\ heap[c].descriptor \in descs
          /\ \A e \in Listed : heap[e].descriptor = heap[c].descriptor => c = e
    /\ \A s \in Threads :
          session[s].pc = "move" /\ session[s].dfd # NULL /\ session[s].held \in alive
              => heap[session[s].held].descriptor = session[s].dfd

\* No session is forgotten (server.c): the queue of JobIds holds each job once
\* and never more than one above FTP_MAX_QUEUE_SIZE, and when the main thread
\* has come to pool_destroy every session that was accepted is over, unless a
\* SIGINT has interrupted the pool_await of its JobId.
SessionsAreAwaited ==
    /\ Len(job_ids) <= FtpMaxQueueSize + 1
    /\ \A i, k \in 1..Len(job_ids) : job_ids[i] = job_ids[k] => i = k
    /\ mpc \in {"destroy", "done"} =>
          \A s \in Threads : SessionOver(s) \/ s \in dropped

\* The wait of STOR, RETR and LIST for their data connection ends, by the
\* connection or by its time-out, whatever the other threads do to the SIGUSR1
\* flag and to the vector, unless the thread itself comes to look at a
\* connection that has been freed.
WaitEnds ==
    \A s \in Threads :
        session[s].pc \in {"wait", "sleep", "retry"}
            ~> \/ session[s].pc \notin {"wait", "sleep", "retry"}
               \/ ~(Touched(s) \subseteq alive)

\* data.h calls the operations on the data controller "thread save": whatever
\* the threads do, none comes to dereference a connection that has been freed.
NoUseAfterFree == ~UsesFreed
=============================================================================
