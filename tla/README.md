# Verification of the simple HTTP, WebSocket and FTP server

TLA+ models of the concurrent and protocol parts of the server, the TLC
configurations that check them on small instances, and TLAPS proofs of the
properties that hold for every size. Paths are relative to the repository's
`src/` directory (`http/server.c` is `src/http/server.c` of the repository).
`PROJECT.json` has the machine-readable side: which lines every definition
models, the runs, the faults that each property detects, the findings, the
hazards and the theorems.

To repeat the work, inside this directory:

    tlc -workers 2 -config MCThreadPool.cfg MCThreadPool
    tlapm HttpServerProofs.tla

## 1. The system and its parts

The program is one process that runs either an HTTP server or an FTP server.

| Part | State it keeps | Operations | Who touches it |
|---|---|---|---|
| Thread pool (`utils/thread_pool.c`) | job queue, counting semaphore `jobs_available`, a status semaphore per job | `pool_create`, `pool_submit`, `pool_await`, `pool_destroy`, worker loop | listener and main thread submit and await, workers run |
| Synchronised queue (`utils/tqueue.c`, `generic/sem.c`) | linked list, size, one semaphore | push, pop, is_empty | every thread of the pool, listener and main thread |
| HTTP server life cycle (`http/server.c`, `generic/signal_fd.c`) | queue of JobIds, signal flag, cancellation of the listener, contexts, routes | start, listen, handle, shut down | main thread, listener, workers, signal handler |
| HTTP/1 connection (`http/server.c`, `http/parser.c`, `http/send.c`) | reader, parsed request, length type | parse line, fields and body, answer, hand over, clean up | a worker |
| HTTP/2 connection (`http/v2.c`) | settings, streams, last stream id, HPACK tables | preface, h2c upgrade, every frame type, responses | a worker |
| HPACK (`http/hpack.c`, `http/dynamic_hpack_table.c`, `http/hpack_huffman.c`) | one dynamic table per direction | decode, encode, insert, evict, resize | the HTTP/2 connection |
| Routes and authentication (`http/routes.c`, `generic/authentication.c`) | constant after start | select a route, check credentials, execute | a worker |
| Folders, URIs, JSON, compression | none | read, format | a worker |
| WebSocket handshake (`ws/ws.c`, `ws/extension.c`) | none | check the request, negotiate extensions | a worker |
| WebSocket connection (`ws/thread_manager.c`, `ws/extension.c`, `ws/handler.c`) | current message, compression state | read, reassemble, answer, echo, close | its own detached thread |
| WebSocket thread manager (`ws/thread_manager.c`) | list of connections, mutex | add, remove, remove all, free | workers, listener threads, main thread |
| FTP control session (`ftp/server.c`, `ftp/command.c`, `ftp/state.c`, `ftp/account.c`) | account, directory, data mode | one handler per command | a worker |
| FTP data controller (`ftp/data.c`) | data connections, passive ports, mutex | reserve a port, add, retrieve, close, sweep | workers, one thread per passive port |
| Buffered reader (`utils/buffered_reader.c`) | buffer, cursor, state of the stream | read an amount, to a delimiter, to the end | whoever owns the connection |
| Sockets and TLS (`generic/secure.c`) | descriptor | read, write, close | whoever owns the connection |
| Log, clock, string builder, buffers, command line | log mutex | | everybody |

**How they interact.** The main thread starts a pool and a listener. The
listener accepts and submits one job per connection and keeps the JobIds in a
`tqueue`; when it grows beyond a bound the listener awaits the oldest ones. A
handler reads requests until the connection ends. It may hand the connection to
a WebSocket thread through the manager, or cancel the listener (the shutdown
route). The main thread joins the listener, awaits the JobIds left over,
destroys the pool, drops the WebSocket connections and frees everything. SIGINT
sets a flag in a handler that may run on any thread. The FTP server has the same
shape, with a second family of threads that accept data connections and meet the
control threads in the data controller.

**What is hard.** Cancellation at points that do not look like cancellation
points; signals that interrupt `sem_wait` of the wrong thread; the lifetime of
job descriptors, connections and contexts that are shared by threads without a
common owner; detached threads when the server ends; reassembly of interleaved
frames; header compression whose state depends on the order of decoding; frames
after a stream has ended; peers that leave in the middle of anything; waits by
signal with a time-out (FTP). The list with its lines is `hazards` in
`PROJECT.json`; a hazard without a property says why.

**What makes each part correct.** The pool runs every job exactly once and
finishes all of them before `pool_destroy` returns, and never uses a freed
descriptor, whichever waits are interrupted by signals. The queue is FIFO with an exact size. The server awaits everything
it submitted, unless it is made to give up a JobId, frees nothing that is in use,
and ends when it is told to. A
WebSocket or HTTP/2 connection hands over exactly what the peer's stream says,
answers what has to be answered, and sends a stream that a peer can read. The
manager's list is the set of live connections and nobody touches a freed one.
No HPACK index stands for another field on one side than on the other. The data controller gives a port and a
data connection to one transfer at a time and gets both back.

## 2. The modules

| Module | Models | Uses |
|---|---|---|
| `JobPool` | what the pool's header promises: a job is queued, runs once, is done, is collected; at most one job per worker; the pool closes only when no job waits or runs | |
| `ThreadPool` | `utils/thread_pool.c` | refines `JobPool` (`INSTANCE` with a refinement mapping) |
| `TQueue` | `utils/tqueue.c` at the granularity of its semaphore | |
| `TQueueProofs` | proofs | extends `TQueue` |
| `HttpServer` | life cycle of `http/server.c` | extends `ThreadPool`: threads and pool composed |
| `HttpServerProofs` | proofs about the pool (types, counting, the life of a descriptor, the refinement of `JobPool`) and about the server | extends `HttpServer` |
| `Selection` | parts of a sequence, as recursive functions of the place | |
| `WsConnection` | one WebSocket listener thread | extends `Selection` |
| `WsConnectionProofs` | proofs | extends `WsConnection` |
| `WsManager` | the list of WebSocket connections and its threads | |
| `WsManagerProofs` | proofs | extends `WsManager` |
| `Http2Connection` | one HTTP/2 connection | extends `Selection` |
| `Http2ConnectionProofs` | proofs | extends `Http2Connection` |
| `HpackList` | what a dynamic table promises: a list of fields bounded by its size | |
| `HpackTable` | the ring of `http/dynamic_hpack_table.c` and its accounting, as operators on a record | |
| `HpackHuffman` | `http/hpack_huffman.c`, as operators | |
| `Hpack` | compressor and decompressor of `http/hpack.c` | extends `HpackTable`, `HpackHuffman`; refines `HpackList` |
| `HpackProofs` | proofs | extends `Hpack` |
| `BufferedReader` | `utils/buffered_reader.c`, as operators on a record | |
| `Http1Request` | request line, fields, routes, authorisation, WebSocket handshake, as operators | |
| `Http1Connection` | `http_socket_connection_handler` and the parser it drives | extends `BufferedReader`, `Http1Request` |
| `Http1ConnectionProofs` | proofs | extends `Http1Connection` |
| `FtpData` | the data controller, `ftp/data.c` | |
| `FtpServer` | the threads of `ftp/server.c` and every command | extends `FtpData`: threads and controller composed |
| `FtpServerProofs` | proofs | extends `FtpServer` |
| `MC*` | instances for TLC, one per module above | |

Definitions whose comment starts with *Fault:* are not part of the model: each is
a plausible slip in the definition after it, and the property named in
`PROJECT.json` under `mutants` fails when it takes that definition's place.

**ThreadPool.** `queue`, `jobs_available`, `status` and `mem` are the job queue,
the two kinds of semaphores and the memory of descriptors; `wpc`, `cpc` and
`phase` say where workers, callers and the pool's owner are. There is an action
for every step between two operations on shared state: push and post in
`int_pool_submit` (two steps: a worker may run between them), wait, check, pop,
run, store-and-post in `thread_pool_worker_thread_function`, wait and free in
`pool_await`, and the loops of `pool_create` and `pool_destroy`. Every `sem_wait`
may be interrupted, since the handlers are installed without `SA_RESTART`: a worker
in front of `jobs_available` ends with an error (`WorkerInterrupted`), a worker in
front of the queue's semaphore pops NULL and dereferences it (place `"crash"`), and
`pool_await` returns an error with the job unfinished and its descriptor not freed
(`AwaitInterrupted`; `dropped` remembers it). The same holds for the awaits of
`pool_destroy`, which goes on to its next shutdown job, or to the joins. After a
crash the other threads of the model go on, which is more than a process does.
A job's function is opaque: it returns. A push that fails in `int_pool_submit` is
left out. The queue operations are single steps here because `TQueue` shows that
the queue's own semaphore makes them so.

**TQueue.** Push, pop and `is_empty` as wait, read list and size into locals,
write the list, write the size, post. An interrupted wait makes the call return
without having done anything. `pushed` and `popped` are histories, and a
thread pops only with a permit, as the pool's workers (from `jobs_available`) and
the servers (from the size) do.

**HttpServer.** The threads' steps are conjoined with ThreadPool's actions:
`pool_submit` of the listener is ThreadPool's `Submit`, and so on. Deferred
cancellation is a pending flag that ends the listener at the next cancellation
point (`poll`, `accept`, `sem_wait` inside the queue and `pool_await`). SIGINT is
delivered to any thread: to the listener in `poll`, to the listener or the main
thread in `pool_await`, who then drop the JobId, to an idle worker in `sem_wait`,
or to a thread where it interrupts nothing. The waits of `job_id_queue` itself are
never interrupted because its two users are never in it at the same time. A
handler ends with the connection closed, handed to a WebSocket thread, or, when it
cannot even set up its reader, forgotten (`Handled` has all three).

**WsConnection.** A frame is opcode, fin, rsv and unmasked payload. `Receive`
is one turn of the listener's loop for a frame, with the checks in the code's
order; `HandleMessage` is the callback with the echo and its fragmentation.
Compression is a marker byte that inflating removes, UTF-8 is exact for one- and
two-byte characters. An echo longer than the fragment size is cut; that the
compressed bit then is on the wrong frames is part of the model. The properties describe the peer's stream as a whole
(`MessageOpen`, `CodeFor`, `Messages`), not with the listener's variables, so the
state machine is compared with an independent reading of the stream.

**WsManager.** Lock, link, create, detach, unlock of an add; lock, find, unlink,
unlock of a remove; the main thread's walk at the end of the server. `hasty` is
a history variable: a listener thread still ran when that walk began. An add
whose `pthread_create` fails returns with the mutex locked, as in the code.

**Http2Connection.** Preface or h2c upgrade, every frame type with its checks in
the code's order, the answer to a failing preface (GOAWAY after an upgrade or
ALPN, the HTTP/1 error page else), stream states, stream and connection errors, assembly of
header blocks and bodies, acknowledgements, GOAWAY, and the frames of responses.
A header block is a sequence of fields; `decoded` records in which order blocks
reach the decompressor. A frame that is sent has a length field of its own, cut to
24 bits as in `Http2RawHeader`, and `http2_send_raw_frame` refuses a frame whose
field is not the size of its data (`http/v2.c:144`); the server's own SETTINGS
announces the number of its entries as its length (`http/v2.c:295`). A handler that
hands over, cancels or adds a thread ends the connection. Sizes are scaled: what
matters is their order and the distance of one from each limit.

**Hpack.** Two dynamic tables, `enc` and `dec`, and the header block under way.
The compressor writes a block field by field, octet by octet, in the
representation that its options call for; the decompressor reads it one
representation per step, so that its table changes where the code's does. A
peer may also change its table size in a block, send literals without indexing,
which this compressor never does, or octets that are no representation. The
ring keeps its slots, its start and its capacity, and grows and shrinks by the
code's loops, entry by entry. `Announce` is a SETTINGS frame that arrives between any
two blocks: `http2_apply_settings_frame` gives the announced size to the
*decompressor* (`http/v2.c:1788`), and neither compressor changes. `resized` is a
history: whether a size was announced, and whether one was below the compressor's.
The release build is modelled;
`RingIsClean` is what the fortified one asserts.

**Http1Connection.** What a client sends is a sequence of symbols (a request
line, a header field, CR, LF, one byte of a body). `Receive` delivers any piece
of what is due, `ScanSymbol` is one round of the search for the line end, and
the other actions are what the handler does between two reads: it fails to set up
(`StartFails`, which leaves the descriptor to nobody), parses a
line, decides on the body, answers an error, selects and executes a route,
upgrades, hands over, cleans up. A client may half close after any symbol or
reset. After a hand-over the connection belongs to `Http2Connection` or to
`WsManager`, and the model ends.

**FtpServer.** `session[s]` is a control thread with its `FTPState` and its
locals, `lpc`, `lport`, `lheld` and `ldesc` are the data listeners, one per
passive port, `cpc` is the control listener and `mpc` the main thread. The pool is
used through what `JobPool` promises: a session waits until a worker is free,
`pool_await` returns when its session is over or SIGINT interrupts it (`dropped`).
`job_ids` is `control_job_id_queue`, which the control listener shortens to half
when it has grown past `FTP_MAX_QUEUE_SIZE` and the main thread empties. A session
that is still queued when all workers have gone stays queued. Each operation of
the data controller holds the mutex from beginning to end and is one step of
`FtpData`, but for the loop that closes the swept descriptors behind it, which is
part of the same step and commutes with what other threads do meanwhile. Pointers
to connections live on in the locals of the threads between two operations, and
`alive` says which of them still may be dereferenced. The controller's vector is
the set of the pointers in it: its operations look for a pointer or for a
port, and nothing depends on the order. A port whose socket or thread cannot be
had stays without a listener, and the orchestrator joins it all the same. STOR,
RETR and LIST are
sweep, look, wait (asleep, or spinning when `g_usr1_signal_received` is up),
take, move, close. A command that touches the file system may have any outcome
that the code distinguishes, and any reply may fail. Time is two
nondeterministic facts: a connection has grown old, a wait has lasted long
enough.

What a thread does with a freed connection or a NULL descriptor (`FtpServer`), or
with a NULL context or reader (`Http1Connection`), is undefined. The thread takes no
such step and stays where it is; in `FtpServer` the others may go on.

## 3. What is checked

### Runs that pass

| Run | Instance | Shows |
|---|---|---|
| `pool` | 2 workers, a caller and the owner, 2 jobs, up to 4 signals at any wait | no worker finds the queue empty, no freed descriptor is used, jobs run exactly once and all before the pool is released unless signals ended every worker, the pool refines `JobPool`; jobs run, `pool_await` and `pool_destroy` return unless a signal has cost a worker |
| `queue` | 3 threads, 3 values, any wait interrupted | FIFO order, exact size, no pop of an empty queue (`QueueInv`) |
| `http` | 2 workers, 2 connections, queue bound 1, 2 SIGINTs anywhere, a failing `accept`, the shutdown route | JobIds are live and unique and their queue is bounded (`JobIdQueueInv`); contexts and routes outlive handlers, and every job is awaited but those whose `pool_await` was interrupted, unless the listener was cancelled (`OrderlyEnd`); a shutdown request stops the listener and a stopped listener ends the server; accepted connections get a handler that runs to its end |
| `ws_frames` | all sequences of 3 frames out of some 70 kinds; automatic fragmentation, deflate, or both | messages are reassembled, closing happens when and how it has to and the close frame is last, pings are answered, the echo is readable up to the first compressed message that has to be cut, a peer that leaves ends the thread |
| `ws_manager` | 3 connections, failing `pthread_create` | nothing freed is used unless the server is ended while listeners run, the list is exact, everything is released, add and remove return |
| `http2` | 5 frames on 2 streams, preface and upgrade, 3 kinds of responses | requests are whole and served independently of other streams, GOAWAY covers what was served, SETTINGS and PING are acknowledged, responses are whole and fit the peer's settings but for a frame of 2^24 bytes, which is refused, a peer that leaves ends the handler |
| `hpack` | any number of blocks of 1 field and a size update, 5 fields, 3 sets of options, tables of 35 and 175 bytes, sizes announced between any two blocks | what is read is what was written, a well-formed block is refused in three cases only, no index stands for two fields, the rings are clean, and from outside they are the bounded list `HpackList` |
| `http1` | some 830 requests against 6 routes and 2 providers, in pieces of every size | a request that is handled is the one that was sent (but for the length of a body with both a declared length and `Connection: close`), it is answered once, by the first route that fits and with credentials some provider accepts, and a client that leaves ends the handler |
| `ftp` | 2 clients with 4 and 6 commands, 1 passive port, 2 connections, 2 descriptors, a queue of JobIds with limit 1, SIGINT at any time | ports and connections agree, descriptors are neither forgotten nor closed early, no session is forgotten other than by an interrupted `pool_await`, every wait for a data connection ends |

`QueueInv`, `JobIdQueueInv`, `OrderlyEnd`, `MessagesInv`, `RequestsInv` and
`ControllerInv` are conjunctions of a type invariant and of the named properties
in front of them in their modules.

### Disagreements between the code and what it says of itself

Each configuration checks one sentence of a comment or of the code against what
the code does, and TLC finds a counterexample. The first three are runs of
`PROJECT.json`, and `findings` quotes the sentence.

| Run | What the counterexample shows |
|---|---|
| `http_cancelled_listener` | `sem_wait` is a cancellation point: a cancelled listener can lose a JobId between `pool_submit` and the push |
| `http_sigint` | a SIGINT handled by the main thread is noticed only when the next connection arrives |
| `ftp_sweep` | the sweep frees the data connections it keeps, and the next operation of any thread dereferences one |

The others are kept as configurations beside their components, to be run by hand
(`tlc -config MCWsShutdown.cfg MCWsManager`), each ending with a violation. The module
of a configuration is the `MC` module of its component. One more configuration,
`MCHpackRing.cfg`, passes: longer tables with fewer fields (see the bounds).

| Configuration, property | The code says | The counterexample shows |
|---|---|---|
| `MCThreadPoolSignal.cfg`, `EachThreadGetsShutdownJob` | `utils/thread_pool.c:303`: "each thread receives the shutdown job" | a signal handler that runs on an idle worker makes its `sem_wait` fail; the worker ends, and `pool_destroy` waits for ever for a shutdown job nobody takes |
| `MCWsDeflate.cfg`, `CutEchoIsReadable` | `ws/extension.c:644` refuses a CONTINUATION with the compressed bit: "this is an extension error" | with compression and fragmentation the server sends that bit on every fragment but the first (`if(start)`, `ws/thread_manager.c:427`), and a compressed message of exactly one fragment without it |
| `MCWsShutdown.cfg`, `NoUseAfterFree` | `http/server.c:413`: "all jobs are finished so shutdown gracefully" | ending the server frees a WebSocket connection while its detached thread uses it |
| `MCHttp2Order.cfg`, `DecodedInOrder` | `http/v2.c:3074`: "otherwise do it later (e.g. when the headers end)" | header blocks are decoded when their stream ends, so in another order than they were compressed |
| `MCHttp2FrameSize.cfg`, `ResponsesGetThrough` | `http/v2.c:1011`: the largest frame size is "2^24-1 or 16,777,215" | a SETTINGS frame may set 2^24 (`http/v2.c:1088`); a body of that size then makes a frame whose length field is 0, which `http2_send_raw_frame` refuses: the peer gets the headers and no body |
| `MCHpackLiteral.cfg`, `LiteralMayGoToTheEnd` | `http/hpack.c:350`: "it is okay if (*pos) + length == size here" | an empty literal at the end of a block, which the compressor writes, is refused |
| `MCHttp1Body.cfg`, `DeclaredBodyIsRead` | `http/parser.c:653`: "the body length is determined as given by this rfc entry" | `Connection: close` after `Content-Length` takes the body away in HTTP/1.1; whether the answer then is 411 depends on how the request was cut into segments |

### Bounds, and why they are enough

- *Pool.* Two workers make the check/pop window contended, two jobs and two
  shutdown jobs make a queue longer than the number of workers, four signals can
  hit both workers and both awaits. The proofs remove the bounds for everything
  but liveness.
- *Server.* Queue bound 1 with two connections makes the listener shorten the
  queue, and leaves JobIds for the main thread; two signals are one that is lost
  on a thread and one that ends something.
- *Queue.* Three threads are a producer, a consumer and an observer at once;
  three values tell reordering from loss.
- *WebSocket.* Three frames are a start, something between, and an end. The
  lengths 15 to 33 lie around one and two fragments of the minimum size, also for
  compressed messages, 125 and
  126 around the limit of a control frame.
- *HTTP/2.* After the preface, four frames begin a request, do anything, and go
  on with a request twice. This is the shortest stream in which an error on one
  stream, or a frame after its end, falls between the parts of another request.
  `Frames[n]` says what the nth frame may be, so that the sequence stays small
  where only one kind of frame is interesting.

- *HPACK.* Entries count 34 or 35 bytes, so 35 bytes hold one entry and 175 five:
  the ring, which starts with 2 slots here, grows three times, wraps, evicts and
  shrinks. The number of blocks is not bounded. The five fields are one of the
  static table, one whose key is there, one that is not, one without a value, and
  one whose value fills the memory of the Huffman decoder; their codes have 5, 7
  and 10 bits. A ring that shrinks with two entries or more, whose moves can
  overlap, takes seven entries: `MCHpackRing.cfg` has them (two fields, 242 bytes,
  3 slots, sizes 0, 70 and 242), and passes in half the time. Integers from 2^28 on,
  whose shift is undefined at `http/hpack.c:62`, are left out.
- *HTTP/1.* A chunk of the reader is 4 symbols, so that every request takes
  several reads and ends inside one. Requests have at most two fields about the
  body, in every order, and bodies of one byte less, as many, or one more than
  declared. A line with a CR of its own, which the search for the line end
  treats specially, is modelled and not in the instance.
- *FTP.* Two clients are one who interferes and one who is interfered with, on the
  passive port and with an active connection, and one more than the limit of the
  queue of JobIds. With two ports the state space no longer
  fits, so the race of the orchestrator's argument (`ftp/server.c:1815`), which
  `StartListener` has, does not occur in the run. A file of 3 units goes out in
  chunks of 2 and 1.

Symmetry is used for `queue` only: the other passing runs check liveness.

### Fairness

Weak fairness, of threads of this process only: the operating system schedules
every runnable thread, and a `sem_wait` or mutex lock that could return does so
eventually. Weak fairness of a whole thread's step suffices: a disabled step of a
thread is one that blocks. A job's function returns (in `HttpServer`: a handler
returns), which is an assumption on the peers and on the time-outs of the
sockets. Nobody is obliged to connect, to send, to leave, to signal or to ask
for the shutdown, except that a read from a peer that is gone returns. Where a
thread may have ended with a semaphore or mutex in its hands (`WorkerLost`,
`Jammed`) the liveness properties say so, and the runs allow the system to stop.
In `FtpServer` only the wait for a data connection is fair (`WaitStep`): it
depends on no client. Nothing is assumed of the steps that read from a client or
write to it, which have no time-out (STOR reads until the client closes). The one
strong fairness is that of the time-out of this wait: it may turn any number of
times, and each turn looks at the clock once, which gets past 15 seconds whatever
the flag does. In `Http1Connection` a client that
stays and sends nothing is allowed to keep its worker for ever, because the
reads of the code have no time-out.

## 4. What is proved

All proofs are checked to the last leaf, for every value of the constants that
satisfies the named assumptions of the modules. Each rests on an inductive
invariant whose parts are named; the parts were checked by TLC on the instance of
the run before they were proved (but for `InStep` of Hpack, whose path of any
length is beyond TLC).

**ThreadPool** (`PoolAssumption`: at least one worker, finitely many callers,
descriptors of jobs and of shutdown jobs are distinct).

- `TypeCorrect`: `Spec => []TypeOK`. `TypeOK` is not inductive: that the
  worker-array index of `pool_create` stays in range, and that only the owner in
  `pool_destroy` handles shutdown descriptors, needs `CallInv`.
- `QueueNeverEmpty`: `Spec => []NeverEmptyAfterWait`. A worker tests the queue and
  pops in two critical sections, and other workers run between, so the reason
  must be a count: `Balance` says that the length of the queue is the value of
  `jobs_available`, plus the callers between push and post, plus the workers
  between wait and pop, a worker that crashed there included. Each step moves a
  ticket together with its descriptor.
- `DescriptorsOutliveUse` (`NoUseAfterFree`) and `JobsRunExactlyOnce`
  (`ExactlyOnce`). `OwnInv` follows a descriptor from the push
  to the free: it is in the queue once, or in the hands of one worker, or its
  status is posted, or its caller is about to free it, and `ran` says how far its
  job is. That `pool_destroy` releases nothing before every job has run cannot rest
  on its awaits, which signals may cut short. It rests on the order of the queue:
  there is no shutdown job before `pool_destroy` (`RoundInv`), no user job is
  behind a shutdown job, and once one of those was taken only such jobs are queued
  (`FifoInv`), a worker leaves only with a shutdown job (`LeftInv`), and all workers
  are joined (`JoinInv`). So when the pool is released and one worker has left in
  the regular way, the user jobs are all taken and finished. The exception in
  `ExactlyOnce` is `Deserted`: signals have ended every worker.
- `PoolImplementsJobPool`: `Spec => ImplementsJobPool`. The initial state maps to
  `JobPool`'s, and each of the pool's steps to one of its steps or to a stutter;
  an interrupted await collects nothing, and the end of the last worker is `Desert`;
  the fairness of `JobPool` is not part of `ImplementsJobPool`.

**TQueue** (`QueueAssumption`: finitely many threads). `QueueCorrect` (`QueueInv`)
and `QueueExclusive`. `Mutex` relates the value of the semaphore to the thread
inside, `LocalsAgree` says that what this thread has read is still so, and
`Accounts` that there are at least as many elements as are promised to a pop, not
yet announced by a push, or there for a caller (an interrupted pop leaves one
behind): this is what makes a pop with a permit find an element.

**HttpServer** (`ServerAssumption`, and the pool's).

- `ServerUsesPool`: `ServerSpec => Spec`: the server is a client of the pool like any
  other, so all of the above holds in it, and `ServerPoolImplementsJobPool`.
- `JobIdQueueCorrect` (`JobIdQueueInv`) and `ServerEndsOrderly` (`OrderlyEnd`), on
  top of the pool's invariant `PoolInv`: `MainInv` (how far the main thread is
  determines how far pool and listener are), `HandInv` (what the listener has in
  hand), `IdsInv`, `BoundInv` (the excess it counted is still there when it pops),
  `ConnInv`, and `KeptInv`: as long as the listener is not cancelled, somebody is
  about to await every job that was submitted, or its `pool_await` was interrupted.
  `AwaitedOrGivenUp` has the same two exceptions.

**WsManager** (`ManagerAssumption`), any set of connections, whatever
`pthread_create` does.

- `ManagerTypeCorrect`, `ListCorrect` (`ListIsExact`) and `MutexProtects`
  (`OrderlyUse`). The invariant is
  `IInv == TypeOK /\ (hasty \/ Orderly) /\ (mpc = "run" => ~hasty)`.
  `Orderly` has four parts: `Exclusion` (between lock and unlock one holds the
  mutex), `Lifetimes` (a listener exists from its creation, and removes itself
  only after the add has returned, because the add holds the mutex), `Memory`
  (positions of threads determine what is allocated and linked) and `MainThread`
  (when the main thread walks the list only failed adds have left nodes).
  `OrderlyStep` shows that each of the 22 actions preserves `Orderly`, or makes
  the server hasty.
- `EverythingReleased` (`AllReleased`), hasty or not: `Release` says that what has
  to be freed can be reached from the list until the main thread has been there.

**FtpServer** (`DataAssumption`, `ServerAssumption`: NULL is no address, no
thread and no mark; nothing is assumed about the numbers of ports, clients,
connections and descriptors, the size of the pool or the limit of the queue).
`ControllerCorrect` (`ControllerInv`), `DescriptorsCorrect` (`DescriptorsAreKept`) and
`NoSessionForgotten` (`SessionsAreAwaited`). `DataInv` is the controller's own invariant: what is
allocated is listed, ports and connections agree, a descriptor is open and has one
owner. `ListenersInv` and `TransfersInv` say what the threads may rely on while they
hold a pointer across operations of others. `Untouched` is the interface between
the two: each operation of the controller leaves a connection that somebody holds
as it was, as long as it is allocated. `JobsInv` follows the JobIds: the queue holds
each once and its length is what the excess the control listener has counted makes
of it (`QueueOnce`, `QueueBound`), and a session that is not over is in it, or was
dropped by an interrupted `pool_await` (`NoneForgotten`); when the main thread finds
the queue empty the control listener has ended, so nothing is added any more.

**Http1Connection** (`ChunkAssumption`; `RequestAssumption`: numerals denote
naturals; `InputsAssumption`: a line or a field is one symbol that is neither CR nor
LF). `ConnectionAnsweredOnce` (`AnsweredOnce`), `RequestReadWhole`
(`RequestIsTheClients`, which for a request with a declared length and
`Connection: close` says only that the body is a beginning of what was sent) and
`RoutesAuthorised` (`AuthorisedOnly`), for any chunk size,
table of routes, providers and requests. `StreamInv` bounds the cursor of the
reader by what arrived; `ScanInv` says where in the client's text the search for
a line end is (the delimiter is half seen exactly behind a CR) and that the lines
parsed so far are the client's; `RequestInv` and `AnswerInv` follow the request and
the answer through the handler. `http_analyze_headers` is a recursive function over
the fields. What it computes is proved by induction over the naturals in the
form of a statement about sets (`NatSetInduction`), which needs no operator
parameter; the same serves to show that the function exists (`AnalyzeFieldsDef`).

**Http2Connection** (`Http2Assumption`: the default frame size is not above the
largest and leaves room for the additional data of HEADERS; `FramesAssumption`:
stream ids and bytes are naturals), for any frames in any order.

- `ConnectionTypeCorrect` (`TypeOK`): with `AppliedWithinLimits`, the last value of a
  setting in a frame that was accepted is within the limits.
- `GoawayCorrect` (`GoawayCovers`): a GOAWAY is the last thing sent, with the last
  stream id of that moment (`GoawayInv`), and that is never below a stream whose
  request was handed over (`StreamsInv`).
- `StreamsCarryOneRequest`: a stream whose request was handed over has ended
  (`HasEnded`), and no frame makes it one that has not: a RST_STREAM on a closed
  stream makes it half closed again, but `end_stream` stays.
- `ResponsesFit`: the frames of a response announce the bytes they have and fit the
  settings of their moment, by arithmetic on `Chunks`: what the 24 bits of the
  length field cannot say is not sent at all. It needs `AnswersInv`: no two answers
  are to the same stream.
- `AllAcknowledged` (`AcknowledgesAll`): `AckInv` says that what was sent matches
  what was received (`Matches`) as long as the connection is not over, that the
  first frame is SETTINGS, and that the frame that ends the connection is not
  counted as taken. Each step adds a frame on one side, and then its answer on the
  other, or neither.
- `RequestsWhole` (`RequestsInv`): `ReqInv` says of each stream that it has ended, or
  was closed and lost its blocks (`Dead`), or holds exactly the message frames of
  its part of the input (`Live`, `Holds`): its blocks are what these frames carry, its
  flags say which of them were marked. `ContentIsCarried` relates what the parsers
  cut out of a frame to what it carries.
- `RequestsServed` (`RequestsAreServed`): `ServeInv` says of each stream with nothing
  but the beginning of an exchange (`Begins`) that it is open and holds it, and of
  one with a complete exchange that its request was handed over. Frames of other
  streams leave both alone (`Elsewhere`), also when they are errors.
- `ResponsesWhole` (`ResponsesAreWhole`): the chunks of n bytes, one after the other,
  are the n bytes (`FlattenedChunks`), the header frames of a response are those of
  its message with a header type, the data frames the others (`PartsOfFrames`), and
  since only responses send messages (`OnlyControl`) and each stream gets one, what is
  sent for a stream stays what it was (`ResInv`). A response is cut short only when
  the peer is gone or its body fills a frame of 2^24 bytes (`ThroughInv`).

**WsConnection** (`ConnectionAssumption`, `FramesAssumption`: payloads are sequences of
bytes), for any frames, any number of them and any negotiated extension.

- `MessagesCorrect` (`MessagesInv`), `ClosesCorrectly` (`ClosesWhenItHasTo`) and
  `PingsAnswered` (`PingsAreAnswered`). The properties describe the peer's stream as a
  whole; that its meaning up to a frame depends on the frames up to it only
  (`CodeAgree`) lets each of them be followed frame by frame. `ListenerInv` has six
  parts: the types, what was read (`ReadInv`: the listener's current message is the
  open message of the stream), what the callback is about to get (`HandleInv`), how a
  connection ends (`EndInv`), what was sent (`SentInv`) and the pongs (`PongInv`).
- `EchoReadable` (`EchoIsReadable`), for connections with compression, fragmentation or
  both: as long as no compressed message had to be cut (`NoneCut`), what was sent is
  readable and says what was delivered (`EchoInv`), and of an echo that is being cut
  up, which part is sent (`PartSent`, `CutUpEcho`). `HandleInv` ties the message that
  the callback gets to the frames it came in, which decide whether it is one that
  has to be cut. Beyond that the property is false of the code, as `MCWsDeflate.cfg`
  shows.

**Hpack** (`StartAssumption`: the ring starts with at least one slot;
`StringAssumption`: strings are octets, and the fields to send have a Huffman code;
`BlockAssumption`: no block is NULL; `HpackAssumption`), for any static table, fields,
options, table sizes and octets from a peer.

- `BlocksCorrect`: a block is octets, the position is inside it, what was read are
  fields. This needs the types of all coders and decoders.
- `RingsStayClean` (`RingsAreClean`). `TableInv` says of a table that its ring is clean;
  each of the loops (evicting, moving the entries when the ring shrinks, counting the
  sizes) is a recursive function whose existence is proved once for all loops
  (`LoopExists`) and whose values are followed turn by turn (`LoopInduction`).
- `CompressorImplementsList` and `DecompressorImplementsList`: seen from outside, through
  `AsList`, each ring is the bounded list `HpackList` of any entries and any bounds.

The three theorems that follow say that the decompressor understands the compressor.
They also use what the coding itself needs:
`CodeAssumption` (the codes of RFC 7541, appendix B: 5 to 30 bits, none begins another,
none of less than 8 bits is all ones, which is the padding), `NumberAssumption` (lengths
and indices stay below 2^28, from where the shift at `http/hpack.c:62` is undefined) and
`MalformedAssumption`, which says what counts as malformed: an index that stands for no
field whatever the table holds, or a literal that ends before its index or one of its
strings does. The runs evaluate all three.

- `TablesStayInStep` (`TablesInStep`): sizes may be announced to the decompressor at any
  time, so the tables need not be equal; the list of one is a beginning of the other's
  all the same, since both evict from the end (`Agrees`).
- `FieldsRoundTrip` (`RoundTrip`), for any fields: a field is refused only if it is the
  last of its block and has no value (`MCHpackLiteral.cfg`), if one of its strings fills
  the memory of the Huffman decoder (`http/hpack_huffman.c:84`), or if a size below the
  compressor's was announced, so that its index may be gone.
- `DecompressorKeepsToTheFields` (`ImplementsHpackList`): its list holds none but fields
  that were sent, and it takes none but sizes that were announced or sent.

`RoundTrip` is not inductive: it says nothing of the octets that are still to be read.
`InStep` says what they are. There is a table that agrees with the decompressor's
(`Together`, `Agrees`), the one the compressor had at this place, and from it and the
position a `Path` leads,
one representation after the other, to the compressor's table at the end of what has been
written, or to the malformed octets behind it (`Ahead`); and what was read is the
beginning of what was sent. Writing adds a representation at the end of the path
(`AheadWritten`), and reading takes one from its beginning (`AheadSplit`). Between them
are:

- *numbers*: the digits that `EncodeInt` writes (`EncodeIntDigits`) are what `DecodeInt`
  adds up (`NumberRead`), for every prefix;
- *Huffman codes*: where in the bits each code lies (`EncodedBits`), and that the walk
  from the root stops at the end of each code and nowhere else, since none begins another
  (`HuffmanRead`);
- *strings and literals*: what each encoder writes stands for its field (`FieldWritten`),
  and each parser reads it back, or refuses it where `RoundTrip` allows it
  (`LiteralRead`, `StandsRead`, `Must`);
- *malformed octets*: the end of a block is read as the same octets alone are read
  (`DecodeIntShift`, `DecodeStringShift`), so that what is malformed alone is refused
  behind a well-formed beginning too (`MalformedRefused`). An index beyond what a table of
  its size can hold names no entry, since each counts for 32 bytes (`CountIsSmall`).

**Only model-checked.**

- Everything temporal under fairness: the prover has no `ENABLED`.
  These are `EveryJobRuns` and `CallsReturn` (pool, WebSocket manager), `ServerEnds`,
  `AcceptedIsServed`, `LeavingEndsListener`, `LeavingEndsHandler` (HTTP/1 and HTTP/2) and
  `WaitEnds`. Every invariant and every refinement that a passing run checks is proved.

## 5. What is left out

- Failures of `malloc` and of initialising semaphores, unless they take the path
  of a failure that is modelled (`CreateFails`, `AddCreateFails`).
- Data races on plain flags: `g_signal_received` is read and written atomically.
- Masking and the length encoding of WebSocket frames, the byte layout of HTTP/2
  frame headers, the text of HTTP/1 messages and of log lines.
- The libraries: zlib, OpenSSL, PAM, bcrypt, utf8proc, the kernel's sockets.
- HTTP/2 flow control and priorities, which the code parses and does not act on.
- Allocation failures of the HPACK tables and of the FTP data controller.
- HTTP/1: the spelling of lines, fields and URIs, Accept-Encoding and what
  follows from it, the contents of responses. What an executor or a folder
  answers is one of the statuses it can answer.
- FTP: the resolution of paths, the format of listings, the byte order of
  addresses, the contents of files.
- HPACK: integers from 2^28 on, where the shift at `http/hpack.c:62` is undefined.
- Parts that are not modelled: sockets and TLS (thin wrappers, represented by
  reads and writes that succeed or fail); compression of bodies (calls of
  libraries on one buffer); folders, URIs and MIME types (string manipulation and
  `stat`, no state between requests); JSON (a pure recursive parser and printer
  with a test-suite of its own); logging (one mutex around a line); utilities;
  the command line; third-party code.

Known behaviour of the code that no property states, because the repository says
nothing else: HTTP/2 streams are never removed from the context; a stream that a
PRIORITY frame created is never opened; an empty body that is not NULL does not
end its stream; the stream of an h2c upgrade does not count for GOAWAY; one byte
of the four of a PUSH_PROMISE's stream id is read; a second shutdown request
cancels a listener that may have been joined; the error values of `pool_submit`
are queued like JobIds. An HTTP/1 client that sends nothing keeps its worker; a
failed `thread_manager_add_connection` after 101 leaves the descriptor to nobody;
after a CR that does not end the line the search goes on behind the next byte
without looking at that byte as the start of a line end. STOR never
closes its data connection, which only a sweep does; QUIT has no case of its own;
`g_usr1_signal_received` is cleared only after a sleep; a connection that is
swept before it has a descriptor makes `close_connection_descriptor` get NULL; a
second client at a passive port ends that port's listener. The padding of a
Huffman string is never checked. The table size that a peer announces is applied to
the wrong direction (`http/v2.c:1788`): after a size below the compressor's own, blocks
that refer to entries the decompressor no longer has are refused, though none is
read as another field. STOR reads from a silent client for as long as it stays. The
orchestrator joins a thread reference that was never set when a port could not be
opened (`ftp/server.c:1831`).

## 6. Plan

The parts of the program that have state of their own are modelled, and every
safety property and refinement that the runs show is proved for all sizes.

Further instances that are worth their time when the machine is larger: two
passive ports in `ftp`, two fields per block and tables of seven entries in `hpack`,
six frames in `http2`.
