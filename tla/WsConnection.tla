---------------------------- MODULE WsConnection ----------------------------
(***************************************************************************)
(* One WebSocket connection: the thread of ws_listener_function            *)
(* (ws/thread_manager.c) with the permessage-deflate pipeline of           *)
(* ws/extension.c and the echoing callback of ws/handler.c.                *)
(*                                                                         *)
(* A frame is what read_raw_message returns: its opcode, the fin bit, the  *)
(* three rsv bits as a number and the unmasked payload, a sequence of      *)
(* bytes.  `received' and `sent' are the two directions of the socket.     *)
(***************************************************************************)
EXTENDS Integers, Sequences, SequencesExt, FiniteSetsExt, Selection

CONSTANTS Frames,    \* the frames a peer may send
          Args,      \* the connection->args a handshake may settle on
          MaxFrames  \* bound: frames a peer sends

(* Of WsConnectionArgs: whether permessage-deflate was negotiated and the  *)
(* fragment_option, with the size for "set" and with SO_SNDBUF, or -1 when *)
(* getsockopt fails, for "auto".                                           *)
ASSUME ConnectionAssumption ==
    /\ Args \subseteq [deflate : BOOLEAN,
                      fragment_option : {"off", "auto", "set"},
                      param : Nat \cup {-1}]
    /\ MaxFrames \in Nat

\* What read_raw_message can return.
ASSUME FramesAssumption ==
    Frames \subseteq [op : 0..15, fin : BOOLEAN, rsv : 0..7, payload : Seq(0..255)]

VARIABLES args,         \* connection->args
          pc,           \* where the listener thread is
          has_message,  \* the first frame of a message was received
          message,      \* current_message
          compressed,   \* is_compressed_message of the receive state
          peer,         \* "up", "fin" (peer closed its side) or "gone"
          received, sent, delivered,
          closed_with   \* the code given to close_websocket_connection, or 0

vars == <<args, pc, has_message, message, compressed, peer, received, sent,
          delivered, closed_with>>

---------------------------------------------------------------------------
(* Opcodes, close codes and bytes.                                         *)

Cont == 0
Text == 1
Bin == 2
Close == 8
Ping == 9
Pong == 10

\* Bit 3 of the opcode: reserved control opcodes are control opcodes too.
is_control_op_code(op) == op >= 8

CloseCodeNormalClosure == 1000
CloseCodeProtocolError == 1002
CloseCodeInvalidFramePayloadData == 1007

MAX_CONTROL_FRAME_PAYLOAD == 125
WS_MINIMUM_FRAGMENT_SIZE == 16
DEFAULT_AUTO_FRAGMENT_SIZE == 4096
WS_MAXIMUM_HEADER_LENGTH == 14

CodeBytes(code) == <<code \div 256, code % 256>>
CodeOf(payload) == 256 * payload[1] + payload[2]

is_valid_close_code(code) ==
    \/ code \in 3000..4999
    \/ code \in 1000..1014 /\ code \notin 1004..1006

\* utf8proc, for characters of one and of two bytes.
Utf8Valid(s) ==
    \A i \in DOMAIN s :
        \/ s[i] < 128
        \/ s[i] \in 194..223 /\ i < Len(s) /\ s[i + 1] \in 128..191
        \/ s[i] \in 128..191 /\ i > 1 /\ s[i - 1] \in 194..223

\* zlib: what deflate yields starts with a mark and everything else is
\* refused by inflate.
Mark == 1
Deflated(s) == <<Mark>> \o s
Inflatable(s) == s # <<>> /\ s[1] = Mark
Inflated(s) == Tail(s)

---------------------------------------------------------------------------
(* The extension pipeline.                                                 *)

Deflate == args.deflate

\* Bit 0b100 is the compressed bit.
Rsv1 == 4
allowed_rsv_bytes == IF Deflate THEN {0, Rsv1} ELSE {0}

is_valid_cont_frame(f) == ~Deflate \/ f.rsv # Rsv1

\* Fault: the compressed bit is never set.
StartRsvNever(zipped) == 0
\* process_start_message of the send side.
StartRsv(zipped) == IF Deflate /\ zipped THEN Rsv1 ELSE 0
\* process_cont_message of the send side does nothing.
ContRsv(zipped) == 0

---------------------------------------------------------------------------
(* Sending.                                                                *)

\* The frames of ws_send_message_internal_normal.
Normal(m, zipped) ==
    <<[op |-> IF m.is_text THEN Text ELSE Bin, fin |-> TRUE,
       rsv |-> StartRsv(zipped), payload |-> m.buffer]>>

\* Which rsv bits the fragment that begins at byte `start' gets.
FragmentRsv(start, zipped) ==
    IF start # 0 THEN StartRsv(zipped) ELSE ContRsv(zipped)

\* Fault: the last fragment is the one that reaches beyond the message.
LastFragmentLate(start, size, len) == start + size > len
LastFragment(start, size, len) == start + size >= len

FragmentSize(wanted) ==
    IF wanted < WS_MINIMUM_FRAGMENT_SIZE THEN WS_MINIMUM_FRAGMENT_SIZE ELSE wanted

\* The frames of ws_send_message_internal_fragmented.
Fragmented(m, zipped, wanted) ==
    LET size == FragmentSize(wanted)
        len == Len(m.buffer)
        Fragment(start) ==
            [op |-> CASE start # 0 -> Cont
                      [] start = 0 /\ m.is_text -> Text
                      [] OTHER -> Bin,
             fin |-> LastFragment(start, size, len),
             rsv |-> FragmentRsv(start, zipped),
             payload |-> SubSeq(m.buffer, start + 1,
                                Min({start + size, len}))]
    IN  IF len < size
        THEN Normal(m, zipped)
        ELSE [i \in 1..((len + size - 1) \div size) |->
                 Fragment((i - 1) * size)]

\* The size that fragment_option "auto" chooses.
AutoSize ==
    IF args.param >= WS_MAXIMUM_HEADER_LENGTH
    THEN args.param - WS_MAXIMUM_HEADER_LENGTH
    ELSE DEFAULT_AUTO_FRAGMENT_SIZE - WS_MAXIMUM_HEADER_LENGTH

\* The frames of ws_send_message: compress, then cut.
FramesOf(m, zipped) ==
    LET out == IF Deflate /\ zipped
               THEN [m EXCEPT !.buffer = Deflated(@)] ELSE m
    IN  CASE args.fragment_option = "off" -> Normal(out, zipped)
          [] args.fragment_option = "auto" -> Fragmented(out, zipped, AutoSize)
          [] args.fragment_option = "set" -> Fragmented(out, zipped, args.param)

\* Sends reach the peer unless it is gone.
CanSend == peer # "gone"
Send(frames) == sent' = IF CanSend THEN sent \o frames ELSE sent

---------------------------------------------------------------------------
NoMessage == [is_text |-> TRUE, buffer |-> <<>>]

Init ==
    /\ args \in Args
    /\ pc = "start"
    /\ has_message = FALSE
    /\ message = NoMessage
    /\ compressed = FALSE
    /\ peer = "up"
    /\ received = <<>>
    /\ sent = <<>>
    /\ delivered = <<>>
    /\ closed_with = 0

\* close_websocket_connection and FREE_AT_END: the close frame is sent and
\* the thread ends.  How the manager drops the connection is the business of
\* WsManager.
CloseConnection(code, reason) ==
    /\ Send(<<[op |-> Close, fin |-> TRUE, rsv |-> 0,
               payload |-> CodeBytes(code) \o reason]>>)
    /\ closed_with' = code
    /\ pc' = "ended"
    /\ UNCHANGED <<has_message, message, compressed, delivered>>

ListenerStart ==
    /\ pc = "start"
    /\ pc' = "read"
    /\ UNCHANGED <<args, has_message, message, compressed, peer, received, sent,
                   delivered, closed_with>>

\* Fault: the end of the stream is not an error.
ReadErrorReset ==
    /\ pc = "read" /\ peer = "gone"
    /\ CloseConnection(CloseCodeProtocolError, <<>>)
    /\ UNCHANGED <<args, peer, received>>
\* read_raw_message fails: the stream ended inside or before a frame.
ReadError ==
    /\ pc = "read" /\ peer # "up"
    /\ CloseConnection(CloseCodeProtocolError, <<>>)
    /\ UNCHANGED <<args, peer, received>>

\* Fault: the checks forget the largest size of a control frame.
FrameErrorUnsized(f) ==
    LET size == Len(f.payload)
    IN  CASE f.rsv \notin allowed_rsv_bytes -> CloseCodeProtocolError
          [] f.rsv \in allowed_rsv_bytes /\ is_control_op_code(f.op) /\
             (~f.fin \/ (f.op = Close /\ size = 1)) -> CloseCodeProtocolError
          [] f.rsv \in allowed_rsv_bytes /\ f.op = Close /\ f.fin /\ size >= 2 /\
             ~Utf8Valid(SubSeq(f.payload, 3, size)) ->
                CloseCodeInvalidFramePayloadData
          [] OTHER -> 0

\* What the checks before the switch answer: 0, or a close code.
FrameError(f) ==
    LET control == is_control_op_code(f.op)
        size == Len(f.payload)
        close == f.op = Close
    IN  CASE f.rsv \notin allowed_rsv_bytes -> CloseCodeProtocolError
          [] f.rsv \in allowed_rsv_bytes /\ control /\
             (~f.fin \/ size > MAX_CONTROL_FRAME_PAYLOAD
                     \/ (close /\ size = 1)) -> CloseCodeProtocolError
          [] f.rsv \in allowed_rsv_bytes /\ close /\ f.fin /\
             size \in 2..MAX_CONTROL_FRAME_PAYLOAD /\
             ~Utf8Valid(SubSeq(f.payload, 3, size)) ->
                CloseCodeInvalidFramePayloadData
          [] OTHER -> 0

RefuseFrame(f) ==
    /\ FrameError(f) # 0
    /\ CloseConnection(FrameError(f), <<>>)

\* A complete message: the pipeline inflates it, text has to be UTF-8, and
\* the callback is next.
FinishMessage(is_text, buffer, zipped) ==
    LET plain == IF zipped THEN Inflated(buffer) ELSE buffer
    IN  IF (zipped => Inflatable(buffer)) /\ (is_text => Utf8Valid(plain))
        THEN /\ pc' = "handle"
             /\ has_message' = TRUE
             /\ message' = [is_text |-> is_text, buffer |-> plain]
             /\ compressed' = zipped
             /\ UNCHANGED <<sent, delivered, closed_with>>
        ELSE CloseConnection(CloseCodeInvalidFramePayloadData, <<>>)

\* A first or further frame of a message that is not complete.
KeepMessage(is_text, buffer, zipped) ==
    /\ has_message' = TRUE
    /\ message' = [is_text |-> is_text, buffer |-> buffer]
    /\ compressed' = zipped
    /\ UNCHANGED <<pc, sent, delivered, closed_with>>

RefuseCont(f) ==
    /\ FrameError(f) = 0 /\ f.op = Cont
    /\ ~has_message \/ ~is_valid_cont_frame(f)
    /\ CloseConnection(CloseCodeProtocolError, <<>>)

ContFrame(f) ==
    /\ FrameError(f) = 0 /\ f.op = Cont
    /\ has_message /\ is_valid_cont_frame(f)
    /\ LET buffer == message.buffer \o f.payload
       IN  IF f.fin THEN FinishMessage(message.is_text, buffer, compressed)
                    ELSE KeepMessage(message.is_text, buffer, compressed)

RefuseStart(f) ==
    /\ FrameError(f) = 0 /\ f.op \in {Text, Bin}
    /\ has_message
    /\ CloseConnection(CloseCodeProtocolError, <<>>)

\* Fault: a new message replaces an unfinished one.
StartFrameReplaces(f) ==
    /\ FrameError(f) = 0 /\ f.op \in {Text, Bin}
    /\ IF f.fin THEN FinishMessage(f.op = Text, f.payload, f.rsv = Rsv1)
                ELSE KeepMessage(f.op = Text, f.payload, f.rsv = Rsv1)
StartFrame(f) ==
    /\ FrameError(f) = 0 /\ f.op \in {Text, Bin}
    /\ ~has_message
    /\ LET zipped == Deflate /\ f.rsv = Rsv1
       IN  IF f.fin THEN FinishMessage(f.op = Text, f.payload, zipped)
                    ELSE KeepMessage(f.op = Text, f.payload, zipped)

\* Without payload the answer is a normal closure; otherwise code and
\* reason go back, unless the code is not one a peer may send.
CloseFrame(f) ==
    /\ FrameError(f) = 0 /\ f.op = Close
    /\ IF f.payload = <<>>
       THEN CloseConnection(CloseCodeNormalClosure, <<>>)
       ELSE IF is_valid_close_code(CodeOf(f.payload))
            THEN CloseConnection(CodeOf(f.payload),
                                 SubSeq(f.payload, 3, Len(f.payload)))
            ELSE CloseConnection(CloseCodeProtocolError, <<>>)

\* Fault: the pong has no payload.
PingFrameBare(f) ==
    /\ FrameError(f) = 0 /\ f.op = Ping
    /\ CanSend
    /\ Send(<<[op |-> Pong, fin |-> TRUE, rsv |-> f.rsv, payload |-> <<>>]>>)
    /\ UNCHANGED <<pc, has_message, message, compressed, delivered,
                   closed_with>>
\* The pong copies the payload and the rsv bits of the ping.
PingFrame(f) ==
    /\ FrameError(f) = 0 /\ f.op = Ping
    /\ CanSend
    /\ Send(<<[op |-> Pong, fin |-> TRUE, rsv |-> f.rsv,
               payload |-> f.payload]>>)
    /\ UNCHANGED <<pc, has_message, message, compressed, delivered, closed_with>>

PongUnsent(f) ==
    /\ FrameError(f) = 0 /\ f.op = Ping
    /\ ~CanSend
    /\ CloseConnection(CloseCodeProtocolError, <<>>)

\* Fault: an unsolicited pong ends the message that is being received.
PongFrameResets(f) ==
    /\ FrameError(f) = 0 /\ f.op = Pong
    /\ has_message' = FALSE
    /\ UNCHANGED <<pc, message, compressed, sent, delivered, closed_with>>
PongFrame(f) ==
    /\ FrameError(f) = 0 /\ f.op = Pong
    /\ UNCHANGED <<pc, has_message, message, compressed, sent, delivered, closed_with>>

UnknownFrame(f) ==
    /\ FrameError(f) = 0
    /\ f.op \notin {Cont, Text, Bin, Close, Ping, Pong}
    /\ CloseConnection(CloseCodeProtocolError, <<>>)

\* One turn of the inner loop, with a frame the peer sent.
Receive(f) ==
    /\ pc = "read" /\ Len(received) < MaxFrames
    /\ received' = Append(received, f)
    /\ UNCHANGED <<args, peer>>
    /\ \/ RefuseFrame(f)
       \/ RefuseCont(f)
       \/ ContFrame(f)
       \/ RefuseStart(f)
       \/ StartFrame(f)
       \/ CloseFrame(f)
       \/ PingFrame(f)
       \/ PongUnsent(f)
       \/ PongFrame(f)
       \/ UnknownFrame(f)

\* The callback echoes the message, and the outer loop starts over with no
\* message.
HandleMessage ==
    /\ pc = "handle" /\ CanSend
    /\ delivered' = Append(delivered, message)
    /\ Send(FramesOf(message, compressed))
    /\ pc' = "read"
    /\ has_message' = FALSE
    /\ message' = NoMessage
    /\ compressed' = FALSE
    /\ UNCHANGED <<args, peer, received, closed_with>>

\* The peer goes away while the echo is sent, so that only some of its
\* frames arrive; the callback answers WebSocketActionError.
HandleMessageFails ==
    /\ pc = "handle" /\ peer # "up"
    /\ LET frames == FramesOf(message, compressed)
       IN  \E n \in 0..(Len(frames) - 1) :
              /\ CanSend \/ n = 0
              /\ sent' = sent \o SubSeq(frames, 1, n)
    /\ peer' = "gone"
    /\ delivered' = Append(delivered, message)
    /\ closed_with' = CloseCodeProtocolError
    /\ pc' = "ended"
    /\ UNCHANGED <<args, has_message, message, compressed, received>>

\* The peer ends its stream, or resets the connection.
PeerLeaves ==
    /\ \/ peer = "up" /\ peer' \in {"fin", "gone"}
       \/ peer = "fin" /\ peer' = "gone"
    /\ UNCHANGED <<args, pc, has_message, message, compressed, received, sent,
                   delivered, closed_with>>

Ended ==
    /\ pc = "ended"
    /\ UNCHANGED vars

Next ==
    \/ ListenerStart
    \/ ReadError
    \/ \E f \in Frames : Receive(f)
    \/ HandleMessage
    \/ HandleMessageFails
    \/ PeerLeaves
    \/ Ended

\* The listener thread runs whenever it can; what the peer does is free,
\* except that its stream ends once it has sent what it wants to send.
Fairness ==
    /\ WF_vars(ListenerStart)
    /\ WF_vars(ReadError)
    /\ WF_vars(HandleMessage)
    /\ WF_vars(HandleMessageFails)

Spec == Init /\ [][Next]_vars /\ Fairness

---------------------------------------------------------------------------
(* What the peer's stream means, stated on the whole stream h instead of   *)
(* frame by frame with the listener's variables.                           *)

IsData(f) == f.op \in {Cont, Text, Bin}

\* Before frame k a message is begun and not finished.
MessageOpen(h, k) ==
    \E j \in 1..(k - 1) :
        /\ h[j].op \in {Text, Bin} /\ ~h[j].fin
        /\ \A i \in (j + 1)..(k - 1) : h[i].op = Cont => ~h[i].fin

Completes(h, k) == IsData(h[k]) /\ h[k].fin

FirstFrame(h, k) == h[Max({j \in 1..k : h[j].op \in {Text, Bin}})]
WholePayload(h, k) ==
    LET j == Max({i \in 1..k : h[i].op \in {Text, Bin}})
    IN  Joined(k, {i \in 1..k : i >= j /\ IsData(h[i])}, [i \in 1..k |-> h[i].payload])
MessageAt(h, k) ==
    [is_text |-> FirstFrame(h, k).op = Text,
     buffer |-> IF FirstFrame(h, k).rsv = Rsv1
                THEN Inflated(WholePayload(h, k)) ELSE WholePayload(h, k)]

ProtocolViolation(h, k) ==
    LET f == h[k]
    IN  \/ f.rsv # 0 /\ (Deflate => f.rsv # Rsv1)
        \/ f.op \notin {Cont, Text, Bin, Close, Ping, Pong}
        \/ f.op = Cont /\ (f.rsv # 0 \/ ~MessageOpen(h, k))
        \/ f.op \in {Text, Bin} /\ MessageOpen(h, k)
        \/ f.op >= Close /\ (~f.fin \/ Len(f.payload) > 125)
        \/ f.op = Close /\ Len(f.payload) = 1

BadPayload(h, k) ==
    \/ /\ h[k].op = Close
       /\ ~Utf8Valid(SubSeq(h[k].payload, 3, Len(h[k].payload)))
    \/ /\ Completes(h, k)
       /\ FirstFrame(h, k).rsv = Rsv1 /\ ~Inflatable(WholePayload(h, k))
    \/ /\ Completes(h, k)
       /\ MessageAt(h, k).is_text /\ ~Utf8Valid(MessageAt(h, k).buffer)

\* The code with which frame k of the stream h has to end the connection.
CodeFor(h, k) ==
    CASE ProtocolViolation(h, k) -> CloseCodeProtocolError
      [] ~ProtocolViolation(h, k) /\ BadPayload(h, k) ->
            CloseCodeInvalidFramePayloadData
      [] ~ProtocolViolation(h, k) /\ ~BadPayload(h, k) /\ h[k].op = Close ->
            (IF h[k].payload = <<>> THEN CloseCodeNormalClosure
             ELSE IF is_valid_close_code(CodeOf(h[k].payload))
                  THEN CodeOf(h[k].payload) ELSE CloseCodeProtocolError)
      [] OTHER -> 0

\* The messages of the stream h.
Messages(h) ==
    LET ends == {k \in DOMAIN h : CodeFor(h, k) = 0 /\ Completes(h, k)}
    IN  Selected(Len(h), ends, [k \in ends |-> MessageAt(h, k)])

\* The payloads of the frames of h with this opcode.
Payloads(h, op) ==
    Selected(Len(h), {k \in DOMAIN h : h[k].op = op}, [k \in DOMAIN h |-> h[k].payload])

---------------------------------------------------------------------------
FrameShape(f) ==
    /\ f.op \in 0..15 /\ f.fin \in BOOLEAN /\ f.rsv \in 0..7
    /\ \A i \in DOMAIN f.payload : f.payload[i] \in 0..255

(* Types: the frames in both directions are frames, an unfinished or       *)
(* finished message exists only while has_message says so.                 *)
TypeOK ==
    /\ pc \in {"start", "read", "handle", "ended"}
    /\ has_message \in BOOLEAN /\ compressed \in BOOLEAN
    /\ peer \in {"up", "fin", "gone"}
    /\ \A i \in DOMAIN received : received[i] \in Frames
    /\ \A i \in DOMAIN sent : FrameShape(sent[i])
    /\ closed_with = 0 \/ closed_with \in 1000..4999
    /\ ~has_message => message = NoMessage /\ ~compressed

(* Fragments, interleaved control frames, compression and UTF-8 checks:    *)
(* the callback gets exactly the messages of the peer's stream, in order,  *)
(* each with the payloads of all its frames.                               *)
Reassembles ==
    Messages(received) =
        IF pc = "handle" THEN Append(delivered, message) ELSE delivered

(* The listener's state is well formed, and out of it come the peer's      *)
(* messages: nothing of one message is left over for the next.             *)
MessagesInv == TypeOK /\ Reassembles

(* The listener closes at the first frame that has to end the connection,  *)
(* with the code that frame calls for, and while the peer is there for no  *)
(* other reason.  The close frame is the last frame that is sent, and an   *)
(* ended connection that could still send has sent one.                    *)
ClosesWhenItHasTo ==
    LET n == Len(received)
    IN  /\ \A k \in 1..n : CodeFor(received, k) # 0 =>
               k = n /\ pc = "ended" /\ (peer # "gone" =>
                                         closed_with = CodeFor(received, k))
        /\ closed_with # 0 /\ peer = "up" =>
               n > 0 /\ closed_with = CodeFor(received, n)
        /\ \A i \in DOMAIN sent : sent[i].op = Close => i = Len(sent)
        /\ pc = "ended" /\ peer # "gone" =>
               sent # <<>> /\ Last(sent).op = Close

(* Every ping is answered, in order, with its own payload, also between    *)
(* the fragments of a message.                                             *)
PingsAreAnswered ==
    LET good == IF closed_with # 0 /\ received # <<>> /\
                   CodeFor(received, Len(received)) # 0
                THEN Front(received) ELSE received
    IN  IF peer = "gone"
        THEN IsPrefix(Payloads(sent, Pong), Payloads(good, Ping))
        ELSE Payloads(sent, Pong) = Payloads(good, Ping)

\* The data frames that were sent are a stream that the server's own receive
\* rules accept, and its messages are the ones the callback echoed.
EchoedAsDelivered ==
    LET out == Selected(Len(sent), {k \in DOMAIN sent : IsData(sent[k])}, sent)
    IN  /\ \A k \in DOMAIN out : CodeFor(out, k) = 0
        /\ Messages(out) = delivered

\* ws_send_message_internal_fragmented cuts what is this long.
IsCut(buffer) ==
    \/ args.fragment_option = "auto" /\ Len(buffer) >= FragmentSize(AutoSize)
    \/ args.fragment_option = "set" /\ Len(buffer) >= FragmentSize(args.param)

\* Frame k completes a compressed message whose echo, compressed again, is cut.
CutsCompressed(h, k) ==
    /\ CodeFor(h, k) = 0 /\ Completes(h, k)
    /\ Deflate /\ FirstFrame(h, k).rsv = Rsv1
    /\ IsCut(Deflated(MessageAt(h, k).buffer))

(* What the server sends is a stream that its own receive rules accept,    *)
(* and the messages of that stream are the ones the callback echoed, until *)
(* a compressed message has to be cut: also when uncompressed ones are cut *)
(* and compressed ones are sent whole on the same connection.              *)
EchoIsReadable ==
    peer # "gone" /\ (\A k \in DOMAIN received : ~CutsCompressed(received, k))
        => EchoedAsDelivered

(* The same for every message.  The send side sets the compressed bit on   *)
(* the continuation frames and not on the first one, which the receive     *)
(* side of the same code calls an extension error.                         *)
CutEchoIsReadable == peer # "gone" => EchoedAsDelivered

(* A peer that ends its stream or resets the connection gets rid of the    *)
(* listener thread.                                                        *)
LeavingEndsListener == (peer # "up") ~> (pc = "ended")
=============================================================================
