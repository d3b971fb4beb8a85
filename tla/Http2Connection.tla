-------------------------- MODULE Http2Connection --------------------------
(***************************************************************************)
(* One HTTP/2 connection: the loop of http_socket_connection_handler       *)
(* (http/server.c) over parse_http2_request and its helpers (http/v2.c),   *)
(* from the preface or the h2c upgrade to the end of the connection, and   *)
(* the frames a response is cut into.                                      *)
(*                                                                         *)
(* A frame has a type, a stream id, flags and a payload, a sequence of     *)
(* bytes.  `received' holds the frames the reader parsed and `sent' those  *)
(* the server wrote.  A header block is a sequence of fields: Pseudo       *)
(* stands for the :method, :scheme and :path of a request, Field for an    *)
(* ordinary one and any other byte for what the decoder or the checks of   *)
(* parse_http2_headers refuse.                                             *)
(***************************************************************************)
EXTENDS Integers, Sequences, SequencesExt, FiniteSetsExt, Selection

CONSTANTS Frames,           \* Frames[n]: what the peer's nth frame may be
          UpgradeSettings,  \* payloads of the HTTP2-Settings header
          Responses,        \* the responses a route may give
          MinMaxFrameSize,  \* DEFAULT_SETTINGS_MAX_FRAME_SIZE (1 << 14)
          MaxMaxFrameSize,  \* MAX_MAX_FRAME_SIZE (2^24 - 1)
          MaxWindowSize     \* MAX_FLOW_CONTROL_WINDOW_SIZE (2^31 - 1)

\* ADDITIONAL_HEADERS_DATA_SIZE
AdditionalHeadersDataSize == 6

\* Bound: the frames a peer sends.
MaxFrames == Len(Frames)

(* A response: the length of its encoded header fields, the length of its  *)
(* body and whether body.data is NULL.  The sizes are those of the code or *)
(* smaller ones in the same order.                                         *)
ASSUME Http2Assumption ==
    /\ Responses \subseteq [headers : Nat \ {0}, body : Nat, null : BOOLEAN]
    /\ \A r \in Responses : r.null => r.body = 0
    /\ MinMaxFrameSize \in Nat /\ MinMaxFrameSize > AdditionalHeadersDataSize
    /\ MaxMaxFrameSize \in Nat /\ MaxMaxFrameSize >= MinMaxFrameSize
    /\ MaxWindowSize \in Nat

\* What arrives are bytes and stream ids.
ASSUME FramesAssumption ==
    /\ Len(Frames) \in Nat
    /\ \A n \in 1..Len(Frames) : \A f \in Frames[n] :
          f.id \in Nat /\ f.payload \in Seq(Nat)
    /\ UpgradeSettings \subseteq Seq(Nat)

VARIABLES phase,           \* where the connection handler is
          upgrade,         \* the connection started as HTTP/1.1 (h2c)
          settings,        \* context->settings: what the peer set
          streams,         \* context->streams
          last_stream_id,  \* context->state.last_stream_id
          decoded,         \* the header blocks the decompressor was given
          request,         \* the stream whose request is being answered, or 0
          peer,            \* "up" or "gone"
          received, sent,
          handed,          \* the requests given to process_http_request
          answers          \* what was chosen as the response to each

context == <<settings, streams, last_stream_id, decoded>>
vars == <<phase, upgrade, context, request, peer, received, sent, handed,
          answers>>

---------------------------------------------------------------------------
(* Frames, their flags and payloads.                                       *)

Pseudo == 1
Field == 2

Allowed(type) ==
    CASE type = "DATA" -> {"END_STREAM", "PADDED"}
      [] type = "HEADERS" ->
            {"END_STREAM", "END_HEADERS", "PADDED", "PRIORITY"}
      [] type = "PUSH_PROMISE" -> {"END_HEADERS", "PADDED"}
      [] type = "CONTINUATION" -> {"END_HEADERS"}
      [] type \in {"SETTINGS", "PING"} -> {"ACK"}
      [] OTHER -> {}

\* The padding length has to be smaller than what is left of the payload.
PaddingFits(p) == Len(p) >= 1 /\ p[1] < Len(p) - 1

\* Fault: one byte of the padding is taken for content.
UnpaddedShort(f) ==
    IF "PADDED" \in f.flags
    THEN SubSeq(f.payload, 2, Len(f.payload) - f.payload[1] + 1)
    ELSE f.payload

\* The payload without the padding length and the padding.
Unpadded(f) ==
    IF "PADDED" \in f.flags
    THEN SubSeq(f.payload, 2, Len(f.payload) - f.payload[1])
    ELSE f.payload

BadPadding(f) ==
    "PADDED" \in f.flags /\
    LET p == f.payload
    IN  ~PaddingFits(p) \/
        \E k \in (Len(p) - p[1] + 1)..Len(p) : p[k] # 0

HTTP2_PRIORITY_INFO_SIZE == 5

\* The block_fragment of a HEADERS or CONTINUATION, the content of a DATA.
Content(f) ==
    IF "PRIORITY" \in f.flags
    THEN SubSeq(Unpadded(f), HTTP2_PRIORITY_INFO_SIZE + 1, Len(Unpadded(f)))
    ELSE Unpadded(f)

\* A setting takes six bytes: an identifier, a value and filler here.
HTTP2_SETTINGS_FRAME_SINGLE_SIZE == 6

SettingsNames == <<"header_table_size", "enable_push",
                   "max_concurrent_streams", "initial_window_size",
                   "max_frame_size", "max_header_list_size">>

\* The settings of a payload that have a known identifier, by their places.
Known(p) == {k \in 1..(Len(p) \div HTTP2_SETTINGS_FRAME_SINGLE_SIZE) :
                p[6 * k - 5] \in DOMAIN SettingsNames}
NameAt(p, k) == SettingsNames[p[6 * k - 5]]
ValueAt(p, k) == p[6 * k - 4]

BadSetting(name, value) ==
    \/ name = "enable_push" /\ value \notin {0, 1}
    \/ name = "initial_window_size" /\ value > MaxWindowSize
    \/ name = "max_frame_size" /\
          (value > MaxMaxFrameSize + 1 \/ value < MinMaxFrameSize)

\* Settings payloads: 0, or the code of the first thing wrong with one.
SettingsError(p) ==
    IF Len(p) % HTTP2_SETTINGS_FRAME_SINGLE_SIZE # 0
    THEN "FRAME_SIZE_ERROR"
    ELSE LET bad == {k \in Known(p) : BadSetting(NameAt(p, k), ValueAt(p, k))}
         IN  IF bad = {} THEN "NO_ERROR"
             ELSE IF NameAt(p, Min(bad)) = "initial_window_size"
                  THEN "FLOW_CONTROL_ERROR" ELSE "PROTOCOL_ERROR"

\* The parsers: "NO_ERROR", or the code of the GOAWAY.
Verdict(wrong, wrong_size) ==
    IF wrong THEN "PROTOCOL_ERROR"
    ELSE IF wrong_size THEN "FRAME_SIZE_ERROR" ELSE "NO_ERROR"

BadFlags(f) == ~(f.flags \subseteq Allowed(f.type))

DataError(f) == Verdict(f.id = 0 \/ BadFlags(f) \/ BadPadding(f), FALSE)

HeadersError(f) ==
    Verdict(\/ f.id = 0 \/ BadFlags(f) \/ BadPadding(f)
            \/ "PRIORITY" \in f.flags /\
                  Len(Unpadded(f)) < HTTP2_PRIORITY_INFO_SIZE, FALSE)

PriorityError(f) ==
    Verdict(f.id = 0 \/ BadFlags(f),
            Len(f.payload) # HTTP2_PRIORITY_INFO_SIZE)

RstStreamError(f) == Verdict(f.id = 0 \/ BadFlags(f), Len(f.payload) # 4)

SettingsFrameError(f) ==
    IF f.id # 0 \/ BadFlags(f) THEN "PROTOCOL_ERROR"
    ELSE IF "ACK" \in f.flags THEN Verdict(FALSE, f.payload # <<>>)
    ELSE SettingsError(f.payload)

\* Only one of the four bytes of the promised stream id is read: what is
\* taken for the padding lies three bytes before it, and what the reader
\* takes for the next frame starts with the last three.
PushPromiseError(f) ==
    LET p == f.payload
        padded == "PADDED" \in f.flags
    IN  Verdict(\/ f.id # 0 \/ BadFlags(f) \/ settings.enable_push = 0
                \/ padded /\ ~PaddingFits(p)
                \/ Len(Unpadded(f)) < 4
                \/ padded /\ \E k \in (Len(p) - p[1] - 2)..(Len(p) - 3) :
                                 p[k] # 0, FALSE)

PingError(f) == Verdict(f.id # 0 \/ BadFlags(f), Len(f.payload) # 8)

GoawayError(f) == Verdict(f.id # 0 \/ BadFlags(f), Len(f.payload) < 8)

WindowUpdateError(f) == Verdict(BadFlags(f), Len(f.payload) # 4)

ContinuationError(f) == Verdict(f.id = 0 \/ BadFlags(f), FALSE)

ParseError(f) ==
    IF Len(f.payload) > settings.max_frame_size THEN "FRAME_SIZE_ERROR"
    ELSE CASE f.type = "DATA" -> DataError(f)
           [] f.type = "HEADERS" -> HeadersError(f)
           [] f.type = "PRIORITY" -> PriorityError(f)
           [] f.type = "RST_STREAM" -> RstStreamError(f)
           [] f.type = "SETTINGS" -> SettingsFrameError(f)
           [] f.type = "PUSH_PROMISE" -> PushPromiseError(f)
           [] f.type = "PING" -> PingError(f)
           [] f.type = "GOAWAY" -> GoawayError(f)
           [] f.type = "WINDOW_UPDATE" -> WindowUpdateError(f)
           [] f.type = "CONTINUATION" -> ContinuationError(f)
           [] OTHER -> "INTERNAL_ERROR"

---------------------------------------------------------------------------
(* Streams.                                                                *)

Stream(state, end_stream) ==
    [state |-> state, end_stream |-> end_stream, headers_finished |-> FALSE,
     header_blocks |-> <<>>, data_blocks |-> <<>>]

StateOf(id) == IF id \in DOMAIN streams THEN streams[id].state ELSE "Idle"

SetStream(id, s) ==
    streams' = [i \in DOMAIN streams \cup {id} |->
                   IF i = id THEN s ELSE streams[i]]

\* http2_close_stream: the blocks are freed, the flags stay.
Closed(s) ==
    [s EXCEPT !.state = "Closed", !.header_blocks = <<>>, !.data_blocks = <<>>]

AddHeaderBlock(s, f) ==
    [s EXCEPT !.header_blocks = Append(@, Content(f)),
              !.headers_finished = "END_HEADERS" \in f.flags]

AddContentBlock(s, f) ==
    [s EXCEPT !.data_blocks = Append(@, Content(f)),
              !.end_stream = "END_STREAM" \in f.flags]

---------------------------------------------------------------------------
(* What is sent, and the end of the connection.                            *)

\* What is written once the peer is gone is lost, its errors are ignored.
Send(fs) == sent' = IF peer = "up" THEN sent \o fs ELSE sent

ControlFrame(type, id, value) == [type |-> type, id |-> id, value |-> value]

Goaway(code) ==
    ControlFrame("GOAWAY", 0, [last |-> last_stream_id, code |-> code])

Rst(id, code) == ControlFrame("RST_STREAM", id, code)

\* process_http_error answers with a page in the DEFAULT_RESPONSE_PROTOCOL.
ErrorPage == ControlFrame("HTTP/1.1 400", 0, 0)

\* How a preface that fails is answered: after an upgrade, and when ALPN
\* chose HTTP/2, it is HttpRequestErrorTypeInvalidHttp2Preface, which
\* process_http_error answers with a GOAWAY; a client that starts with
\* HTTP/2 on its own gets a page.
PrefaceErrors ==
    {Goaway("PROTOCOL_ERROR")} \cup (IF upgrade THEN {} ELSE {ErrorPage})

Errors ==
    IF phase \in {"magic", "preface"} THEN PrefaceErrors ELSE {ErrorPage}

Leave(fs) ==
    /\ phase' = "done"
    /\ Send(fs)
    /\ UNCHANGED <<upgrade, context, request, peer, handed, answers>>

---------------------------------------------------------------------------
(* The start.                                                              *)

UINT32_T_MAX == 2 * MaxWindowSize + 1

DefaultSettings ==
    [header_table_size |-> 4096, enable_push |-> 1,
     max_concurrent_streams |-> UINT32_T_MAX, initial_window_size |-> 65535,
     max_frame_size |-> MinMaxFrameSize,
     max_header_list_size |-> UINT32_T_MAX]

Init ==
    /\ phase = "start" /\ upgrade \in BOOLEAN
    /\ settings = DefaultSettings
    /\ streams = <<>>
    /\ last_stream_id = 0 /\ request = 0 /\ peer = "up"
    /\ decoded = <<>> /\ received = <<>> /\ sent = <<>>
    /\ handed = <<>> /\ answers = <<>>

\* http2_apply_settings_frame: a later value of a setting wins.
Applied(p) ==
    LET Places(name) == {k \in Known(p) : NameAt(p, k) = name}
    IN  [name \in DOMAIN settings |->
            IF Places(name) = {} THEN settings[name]
            ELSE ValueAt(p, Max(Places(name)))]

\* get_start_settings_frame: one setting, header_table_size.  The length of
\* the payload is the number of settings (http2_send_settings_frame), so
\* that one byte of it is sent.
ServerPreface == ControlFrame("SETTINGS", 0, <<0>>)

SettingsAck == ControlFrame("SETTINGS", 0, <<>>)

\* The server's SETTINGS are sent before the client's are read.
StartDirect ==
    /\ phase = "start" /\ ~upgrade
    /\ phase' = "preface"
    /\ Send(<<ServerPreface>>)
    /\ UNCHANGED <<upgrade, context, request, peer, received, handed, answers>>

\* http2_process_h2c_upgrade up to the magic: the settings of the header of
\* the HTTP/1.1 request are applied and not acknowledged.
StartUpgrade ==
    /\ phase = "start" /\ upgrade
    /\ UNCHANGED received
    /\ \E p \in UpgradeSettings :
         IF SettingsError(p) = "NO_ERROR"
         THEN /\ phase' = "magic"
              /\ settings' = Applied(p)
              /\ Send(<<ServerPreface>>)
              /\ UNCHANGED <<upgrade, streams, last_stream_id, decoded,
                             request, peer, handed, answers>>
         ELSE Leave(<<ServerPreface, Goaway(SettingsError(p)), ErrorPage>>)

\* http2_receive_preface_with_magic: the 24 bytes of the client preface, or
\* other bytes, or none.
Magic ==
    /\ phase = "magic" /\ peer = "up"
    /\ phase' = "preface"
    /\ UNCHANGED <<upgrade, context, request, peer, received, sent, handed,
                   answers>>

MagicFails ==
    /\ phase = "magic"
    /\ \E e \in Errors : Leave(<<e>>)
    /\ UNCHANGED received

---------------------------------------------------------------------------
(* Frames: every action below is a frame f the reader parsed.              *)

\* Fault: a read that fails inside the loop is tried again.
ReadFailsAgain ==
    /\ phase = "preface"
    /\ \E e \in Errors : Leave(<<Goaway("INTERNAL_ERROR"), e>>)
    /\ UNCHANGED received

\* A read fails: the peer closed its side, or less than a frame arrived.
ReadFails ==
    /\ phase \in {"preface", "frames"}
    /\ \E e \in Errors : Leave(<<Goaway("INTERNAL_ERROR"), e>>)
    /\ UNCHANGED received

Refuse(f) ==
    /\ ParseError(f) # "NO_ERROR"
    /\ \E e \in Errors : Leave(<<Goaway(ParseError(f)), e>>)

\* The first frame has to be a SETTINGS frame.
RefuseFirst(f) ==
    /\ phase = "preface" /\ f.type # "SETTINGS"
    /\ ParseError(f) = "NO_ERROR"
    /\ \E e \in Errors : Leave(<<e>>)

\* A request is complete: handed to process_http_request.
Hand(id, headers, body) ==
    /\ phase' = "respond"
    /\ request' = id
    /\ handed' = Append(handed, [id |-> id, headers |-> headers,
                                 body |-> body, at |-> Len(received')])

\* Fault: a SETTINGS frame is acknowledged only when it changes something.
SettingsFrameQuiet(f) ==
    /\ f.type = "SETTINGS" /\ ParseError(f) = "NO_ERROR"
    /\ IF "ACK" \in f.flags
       THEN UNCHANGED <<settings, sent>>
       ELSE /\ settings' = Applied(f.payload)
            /\ Send(IF settings' = settings THEN <<>>
                    ELSE <<SettingsAck>>)
    /\ IF phase = "preface" /\ upgrade
       THEN /\ SetStream(1, Stream("HalfClosed", TRUE))
            /\ Hand(1, <<>>, <<>>)
       ELSE /\ phase' = "frames"
            /\ UNCHANGED <<streams, request, handed>>
    /\ UNCHANGED <<upgrade, last_stream_id, decoded, peer, answers>>

\* A SETTINGS frame; as the first one it ends the preface, and after an
\* upgrade the HTTP/1.1 request becomes that of stream 1.
SettingsFrame(f) ==
    /\ f.type = "SETTINGS" /\ ParseError(f) = "NO_ERROR"
    /\ IF "ACK" \in f.flags
       THEN UNCHANGED <<settings, sent>>
       ELSE /\ settings' = Applied(f.payload)
            /\ Send(<<SettingsAck>>)
    /\ IF phase = "preface" /\ upgrade
       THEN /\ SetStream(1, Stream("HalfClosed", TRUE))
            /\ Hand(1, <<>>, <<>>)
       ELSE /\ phase' = "frames"
            /\ UNCHANGED <<streams, request, handed>>
    /\ UNCHANGED <<upgrade, last_stream_id, decoded, peer, answers>>

\* What a frame in the loop of parse_http2_request may leave alone.
Stays == UNCHANGED <<phase, upgrade, settings, decoded, request, peer, handed,
                     answers>>

PingFrame(f) ==
    /\ f.type = "PING"
    /\ Send(IF "ACK" \in f.flags THEN <<>>
            ELSE <<ControlFrame("PING", 0, f.payload)>>)
    /\ Stays /\ UNCHANGED <<streams, last_stream_id>>

GoawayFrame(f) ==
    /\ f.type = "GOAWAY"
    /\ Leave(<<>>)

\* For a stream or for the connection: not used.
WindowUpdateFrame(f) ==
    /\ f.type = "WINDOW_UPDATE"
    /\ last_stream_id' = Max({last_stream_id, f.id})
    /\ Stays /\ UNCHANGED <<streams, sent>>

\* Fault: last_stream_id follows the frame instead of the largest id.
TouchLatest(id) == last_stream_id' = id

\* update_last_stream_id
Touch(id) == last_stream_id' = Max({last_stream_id, id})

\* Fault: a stream error closes every stream.
StreamErrorAll(id, code) ==
    /\ Send(<<Rst(id, code)>>)
    /\ streams' = [i \in DOMAIN streams |-> Closed(streams[i])]
    /\ Stays

\* A stream error: RST_STREAM, and the stream is closed if there is one.
StreamError(id, code) ==
    /\ Send(<<Rst(id, code)>>)
    /\ streams' = [i \in DOMAIN streams |->
                     IF i = id THEN Closed(streams[i]) ELSE streams[i]]
    /\ Stays

\* A push promise has id 0, and stream 0 is never open.
PushPromiseFrame(f) ==
    /\ f.type = "PUSH_PROMISE"
    /\ StreamError(0, "PROTOCOL_ERROR")
    /\ UNCHANGED last_stream_id

PriorityFrame(f) ==
    /\ f.type = "PRIORITY"
    /\ Touch(f.id)
    /\ IF f.id \in DOMAIN streams THEN UNCHANGED streams
       ELSE SetStream(f.id, Stream("Idle", FALSE))
    /\ Stays /\ UNCHANGED sent

RstStreamFrame(f) ==
    /\ f.type = "RST_STREAM"
    /\ Touch(f.id)
    /\ IF StateOf(f.id) = "Idle"
       THEN StreamError(f.id, "PROTOCOL_ERROR")
       ELSE /\ SetStream(f.id,
                  IF StateOf(f.id) = "HalfClosed" THEN Closed(streams[f.id])
                  ELSE [streams[f.id] EXCEPT !.state = "HalfClosed"])
            /\ Stays /\ UNCHANGED sent

\* parse_http2_headers: every needed pseudo header once, before the others.
HeadersOk(block) ==
    block # <<>> /\ block[1] = Pseudo /\ \A k \in 2..Len(block) : block[k] = Field

\* A stream has ended: its header block goes through the decompressor.  A
\* block that is refused ends the connection without a GOAWAY.
Finish(id, s) ==
    LET block == FlattenSeq(s.header_blocks)
    IN  /\ SetStream(id, [s EXCEPT !.state = "HalfClosed"])
        /\ decoded' = Append(decoded, [id |-> id, block |-> block])
        /\ IF HeadersOk(block)
           THEN /\ Hand(id, block, FlattenSeq(s.data_blocks))
                /\ UNCHANGED sent
           ELSE /\ phase' = "done"
                /\ Send(<<ErrorPage>>)
                /\ UNCHANGED <<request, handed>>
        /\ UNCHANGED <<upgrade, settings, peer, answers>>

\* A block was added: the stream has ended, or more is to come.
Continue(id, s) ==
    IF s.end_stream /\ s.headers_finished
    THEN Finish(id, s)
    ELSE SetStream(id, s) /\ Stays /\ UNCHANGED sent

\* HEADERS open a stream; one that a PRIORITY frame made stays idle.
HeadersFrame(f) ==
    /\ f.type = "HEADERS"
    /\ Touch(f.id)
    /\ LET known == f.id \in DOMAIN streams
           last == "END_STREAM" \in f.flags
           s == IF known
                THEN [streams[f.id] EXCEPT !.end_stream = @ \/ last]
                ELSE Stream("Open", last)
       IN  IF StateOf(f.id) # "Idle"
           THEN StreamError(f.id, "PROTOCOL_ERROR")
           ELSE IF s.headers_finished
           THEN /\ Send(<<Rst(f.id, "PROTOCOL_ERROR")>>)
                /\ SetStream(f.id, Closed(s))
                /\ Stays
           ELSE Continue(f.id, AddHeaderBlock(s, f))

ContinuationFrame(f) ==
    /\ f.type = "CONTINUATION"
    /\ Touch(f.id)
    /\ IF StateOf(f.id) \in {"Open", "Reserved"} /\
          ~streams[f.id].headers_finished /\ Content(f) # <<>>
       THEN Continue(f.id, AddHeaderBlock(streams[f.id], f))
       ELSE StreamError(f.id, "PROTOCOL_ERROR")

DataFrame(f) ==
    /\ f.type = "DATA"
    /\ Touch(f.id)
    /\ IF StateOf(f.id) \notin {"Open", "HalfClosed"}
       THEN StreamError(f.id, "STREAM_CLOSED")
       ELSE IF streams[f.id].end_stream \/ ~streams[f.id].headers_finished
       THEN StreamError(f.id, "PROTOCOL_ERROR")
       ELSE LET s == AddContentBlock(streams[f.id], f)
            IN  IF s.end_stream THEN Finish(f.id, s)
                ELSE SetStream(f.id, s) /\ Stays /\ UNCHANGED sent

FrameInLoop(f) ==
    /\ phase = "frames" /\ ParseError(f) = "NO_ERROR"
    /\ \/ PingFrame(f) \/ GoawayFrame(f) \/ WindowUpdateFrame(f)
       \/ PushPromiseFrame(f) \/ PriorityFrame(f) \/ RstStreamFrame(f)
       \/ HeadersFrame(f) \/ ContinuationFrame(f) \/ DataFrame(f)

Receive ==
    /\ phase \in {"preface", "frames"} /\ peer = "up"
    /\ Len(received) < MaxFrames
    /\ \E f \in Frames[Len(received) + 1] :
         /\ received' = Append(received, f)
         /\ \/ Refuse(f) \/ RefuseFirst(f) \/ SettingsFrame(f) \/ FrameInLoop(f)

---------------------------------------------------------------------------
(* Responses.                                                              *)

\* The chunks of n bytes: the loops of http2_send_headers and
\* http2_send_data.
Chunks(n, size) ==
    [k \in 1..((n + size - 1) \div size) |->
        [i \in 1..Min({size, n - (k - 1) * size}) |-> (k - 1) * size + i]]

\* get_max_headers_or_continuation_contentsize
HeaderLimit(s) == s.max_frame_size - AdditionalHeadersDataSize

\* get_max_data_content_size
DataLimit(s) == s.max_frame_size

Flag(name, set) == IF set THEN {name} ELSE {}

\* Http2RawHeader: the length of a frame has 24 bits.
HeaderLength(n) == n % (MaxMaxFrameSize + 1)

\* Fault: the frame goes out whatever its header says.
GoesAlways(f) == TRUE

\* http2_send_raw_frame refuses a frame that its header does not describe.
Goes(f) == f.length = Len(f.payload)

\* http2_send_headers: END_STREAM on the first when body.data is NULL.
HeaderFrames(id, r) ==
    LET c == Chunks(r.headers, HeaderLimit(settings))
    IN  [k \in DOMAIN c |->
            [type |-> IF k = 1 THEN "HEADERS" ELSE "CONTINUATION", id |-> id,
             flags |-> Flag("END_HEADERS", k = Len(c)) \cup
                       Flag("END_STREAM", k = 1 /\ r.null),
             length |-> HeaderLength(Len(c[k])), payload |-> c[k]]]

\* http2_send_data
DataFrames(id, r) ==
    LET c == Chunks(r.body, DataLimit(settings))
    IN  [k \in DOMAIN c |->
            [type |-> "DATA", id |-> id,
             flags |-> Flag("END_STREAM", k = Len(c)),
             length |-> HeaderLength(Len(c[k])), payload |-> c[k]]]

\* process_http_request with any response, of which n frames are sent: a
\* frame that is refused or a write that fails ends the response, is logged,
\* and the loop reads on.  It ends when the connection became a WebSocket's
\* or the listener could not be cancelled.
Respond ==
    /\ phase = "respond"
    /\ phase' \in {"frames", "done"}
    /\ request' = 0
    /\ \E r \in Responses :
         LET all == HeaderFrames(request, r) \o DataFrames(request, r)
         IN  \E n \in 0..Len(all) :
               /\ \A k \in 1..n : Goes(all[k])
               /\ peer = "gone" => n = 0
               /\ peer' = IF n < Len(all) /\ Goes(all[n + 1])
                          THEN "gone" ELSE peer
               /\ sent' = sent \o SubSeq(all, 1, n)
               /\ answers' = Append(answers,
                     [id |-> request, response |-> r, whole |-> n = Len(all),
                      limit |-> settings.max_frame_size])
    /\ UNCHANGED <<upgrade, context, received, handed>>

\* The response can not be built (construct_http2_response gives NULL):
\* nothing is sent.
RespondNot ==
    /\ phase = "respond"
    /\ phase' = "frames"
    /\ request' = 0
    /\ UNCHANGED <<upgrade, context, peer, received, sent, handed, answers>>

PeerLeaves ==
    /\ peer = "up" /\ phase # "done"
    /\ peer' = "gone"
    /\ UNCHANGED <<phase, upgrade, context, request, received, sent, handed,
                   answers>>

Next ==
    \/ StartDirect \/ StartUpgrade \/ Magic \/ MagicFails \/ ReadFails
    \/ Receive
    \/ Respond \/ RespondNot
    \/ PeerLeaves

\* The handler's thread runs on: it starts, it answers, and a read from a
\* peer that is gone returns.
Fairness ==
    /\ WF_vars(StartDirect \/ StartUpgrade)
    /\ WF_vars(Respond \/ RespondNot)
    /\ WF_vars(peer = "gone" /\ (MagicFails \/ ReadFails))

Spec == Init /\ [][Next]_vars /\ Fairness

---------------------------------------------------------------------------
(* Properties.                                                             *)

HeaderTypes == {"HEADERS", "CONTINUATION"}
MessageTypes == HeaderTypes \cup {"DATA"}

(* The connection's state keeps its types: stream 0 never gets an entry in *)
(* context->streams, settings stay within the limits that the checks of    *)
(* SETTINGS frames impose, and a request is being answered exactly while   *)
(* the handler is there to answer it.                                      *)
TypeOK ==
    /\ phase \in {"start", "magic", "preface", "frames", "respond", "done"}
    /\ upgrade \in BOOLEAN /\ peer \in {"up", "gone"}
    /\ settings \in [DOMAIN DefaultSettings -> Nat]
    /\ settings.max_frame_size \in MinMaxFrameSize..(MaxMaxFrameSize + 1)
    /\ \A id \in DOMAIN streams : id # 0 /\
         streams[id].state \in {"Idle", "Open", "HalfClosed", "Closed"}
    /\ last_stream_id \in Nat
    /\ (request # 0) = (phase = "respond")
    /\ Len(received) <= MaxFrames
    /\ \A k \in DOMAIN received : received[k] \in Frames[k]
    /\ Len(answers) <= Len(handed)

\* What a frame carries besides padding and priority.
Carried(f) ==
    LET padded == "PADDED" \in f.flags
        lead == (IF padded THEN 1 ELSE 0) +
                (IF "PRIORITY" \in f.flags THEN 5 ELSE 0)
        tail == IF padded THEN f.payload[1] ELSE 0
    IN  SubSeq(f.payload, lead + 1, Len(f.payload) - tail)

AllCarried(fs) == FlattenSeq([k \in DOMAIN fs |-> Carried(fs[k])])

\* The frames of fs with one of the types.
Part(fs, types) == Selected(Len(fs), {k \in DOMAIN fs : fs[k].type \in types}, fs)

\* The frames fs of a stream are one request: a header block, then data,
\* and only the end of the last part is marked as the end.
IsExchange(fs) ==
    LET hs == Part(fs, HeaderTypes)
        ds == Part(fs, {"DATA"})
        Ends(f) == "END_STREAM" \in f.flags
    IN  /\ hs # <<>> /\ hs[1].type = "HEADERS"
        /\ fs = hs \o ds
        /\ \A k \in DOMAIN hs :
             ("END_HEADERS" \in hs[k].flags) <=> k = Len(hs)
        /\ (ds = <<>>) <=> (\E k \in DOMAIN hs : Ends(hs[k]))
        /\ \A k \in DOMAIN ds : Ends(ds[k]) <=> k = Len(ds)

\* The HEADERS frames of a stream.
HeadersAt(id, k) == received[k].id = id /\ received[k].type = "HEADERS"

\* The message frames of a stream among the first n, from its first HEADERS.
MessageOf(id, n) ==
    Selected(n, {k \in 1..n : /\ received[k].id = id
                              /\ received[k].type \in MessageTypes
                              /\ \E j \in 1..k : HeadersAt(id, j)}, received)

(* A request that reaches the routes is exactly what its stream carried:   *)
(* one complete exchange, its header block and body the concatenation of   *)
(* its frames without padding and priority, whatever frames of other       *)
(* streams came between them (parse_http2_request).  So no stream carries  *)
(* two requests, also when frames arrive after it ended or was reset.      *)
RequestsAreWhole ==
    \A k \in DOMAIN handed :
        LET h == handed[k]
            fs == MessageOf(h.id, h.at)
        IN  \/ upgrade /\ h.id = 1 /\ k = 1
            \/ /\ ~(upgrade /\ h.id = 1)
               /\ IsExchange(fs)
               /\ h.headers = AllCarried(Part(fs, HeaderTypes))
               /\ h.body = AllCarried(Part(fs, {"DATA"}))

(* The connection's state is well formed, and the requests that come out   *)
(* of it are whole.                                                        *)
RequestsInv == TypeOK /\ RequestsAreWhole

(* What goes wrong on one stream stays there: once a peer has sent a       *)
(* complete exchange on a stream, and nothing else but window updates, the *)
(* request has been handed over, whatever happened on the other streams.   *)
RequestsAreServed ==
    phase \in {"frames", "respond"} =>
        \A id \in {received[k].id : k \in DOMAIN received} \ {0} :
            LET fs == Selected(Len(received),
                         {k \in DOMAIN received : received[k].id = id /\
                             received[k].type # "WINDOW_UPDATE"}, received)
            IN  /\ \A k \in DOMAIN fs : fs[k].type \in MessageTypes /\
                        (fs[k].type = "CONTINUATION" => fs[k].payload # <<>>)
                /\ Len(Part(fs, {"HEADERS"})) = 1
                /\ IsExchange(fs)
                /\ ~(upgrade /\ id = 1)
                => \E k \in DOMAIN handed : handed[k].id = id

(* A GOAWAY never invites a client to repeat a request that was served:    *)
(* its last stream id is at least that of every request handed over (but   *)
(* for the one of the upgrade, which update_last_stream_id does not see).  *)
GoawayCovers ==
    \A k \in DOMAIN sent : sent[k].type = "GOAWAY" =>
        \A j \in DOMAIN handed :
            \/ handed[j].id <= sent[k].value.last
            \/ upgrade /\ j = 1

(* Every SETTINGS and every PING frame that was taken is acknowledged,     *)
(* pings in order with their own data, also while header blocks and        *)
(* requests of other streams are under way.                                *)
AcknowledgesAll ==
    LET refused == \/ \E k \in DOMAIN sent : sent[k].type = "GOAWAY" /\
                          sent[k].value.code # "INTERNAL_ERROR"
                   \/ Len(received) = 1 /\ received[1].type # "SETTINGS"
        taken == IF refused THEN Len(received) - 1 ELSE Len(received)
        Asked(type) == {k \in 1..taken : received[k].type = type /\
                           "ACK" \notin received[k].flags}
        pings == Selected(Len(received), Asked("PING"),
                          [k \in Asked("PING") |-> received[k].payload])
        Acks(type) == {k \in DOMAIN sent : sent[k].type = type /\
                          sent[k] # ServerPreface}
        pongs == Selected(Len(sent), Acks("PING"),
                          [k \in Acks("PING") |-> sent[k].value])
        asked == Cardinality(Asked("SETTINGS"))
        acks == Cardinality(Acks("SETTINGS"))
    IN  IF peer = "up"
        THEN pongs = pings /\ acks = asked
        ELSE IsPrefix(pongs, pings) /\ acks <= asked

(* The frames of a response are ones a receiver with the peer's settings   *)
(* takes: each announces the bytes it has and has no more than allowed.    *)
(* As long as the peer is there they carry the whole header block and the  *)
(* whole body, and end the stream unless the body is an empty buffer that  *)
(* is not NULL.  The exception is a body that fills a frame of 2^24 bytes, *)
(* one more than a header can announce but a size that a SETTINGS frame    *)
(* may set (MAX_MAX_FRAME_SIZE + 1): http2_send_raw_frame refuses it.      *)
ResponsesAreWhole ==
    \A k \in DOMAIN answers :
        LET a == answers[k]
            fs == Selected(Len(sent),
                     {j \in DOMAIN sent : sent[j].type \in MessageTypes /\
                         sent[j].id = a.id}, sent)
        IN  /\ \A j \in DOMAIN fs :
                  /\ fs[j].length = Len(fs[j].payload)
                  /\ Len(fs[j].payload) <= a.limit
                  /\ fs[j].flags \subseteq Allowed(fs[j].type)
            /\ \/ peer = "gone" \/ a.whole
               \/ a.limit > MaxMaxFrameSize /\ a.response.body >= a.limit
            /\ a.whole /\ (a.response.null \/ a.response.body > 0) =>
                   IsExchange(fs)
            /\ a.whole =>
                   /\ AllCarried(Part(fs, HeaderTypes)) =
                         [j \in 1..a.response.headers |-> j]
                   /\ AllCarried(Part(fs, {"DATA"})) =
                         [j \in 1..a.response.body |-> j]

(* A peer that is there gets every response whole, for every frame size    *)
(* that http2_send_raw_frame can announce: no other one is taken from it,  *)
(* as "2^24-1 or 16,777,215" is the largest (MAX_MAX_FRAME_SIZE).          *)
ResponsesGetThrough ==
    peer = "up" => \A k \in DOMAIN answers : answers[k].whole

(* Header blocks are decoded in the order in which they were completed, as *)
(* the compression needs: "process the frame, if possible, otherwise do it *)
(* later (e.g. when the headers end)" (parse_http2_request).               *)
DecodedInOrder ==
    LET EndAt(id) == Min({k \in DOMAIN received :
                            received[k].id = id /\
                            received[k].type \in HeaderTypes /\
                            "END_HEADERS" \in received[k].flags})
    IN  \A j, k \in DOMAIN decoded :
            j < k => EndAt(decoded[j].id) < EndAt(decoded[k].id)

(* A peer that leaves, before, between or inside its frames or the frames  *)
(* of a response, ends the handler, which frees the worker.                *)
LeavingEndsHandler == peer = "gone" ~> phase = "done"
=============================================================================
