-------------------------- MODULE Http1Connection --------------------------
(***************************************************************************)
(* One connection from http_socket_connection_handler's first line to its  *)
(* last (http/server.c), read through the reader of http/parser.c and the  *)
(* buffered reader, and answered once as HTTP/1, handed to the HTTP/2 code *)
(* (module Http2Connection) or to the WebSocket manager (module WsManager).*)
(*                                                                         *)
(* The client's bytes are symbols: a request line, a header field, CR, LF  *)
(* or one byte of a body.  They arrive in pieces of any size; the client   *)
(* may stop sending after any of them and half close, or reset.  The       *)
(* server's reads block, and it never looks at what it has not read.       *)
(***************************************************************************)
EXTENDS BufferedReader, Http1Request

CONSTANT
    Inputs          \* what clients send: records [line, fields, body, protocol]

IsSequence(s) == s \in Seq({s[k] : k \in DOMAIN s})

\* A line and a field are one symbol each, with nothing that ends a line in it,
\* and every provider has a verdict about the credentials clients send.
ASSUME InputsAssumption ==
    \A i \in Inputs :
        /\ i.line \notin {CR, LF}
        /\ IsSequence(i.fields) /\ IsSequence(i.body)
        /\ \A k \in 1..Len(i.fields) :
              LET f == i.fields[k] IN
              /\ f \notin {CR, LF}
              /\ f[1] = "field" =>
                    /\ f = <<"field", f[2], f[3]>>
                    /\ f[2] = "authorization" /\ f[3] \notin {"none", "malformed"} =>
                          \A v \in 1..Len(Verdicts) : f[3] \in DOMAIN Verdicts[v]

VARIABLES
    sent,           \* the member of Inputs this client sends
    stream,         \* its symbols
    last,           \* how many of them it gets to send
    client,         \* "open", "shut" (it has half closed) or "reset"
    reader,         \* BufferedReader
    scan,           \* get_until_delimiter: start_cursor and delimiter_index
    pc,             \* where the handler is
    http,           \* HTTPReader: its state and the version of its context
    request,        \* what was parsed: line, fields, body
    analyze,        \* HTTPAnalyzeHeaders
    result,         \* HttpRequestResult: "Ok" or the kind of error
    responses,      \* status codes written to the connection
    executed,       \* the route that was carried out, 0 for none
    owner,          \* who has to close the descriptor
    job             \* the JobError of the handler

input == <<sent, stream>>
parse == <<scan, request, analyze>>
answer == <<responses, executed, owner, job>>
vars == <<sent, stream, last, client, reader, scan, pc, http, request, analyze,
          result, responses, executed, owner, job>>

Byte == <<"byte">>

\* Symbols of the preface behind its request line.
PrefaceRest == <<CR, LF, <<"SM">>, CR, LF, CR, LF>>

\* The symbols of a request.
Encode(i) ==
    LET lines == <<i.line>> \o i.fields
        header == [k \in 1..(3 * Len(lines)) |->
                      <<lines[(k + 2) \div 3], CR, LF>>[((k - 1) % 3) + 1]]
    IN  header \o <<CR, LF>> \o i.body

Init ==
    /\ sent \in Inputs
    /\ stream = Encode(sent)
    /\ last = Len(stream)
    /\ client = "open"
    /\ reader = get_buffered_reader
    /\ scan = [start |-> 0, index |-> 0]
    /\ pc = "start"
    /\ http = [state |-> "Empty", context |-> "V1"]
    /\ request = [line |-> << >>, fields |-> << >>, body |-> << >>]
    /\ analyze = NothingAnalyzed
    /\ result = "Ok"
    /\ responses = << >>
    /\ executed = 0
    /\ owner = "handler"
    /\ job = "None"

-----------------------------------------------------------------------------
(* The client. *)

Over == pc \in {"ended", "undefined"}

\* The client stops after any symbol it may already have sent, and half closes.
ClientShuts ==
    /\ client = "open" /\ ~Over
    /\ client' = "shut"
    /\ last' \in reader.size..last
    /\ UNCHANGED <<input, reader, pc, http, result, parse, answer>>

ClientResets ==
    /\ client # "reset" /\ ~Over
    /\ client' = "reset"
    /\ UNCHANGED <<input, last, reader, pc, http, result, parse, answer>>

-----------------------------------------------------------------------------
(* Reading from the connection. *)

\* How many symbols the read the handler is in asks for, 0 outside of a read.
\* A line is read by the chunk, a body of known length and the preface to the
\* byte, a body without length until the end.
Wanted ==
    CASE pc \in {"line", "field"} -> IF reader.cursor >= reader.size THEN Chunk ELSE 0
      [] pc = "preface" -> Len(PrefaceRest) - get_available_data_length(reader)
      [] pc = "body" /\ analyze.type = "ContentLength" ->
             analyze.amount - get_available_data_length(reader)
      [] pc = "body" /\ analyze.type = "Close" -> Chunk
      [] OTHER -> 0

Reading == reader.state = "Open" /\ Wanted > 0

\* Fault: a delimiter that is cut by the end of the buffer is not recognised.
ReceiveForgets ==
    /\ Reading /\ client # "reset"
    /\ \E n \in 1..Wanted : /\ reader.size + n <= last
                            /\ reader' = get_more_data_partially(reader, n)
    /\ scan' = [scan EXCEPT !.index = 0]
    /\ UNCHANGED <<input, last, client, pc, http, request, analyze, result, answer>>

\* read returns some of the symbols that have arrived.
Receive ==
    /\ Reading /\ client # "reset"
    /\ \E n \in 1..Wanted : /\ reader.size + n <= last
                            /\ reader' = get_more_data_partially(reader, n)
    /\ UNCHANGED <<input, last, client, pc, http, result, parse, answer>>

\* Fault: the end of the stream is taken for an empty read.
EndOfStreamAgain ==
    /\ Reading /\ client = "shut" /\ reader.size = last
    /\ UNCHANGED vars

\* read returns 0.
EndOfStream ==
    /\ Reading /\ client = "shut" /\ reader.size = last
    /\ reader' = [reader EXCEPT !.state = "Closed"]
    /\ UNCHANGED <<input, last, client, pc, http, result, parse, answer>>

\* read fails.
ReadError ==
    /\ Reading /\ client = "reset"
    /\ reader' = [reader EXCEPT !.state = "Error"]
    /\ UNCHANGED <<input, last, client, pc, http, result, parse, answer>>

-----------------------------------------------------------------------------
(* Parsing.  Ready and Parsed end get_http_request. *)

Ready(r) == /\ result' = r /\ pc' = "ready"

\* The end of parse_first_http_request after parse_http1_request has returned r
\* with this reader: symbols that are in the buffer and belong to no request
\* make it 411, whatever r is.
Parsed(r, rd) ==
    IF has_more_data(rd)
    THEN http' = [http EXCEPT !.state = "End"] /\ Ready(r)
    ELSE http' = [http EXCEPT !.state = "Error"] /\ Ready("LengthRequired")

\* What comes before the first request succeeds.
Start ==
    /\ pc = "start"
    /\ pc' = "line"
    /\ http' = [http EXCEPT !.state = "Reading"]
    /\ UNCHANGED <<input, last, client, reader, result, parse, answer>>

\* The early returns: the thread's name cannot be formatted, the handler for
\* SIGPIPE cannot be set up (which returns no JobError at all), or
\* get_connection_descriptor fails.  The file descriptor is left to nobody.
StartErrors == {"StringFormat", "NULL", "Desc"}

StartFails ==
    /\ pc = "start"
    /\ pc' = "ended" /\ job' \in StartErrors /\ owner' = "nobody"
    /\ UNCHANGED <<input, last, client, reader, http, result, parse, responses, executed>>

\* The response is written unless the client has reset the connection.
Send(status) == responses' = IF client = "reset" THEN responses ELSE Append(responses, status)

\* There is no memory for the reader: 500, and finish_reader is called with
\* NULL, which it dereferences.
StartWithoutReader ==
    /\ pc = "start"
    /\ pc' = "undefined" /\ Send(500)
    /\ UNCHANGED <<input, last, client, reader, http, result, parse, executed, owner, job>>

\* The next symbol of a line is looked at, and does not end the line.
ScanSymbol ==
    LET index == delimiter_step(scan.index, stream[reader.cursor + 1]) IN
    /\ pc \in {"line", "field"} /\ reader.state = "Open" /\ reader.cursor < reader.size
    /\ index < Len(Delimiter)
    /\ scan' = [scan EXCEPT !.index = index]
    /\ reader' = [reader EXCEPT !.cursor = @ + 1]
    /\ UNCHANGED <<input, last, client, pc, http, request, analyze, result, answer>>

\* The symbol under the cursor ends the line.
EndsLine ==
    /\ reader.state = "Open" /\ reader.cursor < reader.size
    /\ delimiter_step(scan.index, stream[reader.cursor + 1]) = Len(Delimiter)

\* The text of the line that ends.
Text == SubSeq(stream, scan.start + 1, reader.cursor + 1 - Len(Delimiter))

\* The cursor and the scan go to the start of the next line.
NextLine ==
    /\ reader' = [reader EXCEPT !.cursor = @ + 1]
    /\ scan' = [start |-> reader.cursor + 1, index |-> 0]

\* The request line.
RequestLine ==
    LET line == IF Len(Text) = 1 THEN Text[1] ELSE <<"junk">>
        next == AfterRequestLine(line, sent.protocol)
    IN  /\ pc = "line" /\ EndsLine
        /\ NextLine
        /\ CASE next = "Header" -> /\ pc' = "field"
                                   /\ request' = [request EXCEPT !.line = line]
                                   /\ UNCHANGED result
             [] next = "Preface" -> pc' = "preface" /\ UNCHANGED <<request, result>>
             [] OTHER -> Ready(next) /\ UNCHANGED request
        /\ UNCHANGED <<input, last, client, http, analyze, answer>>

\* The connection ends or fails before the request line has.
RequestLineFails ==
    /\ pc = "line" /\ reader.state # "Open"
    /\ Ready("Advanced")
    /\ UNCHANGED <<input, last, client, reader, http, parse, answer>>

\* The seven symbols behind the request line of a preface: the connection is
\* an HTTP/2 connection from here on.
Preface ==
    /\ pc = "preface" /\ reader.state = "Open" /\ Wanted <= 0
    /\ reader' = [reader EXCEPT !.cursor = @ + Len(PrefaceRest)]
    /\ IF SubSeq(stream, reader.cursor + 1, reader.cursor + Len(PrefaceRest)) = PrefaceRest
       THEN /\ http' = [http EXCEPT !.context = "V2"]
            /\ owner' = "http2" /\ pc' = "ended"
            /\ UNCHANGED result
       ELSE Ready("InvalidHttp2Preface") /\ UNCHANGED <<http, owner>>
    /\ UNCHANGED <<input, last, client, parse, responses, executed, job>>

PrefaceFails ==
    /\ pc = "preface" /\ reader.state # "Open"
    /\ Ready("InvalidHttp2Preface")
    /\ UNCHANGED <<input, last, client, reader, http, parse, answer>>

\* The field in a line that has a colon; more than the field in the line spoils
\* its value.
FieldOf(text) ==
    IF Len(text) = 1 THEN text[1]
    ELSE <<"field", IF text[1][1] = "field" THEN text[1][2] ELSE "spoilt", "spoilt">>

\* One header field.
HeaderField ==
    /\ pc = "field" /\ EndsLine /\ Text # << >>
    /\ NextLine
    /\ IF \E i \in 1..Len(Text) : Text[i][1] = "field"
       THEN /\ request' = [request EXCEPT !.fields = Append(@, FieldOf(Text))]
            /\ UNCHANGED <<http, pc, result>>
       ELSE Parsed("Advanced", reader') /\ UNCHANGED request
    /\ UNCHANGED <<input, last, client, analyze, answer>>

\* The empty line behind the last field.
EndOfHeader ==
    LET a == http_analyze_headers(request.line, request.fields) IN
    /\ pc = "field" /\ EndsLine /\ Text = << >>
    /\ NextLine
    /\ analyze' = a
    /\ IF a.error = "None" THEN pc' = "body" /\ UNCHANGED <<http, result>>
                           ELSE Parsed(a.error, reader')
    /\ UNCHANGED <<input, last, client, request, answer>>

HeaderFails ==
    /\ pc = "field" /\ reader.state # "Open"
    /\ Parsed("Advanced", reader)
    /\ UNCHANGED <<input, last, client, reader, parse, answer>>

\* parse_http1_request once the body is there: the method has to allow one, and
\* an upgrade to h2c is answered and leaves the connection to the HTTP/2 code.
WithBody(body, rd) ==
    /\ reader' = rd
    /\ request' = [request EXCEPT !.body = body]
    /\ IF Method(request.line) \in {"GET", "HEAD", "OPTIONS"} /\ body # << >>
       THEN Parsed("InvalidNonEmptyBody", rd) /\ UNCHANGED <<responses, owner>>
       ELSE IF analyze.connection # "UpgradeH2C"
       THEN Parsed("Ok", rd) /\ UNCHANGED <<responses, owner>>
       ELSE IF client = "reset"
       THEN Parsed("Advanced", rd) /\ UNCHANGED <<responses, owner>>
       ELSE /\ Send(101)
            /\ http' = [http EXCEPT !.context = "V2"]
            /\ owner' = "http2" /\ pc' = "ended"
            /\ UNCHANGED result
    /\ UNCHANGED <<input, last, client, scan, analyze, executed, job>>

\* buffered_reader_get_amount has what it needs, or nothing is to be read.
Body ==
    LET amount == IF analyze.type = "ContentLength" THEN analyze.amount ELSE 0 IN
    /\ pc = "body" /\ analyze.type \in {"ContentLength", "NoBody"}
    /\ reader.state = "Open" /\ Wanted <= 0
    /\ WithBody(SubSeq(stream, reader.cursor + 1, reader.cursor + amount),
                [reader EXCEPT !.cursor = @ + amount])

\* buffered_reader_get_until_end has met the end.
BodyUntilEnd ==
    /\ pc = "body" /\ analyze.type = "Close" /\ reader.state = "Closed"
    /\ WithBody(SubSeq(stream, reader.cursor + 1, reader.size),
                [reader EXCEPT !.cursor = reader.size])

\* The body cannot be read: the connection is gone, or the body is chunked.
BodyFails ==
    /\ pc = "body"
    /\ \/ analyze.type = "TransferEncoded"
       \/ analyze.type = "ContentLength" /\ reader.state # "Open"
       \/ analyze.type = "Close" /\ reader.state = "Error"
    /\ Parsed("Advanced", reader)
    /\ UNCHANGED <<input, last, client, reader, parse, answer>>

-----------------------------------------------------------------------------
(* Answering. *)

ErrorStatus(e) ==
    CASE e = "InvalidHttpVersion" -> 505
      [] e = "MethodNotSupported" -> 405
      [] e = "LengthRequired" -> 411
      [] OTHER -> 400

\* Fault: the handler goes on with the connection after an error.
ErrorStays ==
    /\ pc = "ready" /\ result # "Ok"
    /\ Send(ErrorStatus(result)) /\ pc' = "loop"
    /\ UNCHANGED <<input, last, client, reader, http, result, parse, executed, owner, job>>

\* process_http_error, after which the connection is cleaned up.  An invalid
\* preface is answered with a GOAWAY frame whose stream is read from the HTTP/2
\* context: there is none, and the NULL pointer is dereferenced.
process_http_error ==
    /\ pc = "ready" /\ result # "Ok"
    /\ IF result = "InvalidHttp2Preface" THEN pc' = "undefined" /\ UNCHANGED responses
                                         ELSE pc' = "cleanup" /\ Send(ErrorStatus(result))
    /\ UNCHANGED <<input, last, client, reader, http, result, parse, executed, owner, job>>

Handling == pc = "ready" /\ result = "Ok"
Route == route_manager_get_route_for_request(request.line)
Kind == process_matched_route(Route, request.fields)

\* No route fits.
NoRoute ==
    /\ Handling /\ Route = 0
    /\ Send(IF Method(request.line) \in {"OPTIONS", "CONNECT"} THEN 200 ELSE 404)
    /\ pc' = "loop"
    /\ UNCHANGED <<input, last, client, reader, http, result, parse, executed, owner, job>>

\* The internal answers of process_matched_route, and those of the special
\* routes to a method they do not take.
Internal ==
    /\ Handling /\ Route # 0
    /\ \/ Kind = "internal 401" /\ Send(401)
       \/ Kind = "internal 500" /\ Send(500)
       \/ Kind = "shutdown" /\ Method(request.line) \notin {"GET", "HEAD"} /\ Send(405)
       \/ Kind = "ws" /\ Method(request.line) # "GET" /\ Send(405)
    /\ pc' = "loop"
    /\ UNCHANGED <<input, last, client, reader, http, result, parse, executed, owner, job>>

\* The shutdown route answers and then cancels the listener, which may be gone.
Shutdown ==
    /\ Handling /\ Route # 0 /\ Kind = "shutdown" /\ Method(request.line) \in {"GET", "HEAD"}
    /\ Send(200) /\ executed' = Route
    /\ \/ pc' = "loop" /\ UNCHANGED job
       \/ pc' = "cleanup" /\ job' = "ThreadCancel"
    /\ UNCHANGED <<input, last, client, reader, http, result, parse, owner>>

\* route_manager_execute_route; a route that wants a user answers 500 without one.
execute_route ==
    /\ Handling /\ Route # 0 /\ Kind \in {"executor", "executor with user"}
    /\ IF Kind = "executor with user" /\ Routes[Route].auth = "None"
       THEN Send(500) /\ UNCHANGED executed
       ELSE Send(200) /\ executed' = Route
    /\ pc' = "loop"
    /\ UNCHANGED <<input, last, client, reader, http, result, parse, owner, job>>

\* A folder is served, as the file system lets it.
ServeFolder ==
    /\ Handling /\ Route # 0 /\ Kind = "folder"
    /\ \E status \in {200, 404, 500} : Send(status)
    /\ executed' = Route
    /\ pc' = "loop"
    /\ UNCHANGED <<input, last, client, reader, http, result, parse, owner, job>>

\* A handshake that fails is answered; the connection is closed as any other.
HandshakeFails ==
    LET status == handle_ws_handshake(request.fields) IN
    /\ Handling /\ Route # 0 /\ Kind = "ws" /\ Method(request.line) = "GET"
    /\ status # 101 \/ client = "reset"
    /\ Send(status) /\ pc' = "loop"
    /\ UNCHANGED <<input, last, client, reader, http, result, parse, executed, owner, job>>

\* The handshake is answered with 101, the buffered reader is released and the
\* connection is given to the thread manager, which may fail to take it: then
\* nobody closes it.
Handshake ==
    /\ Handling /\ Route # 0 /\ Kind = "ws" /\ Method(request.line) = "GET"
    /\ handle_ws_handshake(request.fields) = 101 /\ client # "reset"
    /\ Send(101) /\ executed' = Route /\ pc' = "cleanup"
    /\ \/ owner' = "websocket" /\ UNCHANGED job
       \/ owner' = "nobody" /\ job' = "ConnectionAdd"
    /\ UNCHANGED <<input, last, client, reader, http, result, parse>>

\* http_reader_more_available: an HTTP/1 connection that goes on, and there is
\* none, would be told that it cannot.
Loop ==
    /\ pc = "loop"
    /\ IF http.state = "Reading" THEN Ready("Advanced") ELSE pc' = "cleanup" /\ UNCHANGED result
    /\ UNCHANGED <<input, last, client, reader, http, parse, answer>>

\* finish_reader: the descriptor is closed unless it was released; closing may fail.
Cleanup ==
    /\ pc = "cleanup"
    /\ pc' = "ended"
    /\ \/ owner' = (IF owner = "handler" THEN "closed" ELSE owner) /\ UNCHANGED job
       \/ owner = "handler" /\ owner' = "nobody" /\ job' = "Close"
    /\ UNCHANGED <<input, last, client, reader, http, result, parse, responses, executed>>

Handler ==
    \/ Receive \/ EndOfStream \/ ReadError
    \/ Start \/ StartFails \/ StartWithoutReader
    \/ ScanSymbol \/ RequestLine \/ RequestLineFails \/ Preface \/ PrefaceFails
    \/ HeaderField \/ EndOfHeader \/ HeaderFails \/ Body \/ BodyUntilEnd \/ BodyFails
    \/ process_http_error \/ NoRoute \/ Internal \/ Shutdown \/ execute_route
    \/ ServeFolder \/ HandshakeFails \/ Handshake \/ Loop \/ Cleanup

Next == Handler \/ ClientShuts \/ ClientResets

\* The handler's thread goes on as long as it can.  The client owes nothing.
Spec == Init /\ [][Next]_vars /\ WF_vars(Handler)

-----------------------------------------------------------------------------
(* Properties *)

\* A connection that has ended was answered exactly once, unless the client has
\* reset it or it is an HTTP/2 connection by prior knowledge, and never more
\* than once; and it was closed, or belongs to the HTTP/2 code or the WebSocket
\* manager.  It belongs to nobody only if the handler has returned before its
\* first read, or thread_manager_add_connection or close has failed.  About the
\* goto cleanup of every path of http_socket_connection_handler.
AnsweredOnce ==
    /\ Len(responses) <= 1
    /\ pc = "ended" =>
         /\ \/ Len(responses) = 1 \/ client = "reset" \/ job \in StartErrors
            \/ owner = "http2" /\ request.line = << >>
         /\ owner \in {"closed", "http2", "websocket"} \/ job \in StartErrors \cup {"ConnectionAdd", "Close"}

\* The body a request with these fields has when no field says "close".
DeclaredBody(i) ==
    LET length == find_header_by_key(i.fields, "content-length")
    IN  IF length \in DOMAIN Numerals THEN SubSeq(i.body, 1, Numerals[length]) ELSE << >>

\* However its symbols arrive, a request that is handed to the routes is the one
\* the client has sent: its line, all its fields in order, and as body the
\* beginning of what the client sent behind them, of the length its fields
\* declare, or, with "connection: close" and no declared length, everything until
\* the client has closed in HTTP/1.0 and nothing otherwise.  (How long the body of
\* a request with both is, is what DeclaredBodyIsRead is about.)  About
\* get_until_delimiter, get_amount and get_until_end across reads.
RequestIsTheClients ==
    Handling =>
        LET closes == \E i \in 1..Len(sent.fields) : sent.fields[i] = <<"field", "connection", "close">>
            declares == find_header_by_key(sent.fields, "content-length") \in DOMAIN Numerals
            whole == SubSeq(stream, Len(stream) - Len(sent.body) + 1, last)
        IN  /\ request.line = sent.line
            /\ request.fields = sent.fields
            /\ \E n \in 0..Len(sent.body) : request.body = SubSeq(sent.body, 1, n)
            /\ ~closes => request.body = DeclaredBody(sent)
            /\ closes /\ ~declares =>
                  request.body = IF Version(sent.line) = "HTTP/1.0" THEN whole ELSE << >>

\* A route is carried out only if it is the first of the table that fits, and one
\* that wants authorisation only if some provider has accepted the credentials
\* the client sent first.  About route_manager_get_route_for_request,
\* process_matched_route and the providers' ranking.
AuthorisedOnly ==
    executed # 0 =>
        LET route == Routes[executed]
            fits(r) == is_matching(r, Method(sent.line)) /\ is_route_matching(r, Uri(sent.line))
            credentials == find_header_by_key(sent.fields, "authorization")
        IN  /\ fits(route)
            /\ \A i \in 1..(executed - 1) : ~fits(Routes[i])
            /\ route.auth # "None" =>
                 \E i \in 1..Len(Verdicts) : /\ credentials \in DOMAIN Verdicts[i]
                                             /\ Verdicts[i][credentials] = "ok"

\* A client that has half closed or reset the connection, wherever it is in its
\* request, gets the handler to its end, so that its worker is free again.  (A
\* client that stays and sends nothing keeps it for ever: there is no time-out.)
LeavingEndsHandler == (client # "open") ~> Over

\* parser.c says that "the body length is determined as given by this rfc entry":
\* section 6.3 of RFC 9112 makes the length of a request's body that of its
\* Content-Length, and knows no field that takes it back.  So a request that
\* declares a length is handed to the routes with that body.
DeclaredBodyIsRead ==
    Handling /\ find_header_by_key(sent.fields, "content-length") \in DOMAIN Numerals =>
        request.body = DeclaredBody(sent)
=============================================================================
