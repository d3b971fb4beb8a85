---------------------------- MODULE Http1Request ----------------------------
(***************************************************************************)
(* What the server makes of one HTTP/1 request: the request line and the   *)
(* header fields (http/parser.c), the route and its authorisation          *)
(* (http/routes.c, generic/authentication.c) and the WebSocket handshake   *)
(* (ws/ws.c, ws/extension.c).  Pure operators; texts are strings whose     *)
(* spelling means nothing but to the constants below.                      *)
(*                                                                         *)
(* A request line is <<"line", method, uri, version>>, a header field is   *)
(* <<"field", key, value>>; anything else is a line neither parser reads.  *)
(***************************************************************************)
EXTENDS Integers, Sequences

CONSTANTS
    Numerals,       \* function from the texts parse_u64 accepts to their numbers
    Routes,         \* sequence of [method, path, match, kind, auth], in the order of the table
    Below,          \* pairs <<p, q>> where the path q starts with the text p
    Verdicts        \* one function per provider, from credentials to its AuthenticationFindResult

ASSUME RequestAssumption ==
    /\ "none" \notin DOMAIN Numerals
    /\ \A text \in DOMAIN Numerals : Numerals[text] \in Nat
    /\ Len(Routes) \in Nat /\ Len(Verdicts) \in Nat

Methods == {"GET", "POST", "HEAD", "OPTIONS", "CONNECT", "PRI"}
Versions == {"HTTP/1.0", "HTTP/1.1", "HTTP/2.0"}

Method(line) == line[2]
Uri(line) == line[3]
Version(line) == line[4]

-----------------------------------------------------------------------------
(* The request line. *)

\* analyze_http2_preface, as far as it looks at the request line.
IsPrefaceLine(line) == Version(line) = "HTTP/2.0" /\ Method(line) = "PRI" /\ Uri(line) = "*"

\* The error the URI, the method or the version of the line leads to, in the
\* order in which parse_http1_request_line looks at them.
parse_http1_request_line(line) ==
    IF line[1] # "line" \/ Uri(line) = "invalid" THEN "Advanced"
    ELSE IF Method(line) \notin Methods THEN "MethodNotSupported"
    ELSE IF Version(line) \notin Versions THEN "InvalidHttpVersion"
    ELSE "None"

\* What parse_first_http_request does after the request line: read the rest of
\* the HTTP/2 preface, read header fields, or fail.  Neither "*" nor an
\* authority gets any further, whatever the method.
AfterRequestLine(line, protocol) ==
    LET http2 == IF IsPrefaceLine(line) THEN "Preface" ELSE "InvalidHttp2Preface" IN
    IF parse_http1_request_line(line) # "None" THEN parse_http1_request_line(line)
    ELSE IF protocol = "Http1Dot1" /\ Version(line) = "HTTP/2.0" THEN "InvalidHttpVersion"
    ELSE IF protocol = "Http2" \/ Version(line) = "HTTP/2.0" THEN http2
    ELSE IF Method(line) = "PRI" THEN "InvalidHttp2Preface"
    ELSE IF Uri(line) \in {"*", "authority"} THEN "Advanced"
    ELSE "Header"

-----------------------------------------------------------------------------
(* The header fields: how long is the body, what becomes of the connection. *)

NothingAnalyzed ==
    [error |-> "None", type |-> "NoBody", amount |-> 0, connection |-> "NothingSpecial",
     h2c |-> FALSE, both |-> FALSE, settings |-> FALSE]

Refused(a, e) == [a EXCEPT !.error = e]

AnalyzeContentLength(a, value) ==
    IF a.type # "NoBody" \/ value \notin DOMAIN Numerals THEN Refused(a, "ProtocolError")
    ELSE [a EXCEPT !.type = "ContentLength", !.amount = Numerals[value]]

AnalyzeTransferEncoding(a, value) ==
    IF a.type # "NoBody" THEN Refused(a, "ProtocolError")
    ELSE IF value # "chunked" THEN Refused(a, "NotSupported")
    ELSE [a EXCEPT !.type = "TransferEncoded"]

\* "close" replaces whatever length is known so far.
AnalyzeConnection(a, value) ==
    CASE value = "close" -> [a EXCEPT !.type = "Close"]
      [] value = "keep-alive" -> IF a.connection # "NothingSpecial" THEN Refused(a, "ProtocolError")
                                 ELSE [a EXCEPT !.connection = "KeepAlive"]
      [] value = "upgrade, http2-settings" -> [a EXCEPT !.both = TRUE]
      [] OTHER -> a

AnalyzeField(a, field) ==
    LET key == field[2] value == field[3] IN
    IF a.error # "None" THEN a
    ELSE CASE key = "content-length" -> AnalyzeContentLength(a, value)
           [] key = "transfer-encoding" -> AnalyzeTransferEncoding(a, value)
           [] key = "connection" -> AnalyzeConnection(a, value)
           [] key = "upgrade" -> IF value = "h2c" THEN [a EXCEPT !.h2c = TRUE] ELSE a
           [] key = "http2-settings" -> [a EXCEPT !.settings = value = "base64"]
           [] OTHER -> a

\* A body that goes on until the peer closes is only allowed in HTTP/1.0.
WithoutClose(a, version) ==
    IF a.type = "Close" /\ version # "HTTP/1.0" THEN [a EXCEPT !.type = "NoBody"] ELSE a

WithUpgrade(a) ==
    IF ~(a.both /\ a.h2c /\ a.settings) THEN a
    ELSE IF a.connection # "NothingSpecial" THEN Refused(a, "ProtocolError")
    ELSE [a EXCEPT !.connection = "UpgradeH2C"]

\* What is known after each of the fields.
AnalyzeFields(fields) ==
    LET upTo[i \in 0..Len(fields)] ==
            IF i = 0 THEN NothingAnalyzed ELSE AnalyzeField(upTo[i - 1], fields[i])
    IN  upTo

http_analyze_headers(line, fields) ==
    LET all == AnalyzeFields(fields)[Len(fields)]
    IN  IF all.error # "None" THEN all ELSE WithUpgrade(WithoutClose(all, Version(line)))

-----------------------------------------------------------------------------
(* The route and its authorisation. *)

\* The value of the first field with this key, or "none".
find_header_by_key(fields, key) ==
    LET places == {i \in 1..Len(fields) : fields[i][2] = key}
    IN  IF places = {} THEN "none"
        ELSE fields[CHOOSE i \in places : \A j \in places : i <= j][3]

is_matching(route, method) ==
    \/ route.method = "GET" /\ method \in {"GET", "HEAD"}
    \/ route.method = "POST" /\ method = "POST"

is_route_matching(route, path) ==
    CASE route.match = "any" -> TRUE
      [] route.match = "exact" -> route.path = path
      [] route.match = "starts with" -> <<route.path, path>> \in Below

\* The routes that fit the line.  OPTIONS and CONNECT have other properties than
\* "normal" and never get a route.
Matching(line) ==
    {i \in 1..Len(Routes) : /\ Method(line) \in {"GET", "POST", "HEAD"}
                            /\ is_matching(Routes[i], Method(line))
                            /\ is_route_matching(Routes[i], Uri(line))}

\* The route the request is given to, 0 for none.
route_manager_get_route_for_request(line) ==
    IF Matching(line) = {} THEN 0 ELSE CHOOSE i \in Matching(line) : \A j \in Matching(line) : i <= j

Rank(verdict) ==
    CASE verdict = "ok" -> 3
      [] verdict = "wrong password" -> 2
      [] verdict = "no such user" -> 1
      [] OTHER -> 0

\* The best of what the providers say, the first "ok" at once; an error when
\* there is no provider.
authentication_providers_find_user_with_password(credentials) ==
    LET answers == {Verdicts[i][credentials] : i \in 1..Len(Verdicts)} \cup {"error"}
    IN  CHOOSE v \in answers : \A w \in answers : Rank(w) <= Rank(v)

\* Fault: a wrong password ranks as high as the right one.
LaxAuthorization(fields) ==
    LET value == find_header_by_key(fields, "authorization") IN
    CASE value = "none" -> "Unauthorized"
      [] value = "malformed" -> "Error"
      [] OTHER -> IF Rank(authentication_providers_find_user_with_password(value)) >= 2
                  THEN "Authorized" ELSE "Unauthorized"

handle_http_authorization(fields) ==
    LET value == find_header_by_key(fields, "authorization") IN
    CASE value = "none" -> "Unauthorized"
      [] value = "malformed" -> "Error"
      [] OTHER -> CASE Rank(authentication_providers_find_user_with_password(value)) = 3 -> "Authorized"
                    [] Rank(authentication_providers_find_user_with_password(value)) = 0 -> "Error"
                    [] OTHER -> "Unauthorized"

\* The kind of route that is carried out: that of the table, or the internal
\* one that answers 401 or 500.
process_matched_route(i, fields) ==
    IF Routes[i].auth = "None" THEN Routes[i].kind
    ELSE CASE handle_http_authorization(fields) = "Authorized" -> Routes[i].kind
           [] handle_http_authorization(fields) = "Unauthorized" -> "internal 401"
           [] OTHER -> "internal 500"

-----------------------------------------------------------------------------
(* The WebSocket handshake. *)

\* The extensions the parser accepts in a value; others are passed over.  The
\* server's side has no_context_takeover unless told otherwise, which nothing can.
parse_ws_extensions(value) ==
    CASE value = "deflate" -> <<[client |-> FALSE, server |-> TRUE]>>
      [] value = "deflate, no takeover" -> <<[client |-> TRUE, server |-> TRUE]>>
      [] value = "two" -> <<[client |-> TRUE, server |-> TRUE], [client |-> TRUE, server |-> TRUE]>>
      [] OTHER -> << >>

are_extensions_supported(extensions) ==
    \/ extensions = << >>
    \/ Len(extensions) = 1 /\ extensions[1].client /\ extensions[1].server

NeededHeaders == {"host", "upgrade", "connection", "sec-websocket-key", "sec-websocket-version"}

\* The status a field of the handshake is refused with, 0 when it is not.
RefusedField(field) ==
    LET key == field[2] value == field[3] IN
    CASE key = "upgrade" /\ value # "websocket" -> 400
      [] key = "connection" /\ value \notin {"upgrade", "upgrade, http2-settings"} -> 426
      [] key = "sec-websocket-key" /\ value # "16 bytes" -> 400
      [] key = "sec-websocket-version" /\ value # "13" -> 400
      [] OTHER -> 0

\* The status the handshake is answered with.
handle_ws_handshake(fields) ==
    LET refused == {i \in 1..Len(fields) : RefusedField(fields[i]) # 0}
        found == {fields[i][2] : i \in 1..Len(fields)}
        offered[i \in 0..Len(fields)] ==
            IF i = 0 THEN << >>
            ELSE IF fields[i][2] = "sec-websocket-extensions"
                 THEN offered[i - 1] \o parse_ws_extensions(fields[i][3])
                 ELSE offered[i - 1]
    IN  IF refused # {} THEN RefusedField(fields[CHOOSE i \in refused : \A j \in refused : i <= j])
        ELSE IF "upgrade" \notin found THEN 426
        ELSE IF ~(NeededHeaders \subseteq found) THEN 400
        ELSE IF ~are_extensions_supported(offered[Len(fields)]) THEN 400
        ELSE 101
=============================================================================
