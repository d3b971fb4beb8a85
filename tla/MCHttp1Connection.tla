------------------------- MODULE MCHttp1Connection -------------------------
\* Instance of Http1Connection: a table of six routes, two providers, and
\* requests that differ in framing, line, authorisation, handshake or upgrade.
EXTENDS Http1Connection, TLC

MCNumerals == "0" :> 0 @@ "2" :> 2

MCRoutes ==
    <<[method |-> "GET", path |-> "/shutdown", match |-> "exact", kind |-> "shutdown", auth |-> "None"],
      [method |-> "GET", path |-> "/auth", match |-> "exact", kind |-> "executor with user", auth |-> "Simple"],
      [method |-> "GET", path |-> "/ws", match |-> "exact", kind |-> "ws", auth |-> "None"],
      [method |-> "POST", path |-> "/post", match |-> "exact", kind |-> "executor", auth |-> "None"],
      [method |-> "GET", path |-> "/other", match |-> "starts with", kind |-> "folder", auth |-> "Simple"],
      [method |-> "GET", path |-> "", match |-> "any", kind |-> "executor with user", auth |-> "None"]>>

MCBelow == {<<"/other", "/other">>, <<"/other", "/other/x">>}

\* A user of the first provider, one of the second, a wrong password, a stranger
\* and a user for whom both providers fail.
MCVerdicts ==
    <<"first" :> "ok" @@ "second" :> "no such user" @@ "wrong" :> "wrong password"
          @@ "stranger" :> "no such user" @@ "broken" :> "error",
      "first" :> "error" @@ "second" :> "ok" @@ "wrong" :> "no such user"
          @@ "stranger" :> "error" @@ "broken" :> "error">>

F(key, value) == <<"field", key, value>>
L(method, uri, version) == <<"line", method, uri, version>>
Bytes(n) == [i \in 1..n |-> Byte]
In(lines, fields, bodies, protocols) ==
    [line : lines, fields : fields, body : bodies, protocol : protocols]

Framing == {F("content-length", "2"), F("content-length", "0"), F("content-length", "junk"),
            F("transfer-encoding", "chunked"), F("transfer-encoding", "gzip"),
            F("connection", "close"), F("connection", "keep-alive"), <<"no colon">>}

FramingInputs ==
    In({L("POST", "/post", "HTTP/1.1"), L("POST", "/post", "HTTP/1.0"), L("GET", "/free", "HTTP/1.1")},
       {<< >>} \cup {<<f>> : f \in Framing} \cup (Framing \X Framing), {Bytes(n) : n \in {0, 2, 3}}, {"None"})

LineInputs ==
    In({<<"junk">>, L("GET", "invalid", "HTTP/1.1"), L("BREW", "/auth", "HTTP/1.1"),
        L("GET", "/auth", "HTTP/3.0"), L("GET", "/auth", "HTTP/2.0"), L("PRI", "/auth", "HTTP/1.1"),
        L("PRI", "*", "HTTP/2.0"), L("OPTIONS", "*", "HTTP/1.1"), L("GET", "authority", "HTTP/1.1"),
        L("OPTIONS", "/auth", "HTTP/1.1"), L("CONNECT", "/auth", "HTTP/1.1"), L("HEAD", "/ws", "HTTP/1.1"),
        L("POST", "/ws", "HTTP/1.1"), L("HEAD", "/shutdown", "HTTP/1.1")},
       {<< >>}, {<< >>, <<<<"SM">>, CR, LF, CR, LF>>, Bytes(5)}, {"None", "Http1Dot1", "Http2"})

AuthInputs ==
    In({L("GET", "/auth", "HTTP/1.1"), L("HEAD", "/auth", "HTTP/1.1"), L("GET", "/other/x", "HTTP/1.1")},
       {<<F("authorization", c)>> : c \in {"malformed"} \cup DOMAIN MCVerdicts[1]}
           \cup {<<F("authorization", "wrong"), F("authorization", "first")>>, << >>},
       {<< >>}, {"None"})

Offer == <<F("host", "here"), F("upgrade", "websocket"), F("connection", "upgrade"),
           F("sec-websocket-key", "16 bytes"), F("sec-websocket-version", "13")>>
Without(i) == SubSeq(Offer, 1, i - 1) \o SubSeq(Offer, i + 1, 5)

HandshakeInputs ==
    In({L("GET", "/ws", "HTTP/1.1")},
       {Offer} \cup {Without(i) : i \in 1..5}
           \cup {Append(Offer, f) : f \in {F("upgrade", "h2c"), F("connection", "close"),
                     F("sec-websocket-key", "junk"), F("sec-websocket-version", "8")}}
           \cup {Append(Offer, F("sec-websocket-extensions", e)) :
                     e \in {"deflate", "deflate, no takeover", "two", "unknown"}},
       {<< >>}, {"None"})

Upgrade == <<F("upgrade", "h2c"), F("connection", "upgrade, http2-settings"), F("http2-settings", "base64")>>

UpgradeInputs ==
    In({L("POST", "/post", "HTTP/1.1")},
       {Upgrade, Append(Upgrade, F("connection", "keep-alive")), Append(Upgrade, F("content-length", "2")),
        Append(Upgrade, F("http2-settings", "junk"))},
       {<< >>, Bytes(2)}, {"None"})

MCInputs == FramingInputs \cup LineInputs \cup AuthInputs \cup HandshakeInputs \cup UpgradeInputs
=============================================================================
