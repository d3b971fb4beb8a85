------------------------- MODULE MCHttp2Connection -------------------------
(* Frames and responses for model-checking Http2Connection.  The sizes are *)
(* small: a frame holds 10 bytes, or up to 13 once a peer allows it.       *)
EXTENDS Http2Connection

Frame(type, ids, flags, payloads) ==
    {[type |-> type, id |-> i, flags |-> g, payload |-> p] :
        i \in ids, g \in flags, p \in payloads}

Zeros(n) == [i \in 1..n |-> 0]
Setting(id, value) == <<id, value>> \o Zeros(4)

EndH == {"END_HEADERS"}
EndS == {"END_STREAM"}
Both == EndH \cup EndS

\* Two streams: every way to begin, to continue and to end a request.
MessageFrames ==
    Frame("HEADERS", {1}, {{}, EndS, EndH, Both}, {<<Pseudo>>})
      \cup Frame("HEADERS", {3}, {EndH, Both}, {<<Pseudo>>})
      \cup Frame("CONTINUATION", {1}, {EndH}, {<<Field>>})
      \cup Frame("DATA", {1, 3}, {EndS}, {<<7>>})
      \cup Frame("DATA", {1}, {{}}, {<<7>>})

\* Padding, priority, and blocks that are refused.
OtherMessageFrames ==
    Frame("HEADERS", {3}, {Both \cup {"PADDED", "PRIORITY"}},
          {<<1>> \o Zeros(5) \o <<Pseudo, 0>>})
      \cup Frame("CONTINUATION", {1}, {EndH}, {<<>>})
      \cup Frame("DATA", {1}, {EndS \cup {"PADDED"}}, {<<1, 8, 0>>})

ConnectionFrames ==
    Frame("SETTINGS", {0}, {{}}, {<<>>, Setting(5, 13)})
      \cup Frame("SETTINGS", {0}, {{"ACK"}}, {<<>>})
      \cup Frame("PING", {0}, {{}, {"ACK"}}, {Zeros(8)})

StreamFrames ==
    Frame("RST_STREAM", {1}, {{}}, {Zeros(4)})
      \cup Frame("PRIORITY", {1}, {{}}, {Zeros(5)})
      \cup Frame("WINDOW_UPDATE", {5}, {{}}, {Zeros(4)})
      \cup Frame("PUSH_PROMISE", {0}, {{}}, {Zeros(4)})

\* Frames that end the connection.
LastFrames ==
    Frame("GOAWAY", {0}, {{}}, {Zeros(8)})
      \cup Frame("HEADERS", {3}, {Both}, {<<Field>>})
      \cup Frame("DATA", {1}, {EndS \cup {"PADDED"}}, {<<2, 8, 0>>})
      \cup Frame("DATA", {1}, {{}}, {Zeros(11)})
      \cup Frame("UNKNOWN", {0}, {{}}, {<<>>})
      \cup Frame("SETTINGS", {0}, {{}}, {Setting(4, 65537), Setting(5, 9)})
      \cup Frame("PRIORITY", {1}, {{}}, {Zeros(4)})

\* The preface, a frame that may begin a request, any frame, one that may go
\* on with a request and one that may end it.
Preface ==
    Frame("SETTINGS", {0}, {{}}, {<<>>})
      \cup Frame("PING", {0}, {{}}, {Zeros(8)})

Beginning ==
    {f \in MessageFrames : f.type = "HEADERS"}
      \cup Frame("RST_STREAM", {1}, {{}}, {Zeros(4)})
      \cup Frame("PRIORITY", {1}, {{}}, {Zeros(5)})
      \cup Frame("CONTINUATION", {1}, {EndH}, {<<Field>>})

AnyFrame ==
    MessageFrames \cup OtherMessageFrames \cup ConnectionFrames
      \cup StreamFrames \cup LastFrames

GoingOn == MessageFrames \cup Frame("RST_STREAM", {1}, {{}}, {Zeros(4)})

Ending == {f \in MessageFrames : "END_STREAM" \in f.flags}

AllFrames == <<Preface, Beginning, AnyFrame, GoingOn, Ending>>

SomeSettings == {Setting(5, 12), Setting(2, 2)}

\* 10 - 6 = 4 bytes of a header block fit into a frame, 10 of a body.
SomeResponses ==
    {[headers |-> 9, body |-> 0, null |-> TRUE],
     [headers |-> 1, body |-> 13, null |-> FALSE],
     [headers |-> 1, body |-> 0, null |-> FALSE]}

OrderFrames ==
    <<Frame("SETTINGS", {0}, {{}}, {<<>>}), MessageFrames, MessageFrames,
      MessageFrames>>

\* A peer that allows the largest frames the code accepts.
SizeFrames ==
    <<Frame("SETTINGS", {0}, {{}}, {Setting(5, 12), Setting(5, 13)}),
      MessageFrames, MessageFrames>>

OneResponse == {[headers |-> 1, body |-> 1, null |-> FALSE]}
NoSettings == {<<>>}
=============================================================================
