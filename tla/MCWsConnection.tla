--------------------------- MODULE MCWsConnection ---------------------------
(* Frames for model-checking WsConnection.                                 *)
EXTENDS WsConnection

Frame(ops, fins, rsvs, payloads) ==
    {[op |-> o, fin |-> n, rsv |-> r, payload |-> p] :
        o \in ops, n \in fins, r \in rsvs, p \in payloads}

Many(n) == [i \in 1..n |-> 97]

\* "a", the two halves of a two-byte character, nothing, and "a" deflated.
SmallPayloads == {<<>>, <<97>>, <<195>>, <<169>>, <<Mark, 97>>}

ControlFrames ==
    Frame({Ping}, {TRUE}, {0, Rsv1}, {<<98>>})
      \cup Frame({Pong, 11}, {TRUE}, {0}, {<<>>})
      \cup Frame({Ping, Close}, {FALSE}, {0}, {<<>>})
      \cup Frame({Ping}, {TRUE}, {0}, {Many(125), Many(126)})

CloseFrames ==
    Frame({Close}, {TRUE}, {0},
          {<<>>, <<3>>, CodeBytes(1000), CodeBytes(1005),
           CodeBytes(3000) \o <<97>>, CodeBytes(1001) \o <<195>>,
           CodeBytes(5000)})

\* Without permessage-deflate, with it, and with it and fragments of 16 bytes.
PlainArgs == [deflate |-> FALSE, fragment_option |-> "auto", param |-> 20]
DeflateArgs == [deflate |-> TRUE, fragment_option |-> "off", param |-> 0]
BothArgs == [deflate |-> TRUE, fragment_option |-> "set", param |-> 16]
EitherArgs == {PlainArgs, DeflateArgs, BothArgs}
CuttingArgs == {BothArgs}

\* Every kind of frame, and messages that are cut.
AllFrames ==
    Frame({Cont, Text}, BOOLEAN, {0, Rsv1}, SmallPayloads)
      \cup Frame({Bin}, BOOLEAN, {0, Rsv1}, {<<195>>, <<Mark, 97>>})
      \cup Frame({Text, 3}, {TRUE}, {0, 2}, {<<97>>})
      \cup ControlFrames \cup CloseFrames
      \cup Frame({Bin}, {TRUE}, {0}, {Many(n) : n \in {15, 16, 17, 32, 33}})
      \cup Frame({Bin}, {TRUE}, {Rsv1}, {<<Mark>> \o Many(n) : n \in {14, 15}})

\* Compressed messages of just under one, of one and of two fragments.
LongFrames ==
    Frame({Text}, {TRUE}, {Rsv1}, {<<Mark>> \o Many(n) : n \in {14, 15, 31}})
=============================================================================
