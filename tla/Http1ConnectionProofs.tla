----------------------- MODULE Http1ConnectionProofs -----------------------
(***************************************************************************)
(* An HTTP/1 connection is answered once, its request is read as the       *)
(* client sent it however the symbols arrive, and its route is carried out *)
(* only if it is the first that fits and authorised: for any chunk size,   *)
(* any table of routes, any providers and any requests of any length.      *)
(***************************************************************************)
EXTENDS Http1Connection, WellFoundedInduction, TLAPS

-----------------------------------------------------------------------------
(* The inductive invariant.                                                *)

\* Where the header of a request ends in the stream.
HeaderSize == 3 * Len(sent.fields) + 5

Readers == [size : Nat, cursor : Nat, state : {"Open", "Closed", "Error"}]

\* The reader has read no more than the client has sent, handed out no more
\* than it has read, and met the end only at the end.
StreamInv ==
    /\ sent \in Inputs
    /\ stream = Encode(sent)
    /\ client \in {"open", "shut", "reset"}
    /\ reader \in Readers
    /\ last \in Nat /\ last <= Len(stream)
    /\ reader.cursor <= reader.size /\ reader.size <= last
    /\ reader.state = "Closed" => client # "open" /\ reader.size = last

Places == {"start", "line", "preface", "field", "body", "ready", "loop", "cleanup",
           "ended", "undefined"}

\* Where the handler is in its answer.
AnswerInv ==
    /\ pc \in Places
    /\ http \in [state : {"Empty", "Reading", "End", "Error"}, context : {"V1", "V2"}]
    /\ responses = << >> \/ responses = <<responses[1]>>
    /\ pc \in {"start", "line", "preface", "field", "body", "ready"} => responses = << >>
    /\ pc \in {"loop", "cleanup"} => Len(responses) = 1 \/ client = "reset"
    /\ pc \notin {"cleanup", "ended"} => owner = "handler"
    /\ pc = "cleanup" => owner \in {"handler", "websocket"} \/ job = "ConnectionAdd"
    /\ pc \in {"start", "line", "preface"} => request.line = << >>
    /\ Handling \/ pc = "loop" => http.state # "Reading"
    /\ AnsweredOnce

\* How many lines the scan has left behind, how long the one it is in is
\* (the line behind the last field is empty), and how much of it was seen.
LinesRead == IF pc = "field" THEN Len(request.fields) + 1 ELSE 0
TextSize == IF LinesRead <= Len(sent.fields) THEN 1 ELSE 0
Seen == reader.cursor - scan.start

AllFields == \A i \in 1..Len(sent.fields) : sent.fields[i][1] = "field"

\* Where the scan for the end of a line is: the delimiter is half seen exactly
\* behind CR, and what was parsed is what the client has sent so far.
ScanInv ==
    /\ scan \in [start : Nat, index : {0, 1}]
    /\ request = [line |-> request.line, fields |-> request.fields, body |-> request.body]
    /\ pc = "start" => reader.cursor = 0
    /\ pc \in {"start", "line", "field"} =>
          /\ scan.start = 3 * LinesRead
          /\ Seen \in 0..(TextSize + 1)
          /\ scan.index = IF Seen = TextSize + 1 THEN 1 ELSE 0
    /\ pc \in {"start", "line"} => request.fields = << >>
    /\ pc = "field" =>
          LET k == Len(request.fields)
          IN  /\ request.line = sent.line
              /\ k \in 0..Len(sent.fields)
              /\ request.fields = SubSeq(sent.fields, 1, k)
              /\ \A i \in 1..k : sent.fields[i][1] = "field"
    /\ pc = "body" =>
          /\ request.line = sent.line
          /\ request.fields = sent.fields
          /\ AllFields
          /\ reader.cursor = HeaderSize
          /\ analyze = http_analyze_headers(sent.line, sent.fields)
          /\ analyze.error = "None"

SaysClose == \E i \in 1..Len(sent.fields) : sent.fields[i] = <<"field", "connection", "close">>

\* A request as the code hands it over: "close" decides over a declared length.
Handed(line, fields, body, end) ==
    /\ line = sent.line
    /\ fields = sent.fields
    /\ body = IF ~SaysClose THEN DeclaredBody(sent)
              ELSE IF Version(sent.line) = "HTTP/1.0"
                   THEN SubSeq(stream, Len(stream) - Len(sent.body) + 1, end)
              ELSE << >>
    /\ \E n \in 0..Len(sent.body) : body = SubSeq(sent.body, 1, n)

\* A request that is handed to the routes.  The client cannot cut a body that
\* ends with the stream any more: it has ended the stream.
RequestInv ==
    Handling =>
        /\ Handed(request.line, request.fields, request.body, last)
        /\ AllFields
        /\ SaysClose /\ Version(sent.line) = "HTTP/1.0" => client # "open"

IInv == StreamInv /\ AnswerInv /\ ScanInv /\ RequestInv /\ AuthorisedOnly
-----------------------------------------------------------------------------
(* The answer.                                                             *)

LEMMA FirstResponse ==
  ASSUME NEW r
  PROVE  Append(<< >>, r) = <<r>> /\ Len(<<r>>) = 1 /\ <<r>>[1] = r
OBVIOUS

\* No request line makes the handler answer a request that was not read.
LEMMA RequestLineIsNoRequest ==
  ASSUME NEW line, NEW protocol
  PROVE  AfterRequestLine(line, protocol) # "Ok"
BY DEF AfterRequestLine, parse_http1_request_line

\* Every step keeps the handler on a path with one answer.
LEMMA AnswerStep == AnswerInv /\ [Next]_vars => AnswerInv'
<1> SUFFICES ASSUME AnswerInv, [Next]_vars PROVE AnswerInv'
  OBVIOUS
<1>1. ASSUME NEW status, Send(status), responses = << >>
      PROVE  /\ responses' = << >> \/ responses' = <<responses'[1]>>
             /\ Len(responses') <= 1
             /\ client # "reset" => Len(responses') = 1
  BY <1>1, FirstResponse DEF Send
<1>2. \A line, protocol : AfterRequestLine(line, protocol) # "Ok"
  BY RequestLineIsNoRequest
<1>3. CASE Receive
  BY <1>3
     DEF Receive, AnswerInv, AnsweredOnce, Handling, Places, vars, input,
         parse, answer
<1>4. CASE EndOfStream
  BY <1>4
     DEF EndOfStream, AnswerInv, AnsweredOnce, Handling, Places, vars, input,
         parse, answer
<1>5. CASE ReadError
  BY <1>5
     DEF ReadError, AnswerInv, AnsweredOnce, Handling, Places, vars, input,
         parse, answer
<1>6. CASE ClientShuts
  BY <1>6
     DEF ClientShuts, Over, AnswerInv, AnsweredOnce, Handling, Places, vars,
         input, parse, answer
<1>7. CASE ClientResets
  BY <1>7
     DEF ClientResets, Over, AnswerInv, AnsweredOnce, Handling, Places, vars,
         input, parse, answer
<1>8. CASE Start
  BY <1>8
     DEF Start, AnswerInv, AnsweredOnce, Handling, Places, vars, input, parse,
         answer
<1>9. CASE StartFails
  BY <1>9
     DEF StartFails, StartErrors, AnswerInv, AnsweredOnce, Handling, Places,
         vars, input, parse, answer
<1>10. CASE ScanSymbol
  BY <1>10
     DEF ScanSymbol, AnswerInv, AnsweredOnce, Handling, Places, vars, input,
         parse, answer
<1>11. CASE RequestLineFails
  BY <1>11
     DEF RequestLineFails, Ready, AnswerInv, AnsweredOnce, Handling, Places,
         vars, input, parse, answer
<1>12. CASE Preface
  BY <1>12
     DEF Preface, Ready, AnswerInv, AnsweredOnce, Handling, Places, vars,
         input, parse, answer
<1>13. CASE PrefaceFails
  BY <1>13
     DEF PrefaceFails, Ready, AnswerInv, AnsweredOnce, Handling, Places, vars,
         input, parse, answer
<1>14. CASE HeaderField
  BY <1>14
     DEF HeaderField, NextLine, Parsed, Ready, AnswerInv, AnsweredOnce,
         Handling, Places, vars, input, parse, answer
<1>15. CASE EndOfHeader
  BY <1>15
     DEF EndOfHeader, NextLine, Parsed, Ready, AnswerInv, AnsweredOnce,
         Handling, Places, vars, input, parse, answer
<1>16. CASE HeaderFails
  BY <1>16
     DEF HeaderFails, Parsed, Ready, AnswerInv, AnsweredOnce, Handling, Places,
         vars, input, parse, answer
<1>17. CASE BodyFails
  BY <1>17
     DEF BodyFails, Parsed, Ready, AnswerInv, AnsweredOnce, Handling, Places,
         vars, input, parse, answer
<1>18. CASE Loop
  BY <1>18
     DEF Loop, Ready, AnswerInv, AnsweredOnce, Handling, Places, vars, input,
         parse, answer
<1>19. CASE Cleanup
  BY <1>19
     DEF Cleanup, AnswerInv, AnsweredOnce, Handling, Places, vars, input,
         parse, answer
<1>20. CASE StartWithoutReader
  BY <1>20, <1>1
     DEF StartWithoutReader, AnswerInv, AnsweredOnce, Handling, Places, vars,
         input, parse, answer
<1>21. CASE process_http_error
  BY <1>21, <1>1
     DEF process_http_error, AnswerInv, AnsweredOnce, Handling, Places, vars,
         input, parse, answer
<1>22. CASE NoRoute
  BY <1>22, <1>1
     DEF NoRoute, AnswerInv, AnsweredOnce, Handling, Places, vars, input,
         parse, answer
<1>23. CASE Internal
  BY <1>23, <1>1
     DEF Internal, AnswerInv, AnsweredOnce, Handling, Places, vars, input,
         parse, answer
<1>24. CASE Shutdown
  BY <1>24, <1>1
     DEF Shutdown, AnswerInv, AnsweredOnce, Handling, Places, vars, input,
         parse, answer
<1>25. CASE execute_route
  BY <1>25, <1>1
     DEF execute_route, AnswerInv, AnsweredOnce, Handling, Places, vars, input,
         parse, answer
<1>26. CASE ServeFolder
  BY <1>26, <1>1
     DEF ServeFolder, AnswerInv, AnsweredOnce, Handling, Places, vars, input,
         parse, answer
<1>27. CASE HandshakeFails
  BY <1>27, <1>1
     DEF HandshakeFails, AnswerInv, AnsweredOnce, Handling, Places, vars,
         input, parse, answer
<1>28. CASE Handshake
  BY <1>28, <1>1
     DEF Handshake, AnswerInv, AnsweredOnce, Handling, Places, vars, input,
         parse, answer
<1>29. CASE RequestLine
  BY <1>29, <1>2
     DEF RequestLine, NextLine, Ready, AnswerInv, AnsweredOnce, Handling, Places, vars, input, parse, answer
<1>30. ASSUME NEW body, NEW rd, WithBody(body, rd), pc = "body" PROVE AnswerInv'
  BY <1>30, <1>1
     DEF WithBody, Parsed, Ready, AnswerInv, AnsweredOnce, Handling, Places, vars, input, parse, answer
<1>31. CASE Body
  BY <1>31, <1>30 DEF Body
<1>32. CASE BodyUntilEnd
  BY <1>32, <1>30 DEF BodyUntilEnd
<1>33. CASE UNCHANGED vars
  BY <1>33 DEF AnswerInv, AnsweredOnce, Handling, Places, vars, input, parse, answer
<1> QED
  BY <1>3, <1>4, <1>5, <1>6, <1>7, <1>8, <1>9, <1>10, <1>11, <1>12, <1>13,
     <1>14, <1>15, <1>16, <1>17, <1>18, <1>19, <1>20, <1>21, <1>22,
     <1>23, <1>24, <1>25, <1>26, <1>27, <1>28, <1>29, <1>31, <1>32,
     <1>33
     DEF Next, Handler
-----------------------------------------------------------------------------
(* The stream.                                                             *)

LEMMA FunctionIsSeq ==
  ASSUME NEW S, NEW m \in Nat, NEW f \in [1..m -> S]
  PROVE  f \in Seq(S) /\ Len(f) = m
OBVIOUS

LEMMA OneOfSeq ==
  ASSUME NEW S, NEW s \in Seq(S), NEW m \in 1..Len(s)
  PROVE  Len(SubSeq(s, m, m)) = 1 /\ SubSeq(s, m, m)[1] = s[m]
OBVIOUS

\* What is where in the stream of a request.
LEMMA EncodeFacts ==
  ASSUME NEW i \in Inputs
  PROVE  LET n == Len(i.fields) IN
         /\ n \in Nat /\ Len(i.body) \in Nat
         /\ IsSequence(Encode(i))
         /\ Len(Encode(i)) = 3 * n + 5 + Len(i.body)
         /\ Encode(i)[1] = i.line /\ Encode(i)[2] = CR /\ Encode(i)[3] = LF
         /\ \A k \in 1..n : /\ Encode(i)[3 * k + 1] = i.fields[k]
                            /\ Encode(i)[3 * k + 2] = CR
                            /\ Encode(i)[3 * k + 3] = LF
         /\ Encode(i)[3 * n + 4] = CR /\ Encode(i)[3 * n + 5] = LF
         /\ \A k \in 1..Len(i.body) : Encode(i)[3 * n + 5 + k] = i.body[k]
<1> DEFINE n == Len(i.fields)
           lines == <<i.line>> \o i.fields
           header == [k \in 1..(3 * Len(lines)) |->
                        <<lines[(k + 2) \div 3], CR, LF>>[((k - 1) % 3) + 1]]
           all == header \o <<CR, LF>> \o i.body
<1>1. IsSequence(i.fields) /\ IsSequence(i.body)
  BY InputsAssumption
<1>2. PICK S : i.fields \in Seq(S) /\ i.body \in Seq(S) /\ i.line \in S
                /\ CR \in S /\ LF \in S
  <2>1. i.fields \in Seq({i.fields[k] : k \in DOMAIN i.fields})
    BY <1>1 DEF IsSequence
  <2>2. i.body \in Seq({i.body[k] : k \in DOMAIN i.body})
    BY <1>1 DEF IsSequence
  <2> DEFINE S == {i.fields[k] : k \in DOMAIN i.fields}
                    \cup {i.body[k] : k \in DOMAIN i.body} \cup {i.line, CR, LF}
  <2>3. i.fields \in Seq(S) /\ i.body \in Seq(S) /\ i.line \in S /\ CR \in S /\ LF \in S
    BY <2>1, <2>2
  <2> QED
    BY <2>3
<1>3. n \in Nat /\ Len(i.body) \in Nat
  BY <1>2
<1>4. /\ lines \in Seq(S) /\ Len(lines) = n + 1
      /\ lines[1] = i.line /\ \A k \in 1..n : lines[k + 1] = i.fields[k]
  BY <1>2
<1> HIDE DEF n, lines
<1>5. \A k \in 0..n : /\ header[3 * k + 1] = lines[k + 1]
                      /\ header[3 * k + 2] = CR
                      /\ header[3 * k + 3] = LF
  <2> SUFFICES ASSUME NEW k \in 0..n
               PROVE  /\ header[3 * k + 1] = lines[k + 1]
                      /\ header[3 * k + 2] = CR
                      /\ header[3 * k + 3] = LF
    OBVIOUS
  <2>1. /\ 3 * k + 1 \in 1..(3 * Len(lines))
        /\ 3 * k + 2 \in 1..(3 * Len(lines))
        /\ 3 * k + 3 \in 1..(3 * Len(lines))
    BY <1>3, <1>4
  <2>2. /\ (3 * k + 1 + 2) \div 3 = k + 1
        /\ ((3 * k + 1 - 1) % 3) + 1 = 1
        /\ ((3 * k + 2 - 1) % 3) + 1 = 2
        /\ ((3 * k + 3 - 1) % 3) + 1 = 3
    BY <1>3
  <2> QED
    BY <2>1, <2>2
<1>6. header \in Seq(S) /\ Len(header) = 3 * n + 3
  <2>1. 3 * Len(lines) = 3 * n + 3 /\ 3 * n + 3 \in Nat
    BY <1>3, <1>4
  <2>2. ASSUME NEW k \in 1..(3 * n + 3) PROVE header[k] \in S
    <3>1. (k + 2) \div 3 \in 1..(n + 1)
      BY <1>3, <2>2
    <3>2. ((k - 1) % 3) + 1 \in {1, 2, 3}
      BY <1>3, <2>2
    <3>3. lines[(k + 2) \div 3] \in S
      BY <1>4, <3>1
    <3>4. header[k] = <<lines[(k + 2) \div 3], CR, LF>>[((k - 1) % 3) + 1]
      BY <2>1, <2>2
    <3>5. \A e \in {1, 2, 3} : <<lines[(k + 2) \div 3], CR, LF>>[e] \in S
      BY <1>2, <3>3
    <3> QED
      BY <3>2, <3>4, <3>5
  <2>3. header \in [1..(3 * n + 3) -> S]
    BY <2>1, <2>2
  <2> HIDE DEF header
  <2> QED
    BY <2>1, <2>3, FunctionIsSeq
<1> HIDE DEF header
<1>7. /\ all \in Seq(S)
      /\ Len(all) = 3 * n + 5 + Len(i.body)
      /\ \A k \in 1..(3 * n + 3) : all[k] = header[k]
      /\ all[3 * n + 4] = CR /\ all[3 * n + 5] = LF
      /\ \A k \in 1..Len(i.body) : all[3 * n + 5 + k] = i.body[k]
  <2> DEFINE head == header \o <<CR, LF>>
  <2>1. <<CR, LF>> \in Seq(S) /\ Len(<<CR, LF>>) = 2
    BY <1>2
  <2>2. head \in Seq(S) /\ Len(head) = 3 * n + 5
    BY <1>3, <1>6, <2>1
  <2>3. \A k \in 1..(3 * n + 3) : head[k] = header[k]
    BY <1>3, <1>6, <2>1
  <2>4. head[3 * n + 4] = CR /\ head[3 * n + 5] = LF
    BY <1>3, <1>6, <2>1
  <2> HIDE DEF head
  <2>5. all = head \o i.body
    BY DEF head
  <2>6. /\ head \o i.body \in Seq(S)
        /\ Len(head \o i.body) = 3 * n + 5 + Len(i.body)
        /\ \A k \in 1..(3 * n + 5) : (head \o i.body)[k] = head[k]
        /\ \A k \in 1..Len(i.body) : (head \o i.body)[3 * n + 5 + k] = i.body[k]
    <3>1. PICK len : len = 3 * n + 5
      OBVIOUS
    <3>2. PICK body : body = i.body
      OBVIOUS
    <3>3. head \in Seq(S) /\ Len(head) = len /\ body \in Seq(S)
      BY <1>2, <2>2, <3>1, <3>2
    <3>4. /\ head \o body \in Seq(S)
          /\ Len(head \o body) = Len(head) + Len(body)
          /\ \A k \in 1..Len(head) : (head \o body)[k] = head[k]
          /\ \A k \in 1..Len(body) : (head \o body)[Len(head) + k] = body[k]
      BY <3>3
    <3> QED
      BY <1>3, <3>1, <3>2, <3>3, <3>4
  <2> HIDE DEF all
  <2>7. \A k \in 1..(3 * n + 3) : k \in 1..(3 * n + 5)
    BY <1>3
  <2>8. 3 * n + 4 \in 1..(3 * n + 5) /\ 3 * n + 5 \in 1..(3 * n + 5)
    BY <1>3
  <2> QED
    BY <2>3, <2>4, <2>5, <2>6, <2>7, <2>8
<1>8. Encode(i) = all
  BY DEF Encode, lines, header
<1> HIDE DEF all
<1>9. \A k \in 0..n : /\ all[3 * k + 1] = lines[k + 1]
                      /\ all[3 * k + 2] = CR
                      /\ all[3 * k + 3] = LF
  <2>1. \A k \in 0..n : /\ 3 * k + 1 \in 1..(3 * n + 3)
                        /\ 3 * k + 2 \in 1..(3 * n + 3)
                        /\ 3 * k + 3 \in 1..(3 * n + 3)
    BY <1>3
  <2> QED
    BY <1>5, <1>7, <2>1
<1>10. all[1] = i.line /\ all[2] = CR /\ all[3] = LF
  <2>1. 0 \in 0..n /\ 3 * 0 + 1 = 1 /\ 3 * 0 + 2 = 2 /\ 3 * 0 + 3 = 3 /\ 0 + 1 = 1
    BY <1>3
  <2>2. /\ all[3 * 0 + 1] = lines[0 + 1]
        /\ all[3 * 0 + 2] = CR /\ all[3 * 0 + 3] = LF
    BY <1>9, <2>1
  <2> QED
    BY <1>4, <2>1, <2>2
<1>11. \A k \in 1..n : /\ all[3 * k + 1] = i.fields[k]
                       /\ all[3 * k + 2] = CR
                       /\ all[3 * k + 3] = LF
  BY <1>3, <1>4, <1>9
<1>12. IsSequence(all)
  BY <1>7 DEF IsSequence
<1> QED
  BY <1>3, <1>7, <1>8, <1>10, <1>11, <1>12 DEF n
-----------------------------------------------------------------------------
(* Induction over the natural numbers, for sets: the least number that is  *)
(* not in the set would have a predecessor in it.                          *)

LEMMA LeastNat ==
  ASSUME NEW T \in SUBSET Nat, T # {}
  PROVE  \E x \in T : \A y \in T : x <= y
<1> DEFINE R == OpToRel(<, Nat)
<1>1. IsWellFoundedOn(R, Nat)
  BY NatLessThanWellFounded, Zenon
<1>2. \A x, y \in Nat : y < x => <<y, x>> \in R
  BY DEF OpToRel
<1> HIDE DEF R
<1>3. PICK x \in T : \A y \in T : ~ (<<y, x>> \in R)
  BY <1>1, WFMin
<1>4. \A y \in T : ~(y < x)
  BY <1>2, <1>3
<1>5. \A y \in T : x <= y
  BY <1>4
<1> QED
  BY <1>5

LEMMA NatSetInduction ==
  ASSUME NEW S \in SUBSET Nat, 0 \in S, \A n \in S : n + 1 \in S
  PROVE  S = Nat
<1> SUFFICES ASSUME Nat \ S # {} PROVE FALSE
  OBVIOUS
<1>1. PICK x \in Nat \ S : \A y \in Nat \ S : x <= y
  BY LeastNat
<1>2. x # 0 /\ x - 1 \in Nat /\ ~(x <= x - 1) /\ (x - 1) + 1 = x
  BY <1>1
<1>3. x - 1 \in S
  BY <1>1, <1>2
<1> QED
  BY <1>2, <1>3

-----------------------------------------------------------------------------
(* The header fields.                                                      *)

\* The recursive function of http_analyze_headers exists: it is put together
\* field by field.
LEMMA AnalyzeFieldsDef ==
  ASSUME NEW fields, Len(fields) \in Nat
  PROVE  LET upTo == AnalyzeFields(fields) IN
         upTo = [i \in 0..Len(fields) |->
                    IF i = 0 THEN NothingAnalyzed ELSE AnalyzeField(upTo[i - 1], fields[i])]
<1> DEFINE n == Len(fields)
           Upto(g, k) == g = [i \in 0..k |-> IF i = 0 THEN NothingAnalyzed
                                             ELSE AnalyzeField(g[i - 1], fields[i])]
           S == {k \in Nat : \E g : Upto(g, k)}
<1>1. 0 \in S
  <2>1. Upto([i \in 0..0 |-> NothingAnalyzed], 0)
    OBVIOUS
  <2> QED
    BY <2>1
<1>2. ASSUME NEW k \in S PROVE k + 1 \in S
  <2>1. k \in Nat
    OBVIOUS
  <2>2. PICK g : Upto(g, k)
    OBVIOUS
  <2> DEFINE h == [i \in 0..(k + 1) |-> IF i <= k THEN g[i]
                                        ELSE AnalyzeField(g[k], fields[k + 1])]
  <2>3. ASSUME NEW i \in 0..(k + 1)
        PROVE  h[i] = IF i = 0 THEN NothingAnalyzed ELSE AnalyzeField(h[i - 1], fields[i])
    <3>1. CASE i = 0
      BY <2>1, <2>2, <3>1
    <3>2. CASE i # 0 /\ i <= k
      <4>1. i \in 0..k /\ i - 1 \in 0..k /\ i - 1 \in 0..(k + 1) /\ i - 1 <= k
        BY <2>1, <3>2
      <4>2. h[i] = g[i] /\ h[i - 1] = g[i - 1]
        BY <3>2, <4>1
      <4>3. g[i] = AnalyzeField(g[i - 1], fields[i])
        BY <2>2, <3>2, <4>1
      <4> QED
        BY <3>2, <4>2, <4>3
    <3>3. CASE i = k + 1
      <4>1. ~(k + 1 <= k) /\ i # 0 /\ i - 1 = k /\ k <= k /\ k \in 0..(k + 1)
        BY <2>1, <3>3
      <4>2. h[i] = AnalyzeField(g[k], fields[k + 1]) /\ h[k] = g[k]
        BY <3>3, <4>1
      <4> QED
        BY <3>3, <4>1, <4>2
    <3> QED
      BY <2>1, <3>1, <3>2, <3>3
  <2>4. Upto(h, k + 1)
    <3>1. h = [i \in 0..(k + 1) |-> h[i]]
      OBVIOUS
    <3> HIDE DEF h
    <3> QED
      BY <2>3, <3>1
  <2>5. \E f : Upto(f, k + 1)
    BY <2>4
  <2> HIDE DEF Upto
  <2> QED
    BY <2>1, <2>5
<1>3. S = Nat
  <2> HIDE DEF Upto
  <2>1. S \in SUBSET Nat
    OBVIOUS
  <2> HIDE DEF S
  <2> QED
    BY <1>1, <1>2, <2>1, NatSetInduction
<1>4. PICK g : Upto(g, n)
  BY <1>3
<1>5. AnalyzeFields(fields) = CHOOSE f : Upto(f, n)
  BY DEF AnalyzeFields
<1>6. Upto(AnalyzeFields(fields), n)
  <2> HIDE DEF Upto
  <2> QED
    BY <1>4, <1>5
<1> QED
  BY <1>6

Analysis ==
    [error : {"None", "ProtocolError", "NotSupported"},
     type : {"NoBody", "ContentLength", "TransferEncoded", "Close"}, amount : Nat,
     connection : {"NothingSpecial", "KeepAlive", "UpgradeH2C"},
     h2c : BOOLEAN, both : BOOLEAN, settings : BOOLEAN]

Closes(f) == f[2] = "connection" /\ f[3] = "close"
IsLength(f) == f[2] = "content-length"

\* What the first k fields say about the length of the body: "close" is in
\* them, or one length is, or none.
LengthKnown(a, fields, k) ==
    /\ a \in Analysis
    /\ a.error = "None" =>
          /\ a.type = "Close" <=> \E i \in 1..k : Closes(fields[i])
          /\ a.type = "ContentLength" =>
                \E i \in 1..k :
                    /\ IsLength(fields[i])
                    /\ fields[i][3] \in DOMAIN Numerals
                    /\ a.amount = Numerals[fields[i][3]]
                    /\ \A j \in 1..k : IsLength(fields[j]) => j = i
          /\ a.type \in {"NoBody", "TransferEncoded"} =>
                \A j \in 1..k : ~IsLength(fields[j])

\* What one more field changes.
LEMMA AnalyzeFieldFacts ==
  ASSUME NEW a \in Analysis, NEW f
  PROVE  LET b == AnalyzeField(a, f) IN
         /\ b \in Analysis
         /\ b.error = "None" =>
               /\ a.error = "None"
               /\ Closes(f) => b.type = "Close"
               /\ IsLength(f) => /\ a.type = "NoBody" /\ b.type = "ContentLength"
                                 /\ f[3] \in DOMAIN Numerals
                                 /\ b.amount = Numerals[f[3]]
               /\ ~Closes(f) /\ ~IsLength(f) =>
                     /\ b.amount = a.amount
                     /\ \/ b.type = a.type
                        \/ a.type = "NoBody" /\ b.type = "TransferEncoded"
<1> DEFINE b == AnalyzeField(a, f)
<1>1. CASE a.error # "None"
  BY <1>1 DEF AnalyzeField
<1>2. CASE a.error = "None" /\ f[2] = "content-length"
  <2>1. b = AnalyzeContentLength(a, f[3])
    BY <1>2 DEF AnalyzeField
  <2>2. CASE a.type # "NoBody" \/ f[3] \notin DOMAIN Numerals
    BY <1>2, <2>1, <2>2 DEF AnalyzeContentLength, Refused, Analysis, Closes, IsLength
  <2>3. CASE a.type = "NoBody" /\ f[3] \in DOMAIN Numerals
    <3>1. Numerals[f[3]] \in Nat
      BY <2>3, RequestAssumption
    <3>2. b = [a EXCEPT !.type = "ContentLength", !.amount = Numerals[f[3]]]
      BY <2>1, <2>3 DEF AnalyzeContentLength
    <3> QED
      BY <1>2, <2>3, <3>1, <3>2 DEF Analysis, Closes, IsLength
  <2> QED
    BY <2>2, <2>3
<1>3. CASE a.error = "None" /\ f[2] = "transfer-encoding"
  <2>1. b = AnalyzeTransferEncoding(a, f[3])
    BY <1>3 DEF AnalyzeField
  <2> QED
    BY <1>3, <2>1 DEF AnalyzeTransferEncoding, Refused, Analysis, Closes, IsLength
<1>4. CASE a.error = "None" /\ f[2] = "connection"
  <2>1. b = AnalyzeConnection(a, f[3])
    BY <1>4 DEF AnalyzeField
  <2> QED
    BY <1>4, <2>1 DEF AnalyzeConnection, Refused, Analysis, Closes, IsLength
<1>5. CASE a.error = "None" /\ f[2] = "upgrade"
  <2>1. b = IF f[3] = "h2c" THEN [a EXCEPT !.h2c = TRUE] ELSE a
    BY <1>5 DEF AnalyzeField
  <2> QED
    BY <1>5, <2>1 DEF Analysis, Closes, IsLength
<1>6. CASE a.error = "None" /\ f[2] = "http2-settings"
  <2>1. b = [a EXCEPT !.settings = (f[3] = "base64")]
    BY <1>6 DEF AnalyzeField
  <2> QED
    BY <1>6, <2>1 DEF Analysis, Closes, IsLength
<1>7. CASE /\ a.error = "None"
           /\ f[2] \notin {"content-length", "transfer-encoding", "connection", "upgrade",
                           "http2-settings"}
  <2>1. b = a
    BY <1>7 DEF AnalyzeField
  <2> QED
    BY <1>7, <2>1 DEF Analysis, Closes, IsLength
<1> QED
  BY <1>1, <1>2, <1>3, <1>4, <1>5, <1>6, <1>7

LEMMA LengthKnownStep ==
  ASSUME NEW a, NEW fields, NEW k \in Nat, LengthKnown(a, fields, k)
  PROVE  LengthKnown(AnalyzeField(a, fields[k + 1]), fields, k + 1)
<1> DEFINE f == fields[k + 1]
<1>1. PICK b : b = AnalyzeField(a, fields[k + 1])
  OBVIOUS
<1>2. /\ b \in Analysis
      /\ b.error = "None" =>
            /\ a.error = "None"
            /\ Closes(f) => b.type = "Close"
            /\ IsLength(f) => /\ a.type = "NoBody" /\ b.type = "ContentLength"
                              /\ f[3] \in DOMAIN Numerals
                              /\ b.amount = Numerals[f[3]]
            /\ ~Closes(f) /\ ~IsLength(f) =>
                  /\ b.amount = a.amount
                  /\ \/ b.type = a.type
                     \/ a.type = "NoBody" /\ b.type = "TransferEncoded"
  BY <1>1, AnalyzeFieldFacts DEF LengthKnown
<1>3. 1..(k + 1) = 1..k \cup {k + 1} /\ k + 1 \notin 1..k
  OBVIOUS
<1>4. ~(Closes(f) /\ IsLength(f))
  BY DEF Closes, IsLength
<1>5. a \in Analysis
  BY DEF LengthKnown
<1> SUFFICES ASSUME b.error = "None"
             PROVE  /\ b.type = "Close" <=> \E i \in 1..(k + 1) : Closes(fields[i])
                    /\ b.type = "ContentLength" =>
                          \E i \in 1..(k + 1) :
                              /\ IsLength(fields[i])
                              /\ fields[i][3] \in DOMAIN Numerals
                              /\ b.amount = Numerals[fields[i][3]]
                              /\ \A j \in 1..(k + 1) : IsLength(fields[j]) => j = i
                    /\ b.type \in {"NoBody", "TransferEncoded"} =>
                          \A j \in 1..(k + 1) : ~IsLength(fields[j])
  BY <1>1, <1>2 DEF LengthKnown
<1>6. /\ a.type = "Close" <=> \E i \in 1..k : Closes(fields[i])
      /\ a.type = "ContentLength" =>
            \E i \in 1..k :
                /\ IsLength(fields[i])
                /\ fields[i][3] \in DOMAIN Numerals
                /\ a.amount = Numerals[fields[i][3]]
                /\ \A j \in 1..k : IsLength(fields[j]) => j = i
      /\ a.type \in {"NoBody", "TransferEncoded"} =>
            \A j \in 1..k : ~IsLength(fields[j])
  BY <1>2 DEF LengthKnown
<1>7. b.type = "Close" <=> \E i \in 1..(k + 1) : Closes(fields[i])
  <2>1. CASE Closes(f)
    BY <1>2, <1>3, <2>1
  <2>2. CASE IsLength(f)
    BY <1>2, <1>3, <1>4, <1>6, <2>2
  <2>3. CASE ~Closes(f) /\ ~IsLength(f)
    BY <1>2, <1>3, <1>6, <2>3
  <2> QED
    BY <2>1, <2>2, <2>3
<1>8. ASSUME b.type = "ContentLength"
      PROVE  \E i \in 1..(k + 1) :
                 /\ IsLength(fields[i])
                 /\ fields[i][3] \in DOMAIN Numerals
                 /\ b.amount = Numerals[fields[i][3]]
                 /\ \A j \in 1..(k + 1) : IsLength(fields[j]) => j = i
  <2>1. CASE IsLength(f)
    BY <1>2, <1>3, <1>6, <2>1
  <2>2. CASE ~IsLength(f)
    BY <1>2, <1>3, <1>6, <1>8, <2>2
  <2> QED
    BY <2>1, <2>2
<1>9. ASSUME b.type \in {"NoBody", "TransferEncoded"}
      PROVE  \A j \in 1..(k + 1) : ~IsLength(fields[j])
  <2>1. ~IsLength(f) /\ ~Closes(f)
    BY <1>2, <1>9
  <2> QED
    BY <1>2, <1>3, <1>5, <1>6, <1>9, <2>1
<1> QED
  BY <1>7, <1>8, <1>9

\* What http_analyze_headers makes of the fields.
LEMMA AnalyzeHeadersFacts ==
  ASSUME NEW line, NEW fields, Len(fields) \in Nat
  PROVE  LET a == http_analyze_headers(line, fields)
             closes == \E i \in 1..Len(fields) : Closes(fields[i])
             length == find_header_by_key(fields, "content-length")
         IN  /\ a.amount \in Nat
             /\ a.error # "Ok"
             /\ a.error = "None" =>
                   /\ closes => a.type = IF Version(line) = "HTTP/1.0" THEN "Close" ELSE "NoBody"
                   /\ a.type = "Close" => closes
                   /\ a.type = "ContentLength" =>
                         length \in DOMAIN Numerals /\ a.amount = Numerals[length]
                   /\ a.type = "NoBody" /\ ~closes => length \notin DOMAIN Numerals
<1>1. PICK upTo : upTo = AnalyzeFields(fields)
  OBVIOUS
<1>2. upTo = [i \in 0..Len(fields) |->
                IF i = 0 THEN NothingAnalyzed ELSE AnalyzeField(upTo[i - 1], fields[i])]
  BY <1>1, AnalyzeFieldsDef
<1> DEFINE S == {k \in Nat : k <= Len(fields) => LengthKnown(upTo[k], fields, k)}
<1>3. 0 \in S
  <2>1. upTo[0] = NothingAnalyzed
    BY <1>2
  <2>2. NothingAnalyzed \in Analysis /\ NothingAnalyzed.type = "NoBody"
    BY DEF NothingAnalyzed, Analysis
  <2>3. LengthKnown(upTo[0], fields, 0)
    BY <2>1, <2>2 DEF LengthKnown
  <2> QED
    BY <2>3
<1>4. ASSUME NEW k \in S PROVE k + 1 \in S
  <2>1. k \in Nat
    OBVIOUS
  <2>2. ASSUME k + 1 <= Len(fields)
        PROVE  LengthKnown(upTo[k + 1], fields, k + 1)
    <3>1. k <= Len(fields) /\ k + 1 \in 0..Len(fields) /\ k + 1 # 0 /\ (k + 1) - 1 = k
      BY <2>1, <2>2
    <3>2. upTo[k + 1] = AnalyzeField(upTo[k], fields[k + 1])
      BY <1>2, <3>1
    <3>3. LengthKnown(upTo[k], fields, k)
      BY <3>1
    <3> QED
      BY <2>1, <3>2, <3>3, LengthKnownStep
  <2> QED
    BY <2>1, <2>2
<1>5. LengthKnown(upTo[Len(fields)], fields, Len(fields))
  <2>1. S \in SUBSET Nat
    OBVIOUS
  <2>2. S = Nat
    <3> HIDE DEF S
    <3> QED
      BY <1>3, <1>4, <2>1, NatSetInduction
  <2> QED
    BY <2>2
<1>6. PICK all : all = upTo[Len(fields)]
  OBVIOUS
<1>7. PICK a : a = http_analyze_headers(line, fields)
  OBVIOUS
<1>8. all \in Analysis /\ LengthKnown(all, fields, Len(fields))
  BY <1>5, <1>6 DEF LengthKnown
<1>9. a = IF all.error # "None" THEN all ELSE WithUpgrade(WithoutClose(all, Version(line)))
  BY <1>1, <1>6, <1>7 DEF http_analyze_headers
<1>10. /\ a.amount = all.amount /\ a.error # "Ok"
       /\ a.error = "None" => all.error = "None"
       /\ all.error = "None" =>
             a.type = IF all.type = "Close" /\ Version(line) # "HTTP/1.0" THEN "NoBody"
                      ELSE all.type
  <2>1. PICK v : v = Version(line)
    OBVIOUS
  <2>2. PICK w : w = WithoutClose(all, v)
    OBVIOUS
  <2>3. /\ w \in Analysis /\ w.amount = all.amount /\ w.error = all.error
        /\ w.type = IF all.type = "Close" /\ v # "HTTP/1.0" THEN "NoBody" ELSE all.type
    BY <1>8, <2>2 DEF WithoutClose, Analysis
  <2>4. /\ WithUpgrade(w).amount = w.amount /\ WithUpgrade(w).type = w.type
        /\ WithUpgrade(w).error \in {w.error, "ProtocolError"}
    BY <2>3 DEF WithUpgrade, Refused, Analysis
  <2>5. a = IF all.error # "None" THEN all ELSE WithUpgrade(w)
    BY <1>9, <2>1, <2>2
  <2>6. all.error # "Ok" /\ w.error # "Ok"
    BY <1>8, <2>3 DEF Analysis
  <2>7. CASE all.error # "None"
    BY <2>5, <2>6, <2>7
  <2>8. CASE all.error = "None"
    BY <2>1, <2>3, <2>4, <2>5, <2>6, <2>8
  <2> QED
    BY <2>7, <2>8
<1> DEFINE closes == \E i \in 1..Len(fields) : Closes(fields[i])
           length == find_header_by_key(fields, "content-length")
           places == {i \in 1..Len(fields) : fields[i][2] = "content-length"}
<1>11. length = IF places = {} THEN "none"
                ELSE fields[CHOOSE i \in places : \A j \in places : i <= j][3]
  BY DEF find_header_by_key
<1>12. ASSUME all.error = "None", all.type = "ContentLength"
       PROVE  length \in DOMAIN Numerals /\ all.amount = Numerals[length]
  <2>1. PICK i \in 1..Len(fields) :
            /\ IsLength(fields[i])
            /\ fields[i][3] \in DOMAIN Numerals
            /\ all.amount = Numerals[fields[i][3]]
            /\ \A j \in 1..Len(fields) : IsLength(fields[j]) => j = i
    BY <1>8, <1>12 DEF LengthKnown
  <2>2. places = {i} /\ i <= i
    BY <2>1 DEF IsLength
  <2>3. (CHOOSE e \in places : \A j \in places : e <= j) = i
    BY <2>2
  <2>4. length = fields[i][3]
    BY <1>11, <2>2, <2>3
  <2> QED
    BY <2>1, <2>4
<1>13. ASSUME all.error = "None", all.type = "NoBody"
       PROVE  length \notin DOMAIN Numerals
  <2>1. places = {}
    BY <1>8, <1>13 DEF LengthKnown, IsLength
  <2> QED
    BY <1>11, <2>1, RequestAssumption
<1>14. all.error = "None" => (all.type = "Close" <=> closes)
  BY <1>8 DEF LengthKnown
<1>15. all.amount \in Nat
  BY <1>8 DEF Analysis
<1> HIDE DEF closes, length
<1>16. /\ a.amount \in Nat
       /\ a.error # "Ok"
       /\ a.error = "None" =>
             /\ closes => a.type = IF Version(line) = "HTTP/1.0" THEN "Close" ELSE "NoBody"
             /\ a.type = "Close" => closes
             /\ a.type = "ContentLength" =>
                   length \in DOMAIN Numerals /\ a.amount = Numerals[length]
             /\ a.type = "NoBody" /\ ~closes => length \notin DOMAIN Numerals
  BY <1>10, <1>12, <1>13, <1>14, <1>15
<1> QED
  BY <1>7, <1>16 DEF closes, length
-----------------------------------------------------------------------------
(* The stream and the scan.                                                *)

\* What the read of the handler asks for is a number.
LEMMA WantedType == StreamInv /\ ScanInv => Wanted \in Int
<1> SUFFICES ASSUME StreamInv, ScanInv PROVE Wanted \in Int
  OBVIOUS
<1>1. Chunk \in Int
  BY ChunkAssumption
<1>2. get_available_data_length(reader) \in Int
  BY DEF get_available_data_length, StreamInv, Readers
<1>3. Len(PrefaceRest) = 7
  BY DEF PrefaceRest
<1>4. pc = "body" => analyze.amount \in Int
  <2>1. Len(sent.fields) \in Nat
    BY EncodeFacts DEF StreamInv
  <2> QED
    BY <2>1, AnalyzeHeadersFacts DEF ScanInv
<1> QED
  BY <1>1, <1>2, <1>3, <1>4 DEF Wanted

LEMMA StreamStep == StreamInv /\ ScanInv /\ [Next]_vars => StreamInv'
<1> SUFFICES ASSUME StreamInv, ScanInv, [Next]_vars PROVE StreamInv'
  OBVIOUS
<1>1. /\ sent \in Inputs /\ stream = Encode(sent) /\ client \in {"open", "shut", "reset"}
      /\ reader = [size |-> reader.size, cursor |-> reader.cursor, state |-> reader.state]
      /\ reader.size \in Nat /\ reader.cursor \in Nat
      /\ reader.state \in {"Open", "Closed", "Error"}
      /\ last \in Nat /\ last <= Len(stream)
      /\ reader.cursor <= reader.size /\ reader.size <= last
      /\ reader.state = "Closed" => client # "open" /\ reader.size = last
  BY DEF StreamInv, Readers
<1>2. ASSUME UNCHANGED <<sent, stream, last, client, reader>> PROVE StreamInv'
  BY <1>2 DEF StreamInv
<1>3. ASSUME UNCHANGED <<sent, stream, last, client>>,
             NEW c \in Nat, c <= reader.size, reader' = [reader EXCEPT !.cursor = c]
      PROVE  StreamInv'
  BY <1>1, <1>3 DEF StreamInv, Readers
<1>4. CASE Receive
  <2>1. PICK n \in 1..Wanted : /\ reader.size + n <= last
                               /\ reader' = get_more_data_partially(reader, n)
    BY <1>4 DEF Receive
  <2>2. n \in Nat
    BY <2>1, WantedType
  <2>3. reader.state = "Open" /\ UNCHANGED <<sent, stream, last, client>>
    BY <1>4 DEF Receive, Reading, input
  <2> QED
    BY <1>1, <2>1, <2>2, <2>3 DEF StreamInv, Readers, get_more_data_partially
<1>5. CASE EndOfStream
  BY <1>1, <1>5 DEF EndOfStream, StreamInv, Readers, input
<1>6. CASE ReadError
  BY <1>1, <1>6 DEF ReadError, StreamInv, Readers, input
<1>7. CASE ClientShuts
  BY <1>1, <1>7 DEF ClientShuts, StreamInv, Readers, input
<1>8. CASE ClientResets
  BY <1>1, <1>8 DEF ClientResets, StreamInv, Readers, input
<1>9. ASSUME reader' = [reader EXCEPT !.cursor = @ + 1], reader.cursor < reader.size,
             UNCHANGED <<sent, stream, last, client>>
      PROVE  StreamInv'
  BY <1>1, <1>3, <1>9
<1>10. CASE ScanSymbol \/ RequestLine \/ HeaderField \/ EndOfHeader
  BY <1>9, <1>10 DEF ScanSymbol, RequestLine, HeaderField, EndOfHeader, NextLine, EndsLine, input
<1>11. CASE Preface
  <2>1. Len(PrefaceRest) = 7
    BY DEF PrefaceRest
  <2>2. reader.cursor + 7 <= reader.size /\ reader.cursor + 7 \in Nat
    BY <1>1, <1>11, <2>1 DEF Preface, Wanted, get_available_data_length
  <2>3. reader' = [reader EXCEPT !.cursor = reader.cursor + 7]
        /\ UNCHANGED <<sent, stream, last, client>>
    BY <1>1, <1>11, <2>1 DEF Preface, input
  <2> QED
    BY <1>3, <2>2, <2>3
<1>12. CASE Body
  <2>1. PICK amount : amount = IF analyze.type = "ContentLength" THEN analyze.amount ELSE 0
    OBVIOUS
  <2>2. amount \in Nat
    <3>1. Len(sent.fields) \in Nat
      BY <1>1, EncodeFacts
    <3> QED
      BY <1>12, <2>1, <3>1, AnalyzeHeadersFacts DEF Body, ScanInv
  <2>3. reader.cursor + amount <= reader.size /\ reader.cursor + amount \in Nat
    BY <1>1, <1>12, <2>1, <2>2 DEF Body, Wanted, get_available_data_length
  <2>4. reader' = [reader EXCEPT !.cursor = reader.cursor + amount]
        /\ UNCHANGED <<sent, stream, last, client>>
    BY <1>1, <1>12, <2>1 DEF Body, WithBody, input
  <2> QED
    BY <1>3, <2>3, <2>4
<1>13. CASE BodyUntilEnd
  <2>1. reader' = [reader EXCEPT !.cursor = reader.size] /\ UNCHANGED <<sent, stream, last, client>>
    BY <1>13 DEF BodyUntilEnd, WithBody, input
  <2> QED
    BY <1>1, <1>3, <2>1
<1>14. CASE \/ Start \/ StartFails \/ StartWithoutReader
            \/ RequestLineFails \/ PrefaceFails \/ HeaderFails \/ BodyFails
            \/ process_http_error \/ NoRoute \/ Internal \/ Shutdown \/ execute_route
            \/ ServeFolder \/ HandshakeFails \/ Handshake \/ Loop \/ Cleanup
            \/ UNCHANGED vars
  BY <1>2, <1>14
     DEF Start, StartFails, StartWithoutReader, RequestLineFails, PrefaceFails,
         HeaderFails, BodyFails, process_http_error, NoRoute, Internal, Shutdown,
         execute_route, ServeFolder, HandshakeFails, Handshake, Loop, Cleanup, vars, input
<1> QED
  BY <1>4, <1>5, <1>6, <1>7, <1>8, <1>10, <1>11, <1>12, <1>13, <1>14 DEF Next, Handler

\* The line the scan is in.
Line == IF pc = "line" THEN sent.line ELSE sent.fields[LinesRead]

\* The symbol the scan looks at: the line, then CR, then LF.
LEMMA SymbolAtCursor ==
  ASSUME StreamInv, ScanInv, pc \in {"line", "field"}
  PROVE  /\ LinesRead \in Nat /\ Len(sent.fields) \in Nat
         /\ IsSequence(sent.fields) /\ IsSequence(stream)
         /\ TextSize = 1 => stream[scan.start + 1] = Line /\ Line \notin {CR, LF}
         /\ Seen < TextSize => TextSize = 1 /\ reader.cursor = scan.start
         /\ Seen = TextSize => stream[reader.cursor + 1] = CR
         /\ Seen = TextSize + 1 => stream[reader.cursor + 1] = LF
<1> DEFINE n == Len(sent.fields)
           k == LinesRead
<1>1. /\ sent \in Inputs /\ stream = Encode(sent)
      /\ reader.cursor \in Nat /\ scan.start = 3 * k
      /\ Seen \in 0..(TextSize + 1) /\ scan.start \in Nat
  BY DEF StreamInv, ScanInv, Readers
<1>2. /\ n \in Nat /\ IsSequence(stream)
      /\ stream[1] = sent.line /\ stream[2] = CR /\ stream[3] = LF
      /\ \A i \in 1..n : /\ stream[3 * i + 1] = sent.fields[i]
                         /\ stream[3 * i + 2] = CR
                         /\ stream[3 * i + 3] = LF
      /\ stream[3 * n + 4] = CR /\ stream[3 * n + 5] = LF
  BY <1>1, EncodeFacts
<1>3. /\ IsSequence(sent.fields) /\ sent.line \notin {CR, LF}
      /\ \A i \in 1..n : sent.fields[i] \notin {CR, LF}
  BY <1>1, InputsAssumption
<1>4. k \in Nat /\ k <= n + 1 /\ (pc = "line" => k = 0) /\ (pc = "field" => k >= 1)
  BY <1>2 DEF ScanInv, LinesRead
<1>5. reader.cursor = 3 * k + Seen
  BY <1>1, <1>4 DEF Seen
<1>6. TextSize = IF k <= n THEN 1 ELSE 0
  BY DEF TextSize
<1>7. Line = IF pc = "line" THEN sent.line ELSE sent.fields[k]
  BY DEF Line
<1> HIDE DEF n, k
<1>8. k <= n => /\ stream[3 * k + 1] = Line /\ Line \notin {CR, LF}
                /\ stream[3 * k + 2] = CR /\ stream[3 * k + 3] = LF
  <2>1. CASE pc = "line"
    BY <1>2, <1>3, <1>4, <1>7, <2>1
  <2>2. CASE pc = "field"
    BY <1>2, <1>3, <1>4, <1>7, <2>2
  <2> QED
    BY <2>1, <2>2
<1>9. k > n => /\ stream[3 * k + 1] = CR /\ stream[3 * k + 2] = LF
  <2>1. ASSUME k > n PROVE k = n + 1 /\ 3 * k + 1 = 3 * n + 4 /\ 3 * k + 2 = 3 * n + 5
    BY <1>2, <1>4, <2>1
  <2> QED
    BY <1>2, <2>1
<1>10. PICK seen : seen = Seen
  OBVIOUS
<1>11. CASE k <= n
  <2>1. TextSize = 1 /\ seen \in 0..2 /\ reader.cursor = 3 * k + seen
    BY <1>1, <1>5, <1>6, <1>10, <1>11
  <2>2. /\ seen < 1 => reader.cursor = 3 * k
        /\ seen = 1 => reader.cursor + 1 = 3 * k + 2
        /\ seen = 2 => reader.cursor + 1 = 3 * k + 3
    BY <1>4, <2>1
  <2> QED
    BY <1>1, <1>2, <1>3, <1>4, <1>8, <1>10, <1>11, <2>1, <2>2 DEF n, k
<1>12. CASE k > n
  <2>1. TextSize = 0 /\ seen \in 0..1 /\ reader.cursor = 3 * k + seen
    BY <1>1, <1>2, <1>4, <1>5, <1>6, <1>10, <1>12
  <2>2. /\ ~(seen < 0)
        /\ seen = 0 => reader.cursor + 1 = 3 * k + 1
        /\ seen = 1 => reader.cursor + 1 = 3 * k + 2
    BY <1>4, <2>1
  <2> QED
    BY <1>1, <1>2, <1>3, <1>4, <1>9, <1>10, <1>12, <2>1, <2>2 DEF n, k
<1> QED
  BY <1>2, <1>4, <1>11, <1>12

\* One round of get_until_delimiter.
LEMMA DelimiterAtCursor ==
  ASSUME StreamInv, ScanInv, pc \in {"line", "field"}
  PROVE  /\ Len(Delimiter) = 2
         /\ TextSize \in {0, 1} /\ Seen \in 0..(TextSize + 1)
         /\ delimiter_step(scan.index, stream[reader.cursor + 1])
               = IF Seen < TextSize THEN 0 ELSE Seen - TextSize + 1
<1>1. Delimiter[1] = CR /\ Delimiter[2] = LF /\ Len(Delimiter) = 2 /\ CR # LF
  BY DEF Delimiter, CR, LF
<1>2. /\ scan.index = IF Seen = TextSize + 1 THEN 1 ELSE 0
      /\ Seen \in 0..(TextSize + 1) /\ TextSize \in {0, 1}
  BY DEF ScanInv, TextSize
<1>3. CASE Seen < TextSize
  <2>1. reader.cursor = scan.start /\ stream[reader.cursor + 1] # CR
    BY <1>3, SymbolAtCursor
  <2> QED
    BY <1>1, <1>2, <1>3, <2>1 DEF delimiter_step
<1>4. CASE Seen = TextSize
  <2>1. stream[reader.cursor + 1] = CR
    BY <1>4, SymbolAtCursor
  <2> QED
    BY <1>1, <1>2, <1>4, <2>1 DEF delimiter_step
<1>5. CASE Seen = TextSize + 1
  <2>1. stream[reader.cursor + 1] = LF
    BY <1>5, SymbolAtCursor
  <2> QED
    BY <1>1, <1>2, <1>5, <2>1 DEF delimiter_step
<1> QED
  BY <1>1, <1>2, <1>3, <1>4, <1>5

\* The line that ends is the client's, whole.
LEMMA LineAtItsEnd ==
  ASSUME StreamInv, ScanInv, pc \in {"line", "field"}, EndsLine
  PROVE  /\ reader.cursor + 1 = scan.start + TextSize + 2
         /\ TextSize = 1 => Len(Text) = 1 /\ Text[1] = Line
         /\ TextSize = 0 => Text = << >>
<1>1. Seen = TextSize + 1 /\ TextSize \in {0, 1} /\ Len(Delimiter) = 2
  BY DelimiterAtCursor DEF EndsLine
<1>2. reader.cursor \in Nat /\ scan.start \in Nat /\ reader.cursor < Len(stream)
      /\ Len(stream) \in Nat
  <2>1. Len(stream) \in Nat
    BY EncodeFacts DEF StreamInv
  <2> QED
    BY <2>1 DEF StreamInv, ScanInv, Readers, EndsLine
<1>3. reader.cursor + 1 = scan.start + TextSize + 2
  BY <1>1, <1>2 DEF Seen
<1>4. Text = SubSeq(stream, scan.start + 1, scan.start + TextSize)
  <2>1. reader.cursor + 1 - Len(Delimiter) = scan.start + TextSize
    BY <1>1, <1>2, <1>3
  <2> QED
    BY <2>1 DEF Text
<1>5. PICK S : stream \in Seq(S)
  BY SymbolAtCursor DEF IsSequence
<1>6. PICK m \in Nat : m = scan.start
  BY <1>2
<1>7. CASE TextSize = 1
  <2>1. Text = SubSeq(stream, m + 1, m + 1)
    BY <1>4, <1>6, <1>7
  <2>2. m + 1 \in 1..Len(stream)
    BY <1>2, <1>3, <1>6, <1>7
  <2>3. Len(Text) = 1 /\ Text[1] = stream[m + 1]
    BY <1>5, <2>1, <2>2, OneOfSeq
  <2> QED
    BY <1>3, <1>6, <1>7, <2>3, SymbolAtCursor
<1>8. CASE TextSize = 0
  <2>1. Text = SubSeq(stream, m + 1, m) /\ m <= Len(stream)
    BY <1>1, <1>2, <1>3, <1>4, <1>6, <1>8
  <2>2. Text = << >>
    BY <1>5, <2>1
  <2> QED
    BY <1>3, <1>8, <2>2
<1> QED
  BY <1>1, <1>7, <1>8

LEMMA BitFacts == \A t \in {0, 1} : 0 \in 0..(t + 1) /\ 0 # t + 1
OBVIOUS

LEMMA ScanStep == StreamInv /\ ScanInv /\ [Next]_vars => ScanInv'
<1> SUFFICES ASSUME StreamInv, ScanInv, [Next]_vars PROVE ScanInv'
  OBVIOUS
<1> DEFINE Shape == /\ scan \in [start : Nat, index : {0, 1}]
                    /\ request = [line |-> request.line, fields |-> request.fields,
                                  body |-> request.body]
<1>1. ASSUME UNCHANGED <<sent, pc, scan, request, analyze>>, reader'.cursor = reader.cursor
      PROVE  ScanInv'
  BY <1>1 DEF ScanInv, LinesRead, TextSize, Seen, AllFields, HeaderSize
<1>2. ASSUME pc' \notin {"start", "line", "field", "body"}, Shape' PROVE ScanInv'
  BY <1>2 DEF ScanInv
<1>3. Shape /\ (UNCHANGED <<scan, request>> => Shape')
  BY DEF ScanInv
<1>4. reader.cursor \in Nat /\ reader.size \in Nat
      /\ reader = [size |-> reader.size, cursor |-> reader.cursor, state |-> reader.state]
  BY DEF StreamInv, Readers
<1>5. CASE Receive \/ EndOfStream \/ ReadError \/ ClientShuts \/ ClientResets \/ UNCHANGED vars
  <2>1. reader'.cursor = reader.cursor
    BY <1>4, <1>5 DEF Receive, EndOfStream, ReadError, ClientShuts, ClientResets, vars,
                      get_more_data_partially
  <2>2. UNCHANGED <<sent, pc, scan, request, analyze>>
    BY <1>5 DEF Receive, EndOfStream, ReadError, ClientShuts, ClientResets, vars, input, parse
  <2> QED
    BY <1>1, <2>1, <2>2
<1>6. CASE Start
  BY <1>6 DEF Start, ScanInv, LinesRead, TextSize, Seen, input, parse
<1>7. CASE ScanSymbol
  <2>1. /\ pc \in {"line", "field"} /\ UNCHANGED <<sent, pc, request, analyze>>
        /\ delimiter_step(scan.index, stream[reader.cursor + 1]) < 2
        /\ scan' = [scan EXCEPT !.index = delimiter_step(scan.index, stream[reader.cursor + 1])]
        /\ reader'.cursor = reader.cursor + 1
    BY <1>4, <1>7, DelimiterAtCursor DEF ScanSymbol, input
  <2>2. /\ TextSize \in {0, 1} /\ Seen \in 0..(TextSize + 1)
        /\ Seen < TextSize + 1
        /\ delimiter_step(scan.index, stream[reader.cursor + 1])
              = IF Seen + 1 = TextSize + 1 THEN 1 ELSE 0
    BY <2>1, DelimiterAtCursor
  <2>3. TextSize' = TextSize /\ LinesRead' = LinesRead
    BY <2>1 DEF TextSize, LinesRead
  <2>4. scan' = [start |-> scan.start, index |-> IF Seen + 1 = TextSize + 1 THEN 1 ELSE 0]
        /\ scan.start \in Nat
    BY <2>1, <2>2 DEF ScanInv
  <2>5. Seen' = Seen + 1 /\ Seen + 1 \in 0..(TextSize + 1)
    BY <1>4, <2>1, <2>2, <2>4 DEF Seen
  <2>6. /\ scan' \in [start : Nat, index : {0, 1}]
        /\ scan'.start = 3 * LinesRead'
        /\ Seen' \in 0..(TextSize' + 1)
        /\ scan'.index = IF Seen' = TextSize' + 1 THEN 1 ELSE 0
    BY <2>1, <2>2, <2>3, <2>4, <2>5 DEF ScanInv
  <2>7. /\ request' = [line |-> request'.line, fields |-> request'.fields, body |-> request'.body]
        /\ pc' \in {"line", "field"}
        /\ pc' = "line" => request'.fields = << >>
        /\ pc' = "field" =>
              LET k == Len(request'.fields)
              IN  /\ request'.line = sent'.line
                  /\ k \in 0..Len(sent'.fields)
                  /\ request'.fields = SubSeq(sent'.fields, 1, k)
                  /\ \A i \in 1..k : sent'.fields[i][1] = "field"
    BY <2>1 DEF ScanInv
  <2> QED
    BY <2>6, <2>7 DEF ScanInv
<1>8. ASSUME NextLine, pc \in {"line", "field"}, EndsLine
      PROVE  /\ scan' = [start |-> scan.start + TextSize + 2, index |-> 0]
             /\ reader'.cursor = scan.start + TextSize + 2
             /\ scan' \in [start : Nat, index : {0, 1}]
             /\ scan.start = 3 * LinesRead
             /\ TextSize \in {0, 1} /\ LinesRead \in Nat
  BY <1>4, <1>8, LineAtItsEnd, DelimiterAtCursor, SymbolAtCursor DEF NextLine, ScanInv
<1>9. CASE RequestLine
  <2>1. /\ pc = "line" /\ EndsLine /\ NextLine /\ UNCHANGED <<sent, analyze>>
    BY <1>9 DEF RequestLine, input
  <2>2. LinesRead = 0 /\ TextSize = 1 /\ Len(sent.fields) \in Nat
    BY <2>1, SymbolAtCursor DEF LinesRead, TextSize
  <2>3. Len(Text) = 1 /\ Text[1] = sent.line
    BY <2>1, <2>2, LineAtItsEnd DEF Line
  <2>4. CASE UNCHANGED request /\ pc' \in {"preface", "ready"}
    BY <1>2, <1>3, <1>8, <2>1, <2>4
  <2>5. CASE pc' = "field" /\ request' = [request EXCEPT !.line = sent.line]
    <3>1. /\ request' = [line |-> sent.line, fields |-> << >>, body |-> request.body]
          /\ Len(<< >>) = 0
      BY <2>1, <2>5 DEF ScanInv
    <3>2. LinesRead' = 1 /\ scan' = [start |-> 3, index |-> 0] /\ reader'.cursor = 3
      BY <1>8, <2>1, <2>2, <2>5, <3>1 DEF LinesRead
    <3>3. Seen' = 0 /\ TextSize' \in {0, 1}
      BY <3>2 DEF Seen, TextSize
    <3>4. PICK S : sent.fields \in Seq(S)
      BY <2>1, SymbolAtCursor DEF IsSequence
    <3>5. SubSeq(sent.fields, 1, 0) = << >>
      BY <3>4
    <3> QED
      <4>1. 0 \in 0..(TextSize' + 1) /\ 0 # TextSize' + 1
        BY <3>3, BitFacts
      <4>2. 3 * LinesRead' = 3
        BY <3>2
      <4>3. /\ scan' \in [start : Nat, index : {0, 1}] /\ scan'.start = 3 * LinesRead'
            /\ Seen' \in 0..(TextSize' + 1)
            /\ scan'.index = IF Seen' = TextSize' + 1 THEN 1 ELSE 0
        BY <3>2, <3>3, <4>1, <4>2
      <4>4. Len(request'.fields) = 0 /\ 0 \in 0..Len(sent.fields) /\ 1..0 = {}
        BY <2>2, <3>1
      <4> QED
        BY <2>1, <2>5, <3>1, <3>5, <4>3, <4>4 DEF ScanInv
  <2>6. \/ UNCHANGED request /\ pc' \in {"preface", "ready"}
        \/ pc' = "field" /\ request' = [request EXCEPT !.line = sent.line]
    BY <1>9, <2>3 DEF RequestLine, Ready
  <2> QED
    BY <2>4, <2>5, <2>6
<1>10. CASE HeaderField
  <2>1. /\ pc = "field" /\ EndsLine /\ NextLine /\ Text # << >> /\ UNCHANGED <<sent, analyze>>
    BY <1>10 DEF HeaderField, input
  <2>2. TextSize = 1 /\ Len(Text) = 1 /\ Text[1] = sent.fields[LinesRead]
    BY <2>1, LineAtItsEnd, DelimiterAtCursor DEF Line
  <2>3. PICK k \in Nat : k = Len(request.fields)
    BY <2>1, SymbolAtCursor DEF ScanInv
  <2>4. LinesRead = k + 1 /\ k + 1 <= Len(sent.fields) /\ Len(sent.fields) \in Nat
    BY <2>1, <2>2, <2>3, SymbolAtCursor DEF LinesRead, TextSize
  <2>5. CASE UNCHANGED request /\ pc' = "ready"
    BY <1>2, <1>3, <1>8, <2>1, <2>5
  <2>6. CASE /\ Text[1][1] = "field"
             /\ request' = [request EXCEPT !.fields = Append(@, FieldOf(Text))]
             /\ pc' = pc
    <3>1. PICK S : sent.fields \in Seq(S)
      BY <2>1, SymbolAtCursor DEF IsSequence
    <3>2. PICK f : f = sent.fields[k + 1]
      OBVIOUS
    <3>3. FieldOf(Text) = f
      BY <2>2, <2>4, <3>2 DEF FieldOf
    <3>4. request.fields = SubSeq(sent.fields, 1, k) /\ request.line = sent.line
      BY <2>1, <2>3 DEF ScanInv
    <3>5. Append(SubSeq(sent.fields, 1, k), f) = SubSeq(sent.fields, 1, k + 1)
      BY <2>3, <2>4, <3>1, <3>2
    <3>6. Len(SubSeq(sent.fields, 1, k + 1)) = k + 1
      BY <2>3, <2>4, <3>1
    <3>7. /\ request' = [line |-> sent.line, fields |-> SubSeq(sent.fields, 1, k + 1),
                         body |-> request.body]
      BY <2>6, <3>3, <3>4, <3>5 DEF ScanInv
    <3>8. \A i \in 1..(k + 1) : sent.fields[i][1] = "field"
      BY <2>1, <2>2, <2>3, <2>4, <2>6 DEF ScanInv
    <3>9. LinesRead' = k + 2
      BY <2>1, <2>3, <2>6, <3>6, <3>7 DEF LinesRead
    <3>10. scan' = [start |-> 3 * (k + 2), index |-> 0] /\ reader'.cursor = 3 * (k + 2)
      BY <1>8, <2>1, <2>2, <2>3, <2>4
    <3>11. Seen' = 0 /\ TextSize' \in {0, 1}
      BY <2>3, <3>10 DEF Seen, TextSize
    <3>12. pc' = "field" /\ Len(request'.fields) = k + 1 /\ k + 1 \in 0..Len(sent.fields)
      BY <2>1, <2>3, <2>4, <2>6, <3>6, <3>7
    <3>13. request'.line = sent'.line /\ request'.fields = SubSeq(sent'.fields, 1, k + 1)
           /\ sent' = sent
      BY <2>1, <3>7
    <3>14. /\ scan' \in [start : Nat, index : {0, 1}] /\ scan'.start = 3 * LinesRead'
           /\ Seen' \in 0..(TextSize' + 1)
           /\ scan'.index = IF Seen' = TextSize' + 1 THEN 1 ELSE 0
      <4>1. 3 * (k + 2) \in Nat
        BY <2>3
      <4>2. 0 \in 0..(TextSize' + 1) /\ 0 # TextSize' + 1
        BY <3>11, BitFacts
      <4> QED
        BY <3>9, <3>10, <3>11, <4>1, <4>2
    <3>15. request' = [line |-> request'.line, fields |-> request'.fields, body |-> request'.body]
      BY <3>7
    <3> QED
      BY <3>8, <3>12, <3>13, <3>14, <3>15 DEF ScanInv
  <2>7. \/ UNCHANGED request /\ pc' = "ready"
        \/ /\ Text[1][1] = "field"
           /\ request' = [request EXCEPT !.fields = Append(@, FieldOf(Text))]
           /\ pc' = pc
    BY <1>10, <2>2 DEF HeaderField, Parsed, Ready
  <2> QED
    BY <2>5, <2>6, <2>7
<1>11. CASE EndOfHeader
  <2>1. /\ pc = "field" /\ EndsLine /\ NextLine /\ Text = << >> /\ UNCHANGED <<sent, request>>
        /\ analyze' = http_analyze_headers(request.line, request.fields)
        /\ (analyze'.error = "None" /\ pc' = "body") \/ pc' = "ready"
    BY <1>11 DEF EndOfHeader, Parsed, Ready, input
  <2>2. TextSize = 0
    <3>1. Len(<< >>) # 1
      OBVIOUS
    <3> QED
      BY <2>1, <3>1, LineAtItsEnd, DelimiterAtCursor
  <2>3. /\ Len(sent.fields) \in Nat /\ Len(request.fields) \in 0..Len(sent.fields)
        /\ request.fields = SubSeq(sent.fields, 1, Len(request.fields))
        /\ request.line = sent.line
        /\ \A i \in 1..Len(request.fields) : sent.fields[i][1] = "field"
    BY <2>1, SymbolAtCursor DEF ScanInv
  <2>4. Len(request.fields) = Len(sent.fields) /\ LinesRead = Len(sent.fields) + 1
    BY <2>1, <2>2, <2>3 DEF TextSize, LinesRead
  <2>5. request.fields = sent.fields
    <3>1. PICK S : sent.fields \in Seq(S)
      BY <2>1, SymbolAtCursor DEF IsSequence
    <3>2. SubSeq(sent.fields, 1, Len(sent.fields)) = sent.fields
      BY <3>1
    <3> QED
      BY <2>3, <2>4, <3>2
  <2>6. reader'.cursor = 3 * Len(sent.fields) + 5
    BY <1>8, <2>1, <2>2, <2>3, <2>4
  <2>7. Shape'
    BY <1>3, <1>8, <2>1
  <2>8. CASE pc' = "ready"
    BY <1>2, <2>7, <2>8
  <2>9. CASE pc' = "body" /\ analyze'.error = "None"
    BY <2>1, <2>3, <2>4, <2>5, <2>6, <2>7, <2>9 DEF ScanInv, AllFields, HeaderSize
  <2> QED
    BY <2>1, <2>8, <2>9
<1>12. CASE Body \/ BodyUntilEnd
  <2>1. /\ UNCHANGED scan
        /\ \E body : request' = [request EXCEPT !.body = body]
        /\ pc' \in {"ready", "ended"}
    BY <1>12 DEF Body, BodyUntilEnd, WithBody, Parsed, Ready
  <2>2. Shape'
    BY <1>3, <2>1
  <2> QED
    BY <1>2, <2>1, <2>2
<1>13. CASE \/ StartFails \/ StartWithoutReader
            \/ RequestLineFails \/ Preface \/ PrefaceFails \/ HeaderFails \/ BodyFails
            \/ process_http_error \/ NoRoute \/ Internal \/ Shutdown \/ execute_route
            \/ ServeFolder \/ HandshakeFails \/ Handshake \/ Loop \/ Cleanup
  <2>1. UNCHANGED <<scan, request>>
    BY <1>13
       DEF StartFails, StartWithoutReader, RequestLineFails, Preface, PrefaceFails,
           HeaderFails, BodyFails, process_http_error, NoRoute, Internal, Shutdown,
           execute_route, ServeFolder, HandshakeFails, Handshake, Loop, Cleanup, parse
  <2>2. pc' \notin {"start", "line", "field", "body"}
    BY <1>13
       DEF StartFails, StartWithoutReader, RequestLineFails, Preface, PrefaceFails,
           HeaderFails, BodyFails, process_http_error, NoRoute, Internal, Shutdown, Parsed,
           execute_route, ServeFolder, HandshakeFails, Handshake, Loop, Cleanup, Ready
  <2> QED
    BY <1>2, <1>3, <2>1, <2>2
<1> QED
  BY <1>5, <1>6, <1>7, <1>9, <1>10, <1>11, <1>12, <1>13 DEF Next, Handler
-----------------------------------------------------------------------------
(* The request.                                                            *)

\* The body is the end of the stream.
LEMMA BodyInStream ==
  ASSUME NEW i \in Inputs, NEW m \in Nat, m <= Len(i.body)
  PROVE  SubSeq(Encode(i), 3 * Len(i.fields) + 5 + 1, 3 * Len(i.fields) + 5 + m)
            = SubSeq(i.body, 1, m)
<1>1. PICK h \in Nat : h = 3 * Len(i.fields) + 5
  BY EncodeFacts
<1>2. PICK s : s = Encode(i)
  OBVIOUS
<1>3. PICK b : b = i.body
  OBVIOUS
<1>4. Len(b) \in Nat /\ Len(s) = h + Len(b) /\ \A k \in 1..Len(b) : s[h + k] = b[k]
  BY <1>1, <1>2, <1>3, EncodeFacts
<1>5. PICK S : s \in Seq(S)
  BY <1>2, EncodeFacts DEF IsSequence
<1>6. PICK T : b \in Seq(T)
  BY <1>3, InputsAssumption DEF IsSequence
<1>7. m <= Len(b)
  BY <1>3
<1>8. SubSeq(s, h + 1, h + m) = SubSeq(b, 1, m)
  <2>1. SubSeq(s, h + 1, h + m) = [k \in 1..m |-> s[h + k]]
    BY <1>4, <1>5, <1>7
  <2>2. SubSeq(b, 1, m) = [k \in 1..m |-> b[k]]
    BY <1>4, <1>6, <1>7
  <2>3. \A k \in 1..m : s[h + k] = b[k]
    BY <1>4, <1>7
  <2> QED
    BY <2>1, <2>2, <2>3
<1> QED
  BY <1>1, <1>2, <1>3, <1>8

LEMMA SaysCloseFacts ==
  ASSUME sent \in Inputs, AllFields
  PROVE  SaysClose <=> \E i \in 1..Len(sent.fields) : Closes(sent.fields[i])
<1>1. ASSUME NEW i \in 1..Len(sent.fields)
      PROVE  Closes(sent.fields[i]) <=> sent.fields[i] = <<"field", "connection", "close">>
  <2>1. PICK f : f = sent.fields[i]
    OBVIOUS
  <2>2. f = <<"field", f[2], f[3]>>
    BY <2>1, InputsAssumption DEF AllFields
  <2>3. f = <<"field", "connection", "close">> => Closes(f)
    BY DEF Closes
  <2>4. Closes(f) => f = <<"field", "connection", "close">>
    BY <2>2 DEF Closes
  <2> QED
    BY <2>1, <2>3, <2>4
<1> QED
  BY <1>1 DEF SaysClose

LEMMA RequestStep == StreamInv /\ ScanInv /\ RequestInv /\ [Next]_vars => RequestInv'
<1> SUFFICES ASSUME StreamInv, ScanInv, RequestInv, [Next]_vars, Handling'
             PROVE  RequestInv'
  BY DEF RequestInv
<1>1. sent' = sent /\ stream' = stream
  BY DEF Next, Handler, Receive, EndOfStream, ReadError, ClientShuts, ClientResets, Start,
         StartFails, StartWithoutReader, ScanSymbol, RequestLine,
         RequestLineFails, Preface, PrefaceFails, HeaderField, EndOfHeader, HeaderFails, Body,
         BodyUntilEnd, WithBody, BodyFails, process_http_error, NoRoute, Internal, Shutdown,
         execute_route, ServeFolder, HandshakeFails, Handshake, Loop, Cleanup, vars, input
<1>2. ASSUME Handed(request'.line, request'.fields, request'.body, last'), AllFields,
             SaysClose /\ Version(sent.line) = "HTTP/1.0" => client' # "open"
      PROVE  RequestInv'
  BY <1>1, <1>2 DEF RequestInv, Handed, SaysClose, AllFields, DeclaredBody
<1>3. CASE Handling /\ UNCHANGED request
  <2>1. /\ Handed(request.line, request.fields, request.body, last) /\ AllFields
        /\ SaysClose /\ Version(sent.line) = "HTTP/1.0" => client # "open"
    BY <1>3 DEF RequestInv
  <2>2. \/ client = "open" /\ client' = "shut"
        \/ last' = last /\ client' \in {client, "reset"}
    BY <1>3 DEF Handling, Next, Handler, Receive, Reading, Wanted, EndOfStream, ReadError,
         ClientShuts, ClientResets, Start,
         StartFails, StartWithoutReader, ScanSymbol, RequestLine,
         RequestLineFails, Preface, PrefaceFails, HeaderField, EndOfHeader, HeaderFails, Body,
         BodyUntilEnd, WithBody, BodyFails, process_http_error, NoRoute, Internal, Shutdown,
         execute_route, ServeFolder, HandshakeFails, Handshake, Loop, Cleanup, vars
  <2> QED
    BY <1>2, <1>3, <2>1, <2>2 DEF Handed
<1>4. ASSUME pc = "body"
      PROVE  LET length == find_header_by_key(sent.fields, "content-length") IN
             /\ Len(sent.fields) \in Nat /\ HeaderSize \in Nat
             /\ request.line = sent.line /\ request.fields = sent.fields /\ AllFields
             /\ reader.cursor = HeaderSize
             /\ analyze.amount \in Nat
             /\ SaysClose => analyze.type = IF Version(sent.line) = "HTTP/1.0" THEN "Close"
                                            ELSE "NoBody"
             /\ analyze.type = "Close" => SaysClose
             /\ analyze.type = "ContentLength" =>
                   length \in DOMAIN Numerals /\ analyze.amount = Numerals[length]
             /\ analyze.type = "NoBody" /\ ~SaysClose => length \notin DOMAIN Numerals
  <2>1. /\ request.line = sent.line /\ request.fields = sent.fields /\ AllFields
        /\ reader.cursor = HeaderSize
        /\ analyze = http_analyze_headers(sent.line, sent.fields) /\ analyze.error = "None"
    BY <1>4 DEF ScanInv
  <2>2. Len(sent.fields) \in Nat
    BY EncodeFacts DEF StreamInv
  <2>3. SaysClose <=> \E i \in 1..Len(sent.fields) : Closes(sent.fields[i])
    BY <2>1, SaysCloseFacts DEF StreamInv
  <2> QED
    BY <2>1, <2>2, <2>3, AnalyzeHeadersFacts DEF HeaderSize
<1>5. /\ Len(sent.body) \in Nat /\ Len(stream) \in Nat
      /\ Len(stream) = HeaderSize + Len(sent.body)
      /\ Len(sent.fields) \in Nat
  <2>1. PICK n, b, len : n = Len(sent.fields) /\ b = Len(sent.body) /\ len = Len(stream)
    OBVIOUS
  <2>2. n \in Nat /\ b \in Nat /\ len = 3 * n + 5 + b
    BY <2>1, EncodeFacts DEF StreamInv
  <2> QED
    <3>1. HeaderSize = 3 * n + 5
      BY <2>1 DEF HeaderSize
    <3>2. len \in Nat /\ len = HeaderSize + b
      BY <2>2, <3>1
    <3> QED
      BY <2>1, <2>2, <3>2
<1>6. CASE Body
  <2>1. PICK amount : amount = IF analyze.type = "ContentLength" THEN analyze.amount ELSE 0
    OBVIOUS
  <2>2. /\ pc = "body" /\ analyze.type \in {"ContentLength", "NoBody"} /\ UNCHANGED <<last, client>>
        /\ request' = [request EXCEPT
                          !.body = SubSeq(stream, reader.cursor + 1, reader.cursor + amount)]
    BY <1>6, <2>1 DEF Body, WithBody
  <2>3. amount \in Nat /\ reader.cursor + amount <= reader.size
    BY <1>4, <1>6, <2>1, <2>2 DEF Body, Wanted, get_available_data_length, StreamInv, Readers
  <2>4. amount <= Len(sent.body)
    BY <1>4, <1>5, <2>2, <2>3 DEF StreamInv, Readers
  <2>5. /\ request'.line = request.line /\ request'.fields = request.fields
        /\ request'.body = SubSeq(stream, HeaderSize + 1, HeaderSize + amount)
    BY <1>4, <2>2 DEF ScanInv
  <2>6. SubSeq(stream, HeaderSize + 1, HeaderSize + amount) = SubSeq(sent.body, 1, amount)
    BY <2>3, <2>4, BodyInStream DEF StreamInv, HeaderSize
  <2>7. SubSeq(sent.body, 1, 0) = << >>
    <3>1. PICK T : sent.body \in Seq(T)
      BY InputsAssumption DEF StreamInv, IsSequence
    <3> QED
      BY <3>1
  <2>8. SaysClose => Version(sent.line) # "HTTP/1.0" /\ amount = 0
    BY <1>4, <2>1, <2>2
  <2>9. ~SaysClose => request'.body = DeclaredBody(sent)
    BY <1>4, <2>1, <2>2, <2>5, <2>6, <2>7 DEF DeclaredBody
  <2>10. SaysClose => request'.body = << >>
    BY <2>5, <2>6, <2>7, <2>8
  <2>11. \E n \in 0..Len(sent.body) : request'.body = SubSeq(sent.body, 1, n)
    <3>1. amount \in 0..Len(sent.body)
      BY <1>5, <2>3, <2>4
    <3> QED
      BY <2>5, <2>6, <3>1, Zenon
  <2> QED
    BY <1>2, <1>4, <2>2, <2>5, <2>8, <2>9, <2>10, <2>11 DEF Handed
<1>7. CASE BodyUntilEnd
  <2>1. /\ pc = "body" /\ analyze.type = "Close" /\ UNCHANGED <<last, client>>
        /\ reader.state = "Closed"
        /\ request' = [request EXCEPT !.body = SubSeq(stream, reader.cursor + 1, reader.size)]
    BY <1>7 DEF BodyUntilEnd, WithBody
  <2>2. reader.size = last /\ client # "open"
    BY <2>1 DEF StreamInv
  <2>3. SaysClose /\ Version(sent.line) = "HTTP/1.0"
    BY <1>4, <2>1
  <2>4. HeaderSize = Len(stream) - Len(sent.body)
    BY <1>4, <1>5, <2>1
  <2>5. /\ request'.line = request.line /\ request'.fields = request.fields
        /\ request'.body = SubSeq(stream, Len(stream) - Len(sent.body) + 1, last)
    BY <1>4, <2>1, <2>2, <2>4 DEF ScanInv
  <2>6. \E n \in 0..Len(sent.body) : request'.body = SubSeq(sent.body, 1, n)
    <3>1. PICK h \in Nat, b \in Nat, e \in Nat :
            h = HeaderSize /\ b = Len(sent.body) /\ e = last /\ h <= e /\ e <= h + b
      BY <1>4, <1>5, <2>1, <2>2 DEF StreamInv, Readers
    <3>2. PICK n \in Nat : n = e - h
      BY <3>1
    <3>3. n \in 0..b /\ e = h + n
      BY <3>1, <3>2
    <3>4. SubSeq(stream, h + 1, h + n) = SubSeq(sent.body, 1, n)
      BY <3>1, <3>3, BodyInStream DEF StreamInv, HeaderSize
    <3>5. request'.body = SubSeq(stream, h + 1, h + n)
      BY <2>4, <2>5, <3>1, <3>3
    <3> QED
      BY <3>1, <3>3, <3>4, <3>5
  <2> QED
    BY <1>2, <1>4, <2>1, <2>2, <2>3, <2>5, <2>6 DEF Handed
<1>8. CASE RequestLine
  BY <1>8, RequestLineIsNoRequest DEF RequestLine, Ready, Handling
<1>9. CASE EndOfHeader
  <2>1. http_analyze_headers(request.line, request.fields).error # "Ok"
    <3>1. Len(request.fields) \in Nat
      BY <1>5, <1>9 DEF EndOfHeader, ScanInv
    <3> QED
      BY <3>1, AnalyzeHeadersFacts
  <2> QED
    BY <1>9, <2>1 DEF EndOfHeader, Parsed, Ready, Handling
<1>10. CASE Receive \/ EndOfStream \/ ReadError \/ ClientShuts \/ ClientResets \/ UNCHANGED vars
  BY <1>3, <1>10 DEF Receive, EndOfStream, ReadError, ClientShuts, ClientResets, vars, parse,
                     Handling
<1>11. CASE \/ Start \/ StartFails \/ StartWithoutReader \/ ScanSymbol
            \/ RequestLineFails \/ Preface \/ PrefaceFails \/ HeaderField \/ HeaderFails
            \/ BodyFails \/ process_http_error \/ NoRoute \/ Internal \/ Shutdown
            \/ execute_route \/ ServeFolder \/ HandshakeFails \/ Handshake \/ Loop \/ Cleanup
  BY <1>11
     DEF Start, StartFails, StartWithoutReader, ScanSymbol, RequestLineFails,
         Preface, PrefaceFails, HeaderField, HeaderFails, BodyFails, process_http_error,
         NoRoute, Internal, Shutdown, execute_route, ServeFolder, HandshakeFails, Handshake,
         Loop, Cleanup, Ready, Parsed, Handling
<1> QED
  BY <1>6, <1>7, <1>8, <1>9, <1>10, <1>11 DEF Next, Handler
-----------------------------------------------------------------------------
(* The route.                                                              *)

\* The route of a request is the first that fits.
LEMMA FirstRoute ==
  ASSUME NEW line, route_manager_get_route_for_request(line) # 0
  PROVE  LET r == route_manager_get_route_for_request(line)
             fits(i) == /\ is_matching(Routes[i], Method(line))
                        /\ is_route_matching(Routes[i], Uri(line))
         IN  r \in Nat /\ fits(r) /\ \A i \in 1..(r - 1) : ~fits(i)
<1>1. PICK r : r = route_manager_get_route_for_request(line)
  OBVIOUS
<1>2. PICK M : M = Matching(line)
  OBVIOUS
<1>3. Len(Routes) \in Nat
  BY RequestAssumption
<1>4. \A i : i \in M <=> /\ i \in 1..Len(Routes)
                         /\ Method(line) \in {"GET", "POST", "HEAD"}
                         /\ is_matching(Routes[i], Method(line))
                         /\ is_route_matching(Routes[i], Uri(line))
  BY <1>2 DEF Matching
<1>5. M # {} /\ r = CHOOSE i \in M : \A j \in M : i <= j
  BY <1>1, <1>2 DEF route_manager_get_route_for_request
<1>6. M \in SUBSET Nat
  BY <1>3, <1>4
<1>7. r \in M /\ \A j \in M : r <= j
  BY <1>5, <1>6, LeastNat
<1>8. ASSUME NEW i \in 1..(r - 1),
             is_matching(Routes[i], Method(line)), is_route_matching(Routes[i], Uri(line))
      PROVE  FALSE
  <2>1. Method(line) \in {"GET", "POST", "HEAD"}
    BY <1>8 DEF is_matching
  <2>2. i \in 1..Len(Routes) /\ ~(r <= i)
    BY <1>3, <1>4, <1>6, <1>7, <1>8
  <2> QED
    BY <1>4, <1>7, <1>8, <2>1, <2>2
<1> QED
  BY <1>1, <1>4, <1>6, <1>7, <1>8

LEMMA RankFacts ==
  ASSUME NEW v
  PROVE  Rank(v) \in 0..3 /\ (Rank(v) = 3 <=> v = "ok")
<1>1. v = "ok" => Rank(v) = 3
  BY DEF Rank
<1>2. v = "wrong password" => Rank(v) = 2
  BY DEF Rank
<1>3. v = "no such user" => Rank(v) = 1
  BY DEF Rank
<1>4. v \notin {"ok", "wrong password", "no such user"} => Rank(v) = 0
  BY DEF Rank
<1>5. \/ v = "ok" /\ Rank(v) = 3
      \/ v # "ok" /\ Rank(v) \in {0, 1, 2}
  <2>1. CASE v = "ok"
    BY <1>1, <2>1
  <2>2. CASE v = "wrong password"
    BY <1>2, <2>2
  <2>3. CASE v = "no such user"
    BY <1>3, <2>3
  <2>4. CASE v \notin {"ok", "wrong password", "no such user"}
    BY <1>4, <2>4
  <2> QED
    BY <2>1, <2>2, <2>3, <2>4
<1>6. \A r \in {0, 1, 2} : r \in 0..3 /\ r # 3
  OBVIOUS
<1> QED
  BY <1>5, <1>6

\* The best answer of the providers is one of their answers.
LEMMA BestVerdict ==
  ASSUME NEW credentials,
         Rank(authentication_providers_find_user_with_password(credentials)) = 3
  PROVE  \E i \in 1..Len(Verdicts) : Verdicts[i][credentials] = "ok"
<1>1. PICK A : A = {Verdicts[i][credentials] : i \in 1..Len(Verdicts)} \cup {"error"}
  OBVIOUS
<1>2. PICK best : best = authentication_providers_find_user_with_password(credentials)
  OBVIOUS
<1>3. best = CHOOSE v \in A : \A w \in A : Rank(w) <= Rank(v)
  BY <1>1, <1>2 DEF authentication_providers_find_user_with_password
<1>4. \A v : Rank(v) \in 0..3 /\ (Rank(v) = 3 <=> v = "ok")
  BY RankFacts
<1>5. \E v \in A : \A w \in A : Rank(w) <= Rank(v)
  <2>1. CASE \E v \in A : Rank(v) = 3
    BY <1>4, <2>1
  <2>2. CASE (\A v \in A : Rank(v) # 3) /\ \E v \in A : Rank(v) = 2
    BY <1>4, <2>2
  <2>3. CASE (\A v \in A : Rank(v) \notin {2, 3}) /\ \E v \in A : Rank(v) = 1
    BY <1>4, <2>3
  <2>4. CASE \A v \in A : Rank(v) \notin {1, 2, 3}
    <3>1. "error" \in A
      BY <1>1
    <3> QED
      BY <1>4, <2>4, <3>1
  <2> QED
    BY <2>1, <2>2, <2>3, <2>4
<1>6. best \in A
  BY <1>3, <1>5
<1>7. best = "ok"
  BY <1>2, <1>4
<1> QED
  BY <1>1, <1>6, <1>7

\* A route that wants authorisation is not carried out without.
LEMMA CarriedOut ==
  ASSUME NEW r, NEW fields, Routes[r].auth # "None",
         process_matched_route(r, fields) \notin {"internal 401", "internal 500"}
  PROVE  LET value == find_header_by_key(fields, "authorization") IN
         /\ value \notin {"none", "malformed"}
         /\ \E i \in 1..Len(Verdicts) : Verdicts[i][value] = "ok"
<1>1. handle_http_authorization(fields) = "Authorized"
  BY DEF process_matched_route
<1>2. PICK value : value = find_header_by_key(fields, "authorization")
  OBVIOUS
<1>3. value \notin {"none", "malformed"}
  BY <1>1, <1>2 DEF handle_http_authorization
<1>4. Rank(authentication_providers_find_user_with_password(value)) = 3
  BY <1>1, <1>2, <1>3 DEF handle_http_authorization
<1> QED
  BY <1>2, <1>3, <1>4, BestVerdict

\* The value of a field that is found is the value of one of the fields.
LEMMA FoundField ==
  ASSUME NEW fields, NEW key, Len(fields) \in Nat, find_header_by_key(fields, key) # "none"
  PROVE  \E i \in 1..Len(fields) : /\ fields[i][2] = key
                                   /\ find_header_by_key(fields, key) = fields[i][3]
<1>1. PICK places : places = {i \in 1..Len(fields) : fields[i][2] = key}
  OBVIOUS
<1>2. /\ places # {}
      /\ find_header_by_key(fields, key)
            = fields[CHOOSE i \in places : \A j \in places : i <= j][3]
  BY <1>1 DEF find_header_by_key
<1>3. places \in SUBSET Nat
  BY <1>1
<1>4. \E i \in places : \A j \in places : i <= j
  BY <1>2, <1>3, LeastNat
<1>5. PICK i : i = CHOOSE k \in places : \A j \in places : k <= j
  OBVIOUS
<1>6. i \in places
  BY <1>4, <1>5
<1>7. find_header_by_key(fields, key) = fields[i][3]
  BY <1>2, <1>5
<1> QED
  BY <1>1, <1>6, <1>7

LEMMA AuthorisedStep == StreamInv /\ RequestInv /\ AuthorisedOnly /\ [Next]_vars => AuthorisedOnly'
<1> SUFFICES ASSUME StreamInv, RequestInv, AuthorisedOnly, [Next]_vars PROVE AuthorisedOnly'
  OBVIOUS
<1>1. CASE UNCHANGED <<sent, executed>>
  BY <1>1 DEF AuthorisedOnly
<1>2. ASSUME Handling, Route # 0, UNCHANGED sent, executed' = Route,
             Kind \notin {"internal 401", "internal 500"}
      PROVE  AuthorisedOnly'
  <2>1. request.line = sent.line /\ request.fields = sent.fields /\ AllFields
    BY <1>2 DEF RequestInv, Handed
  <2>2. PICK r : r = Route
    OBVIOUS
  <2>3. /\ is_matching(Routes[r], Method(sent.line))
        /\ is_route_matching(Routes[r], Uri(sent.line))
        /\ \A i \in 1..(r - 1) : ~(/\ is_matching(Routes[i], Method(sent.line))
                                   /\ is_route_matching(Routes[i], Uri(sent.line)))
    BY <1>2, <2>1, <2>2, FirstRoute DEF Route
  <2>4. PICK credentials : credentials = find_header_by_key(sent.fields, "authorization")
    OBVIOUS
  <2>5. ASSUME Routes[r].auth # "None"
        PROVE  \E i \in 1..Len(Verdicts) : /\ credentials \in DOMAIN Verdicts[i]
                                           /\ Verdicts[i][credentials] = "ok"
    <3>1. /\ credentials \notin {"none", "malformed"}
          /\ \E i \in 1..Len(Verdicts) : Verdicts[i][credentials] = "ok"
      BY <1>2, <2>1, <2>2, <2>4, <2>5, CarriedOut DEF Kind
    <3>2. Len(sent.fields) \in Nat
      BY EncodeFacts DEF StreamInv
    <3>3. PICK i \in 1..Len(sent.fields) : /\ sent.fields[i][2] = "authorization"
                                           /\ credentials = sent.fields[i][3]
      BY <2>4, <3>1, <3>2, FoundField
    <3>4. \A v \in 1..Len(Verdicts) : credentials \in DOMAIN Verdicts[v]
      BY <2>1, <3>1, <3>3, InputsAssumption DEF StreamInv, AllFields
    <3> QED
      BY <3>1, <3>4
  <2>6. /\ executed' = r /\ sent' = sent
    BY <1>2, <2>2
  <2> QED
    BY <2>3, <2>4, <2>5, <2>6 DEF AuthorisedOnly
<1>3. CASE Shutdown
  BY <1>1, <1>2, <1>3 DEF Shutdown, input
<1>4. CASE execute_route
  BY <1>1, <1>2, <1>4 DEF execute_route, input
<1>5. CASE ServeFolder
  BY <1>2, <1>5 DEF ServeFolder, input
<1>6. CASE Handshake
  BY <1>2, <1>6 DEF Handshake, input
<1>7. CASE \/ Receive \/ EndOfStream \/ ReadError \/ ClientShuts \/ ClientResets
           \/ Start \/ StartFails \/ StartWithoutReader \/ ScanSymbol
           \/ RequestLine \/ RequestLineFails \/ Preface \/ PrefaceFails \/ HeaderField
           \/ EndOfHeader \/ HeaderFails \/ Body \/ BodyUntilEnd \/ BodyFails
           \/ process_http_error \/ NoRoute \/ Internal \/ HandshakeFails \/ Loop \/ Cleanup
           \/ UNCHANGED vars
  BY <1>1, <1>7
     DEF Receive, EndOfStream, ReadError, ClientShuts, ClientResets, Start,
         StartFails, StartWithoutReader, ScanSymbol, RequestLine,
         RequestLineFails, Preface, PrefaceFails, HeaderField, EndOfHeader, HeaderFails, Body,
         BodyUntilEnd, WithBody, BodyFails, process_http_error, NoRoute, Internal,
         HandshakeFails, Loop, Cleanup, vars, input, answer
<1> QED
  BY <1>3, <1>4, <1>5, <1>6, <1>7 DEF Next, Handler

-----------------------------------------------------------------------------
(* The theorems.                                                           *)

LEMMA InitIInv == Init => IInv
<1> SUFFICES ASSUME Init PROVE IInv
  OBVIOUS
<1>1. sent \in Inputs /\ stream = Encode(sent)
  BY DEF Init
<1>2. Len(stream) \in Nat /\ Len(sent.fields) \in Nat
  BY <1>1, EncodeFacts
<1>3. StreamInv
  BY <1>2 DEF Init, StreamInv, Readers, get_buffered_reader
<1>4. AnswerInv
  <2>1. Len(<< >>) = 0
    OBVIOUS
  <2> QED
    BY <2>1 DEF Init, AnswerInv, Places, Handling, AnsweredOnce
<1>5. ScanInv
  BY <1>2 DEF Init, ScanInv, get_buffered_reader, LinesRead, TextSize, Seen
<1>6. RequestInv
  BY DEF Init, RequestInv, Handling
<1>7. AuthorisedOnly
  BY DEF Init, AuthorisedOnly
<1> QED
  BY <1>3, <1>4, <1>5, <1>6, <1>7 DEF IInv

LEMMA NextIInv == IInv /\ [Next]_vars => IInv'
BY AnswerStep, StreamStep, ScanStep, RequestStep, AuthorisedStep DEF IInv

\* A connection that has ended was answered exactly once, or is one of the
\* named exceptions, and its descriptor was closed or has a new owner: about
\* every path through http_socket_connection_handler.
THEOREM ConnectionAnsweredOnce == Spec => []AnsweredOnce
<1>1. IInv => AnsweredOnce
  BY DEF IInv, AnswerInv
<1> QED
  BY <1>1, InitIInv, NextIInv, PTL DEF Spec

\* What the routes get is the request the client has sent, with the body its
\* fields declare unless one of them says "close", however its symbols arrive and
\* wherever a read cuts them:
\* about get_until_delimiter, get_amount and get_until_end.
THEOREM RequestReadWhole == Spec => []RequestIsTheClients
<1>1. IInv => RequestIsTheClients
  BY DEF IInv, RequestInv, Handed, SaysClose, RequestIsTheClients, DeclaredBody
<1> QED
  BY <1>1, InitIInv, NextIInv, PTL DEF Spec

\* The route that is carried out is the first that fits, and credentials some
\* provider accepts came with the request if it wants any: about
\* route_manager_get_route_for_request, process_matched_route and
\* handle_http_authorization.
THEOREM RoutesAuthorised == Spec => []AuthorisedOnly
<1>1. IInv => AuthorisedOnly
  BY DEF IInv
<1> QED
  BY <1>1, InitIInv, NextIInv, PTL DEF Spec
=============================================================================
