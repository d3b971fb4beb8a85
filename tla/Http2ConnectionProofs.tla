----------------------- MODULE Http2ConnectionProofs -----------------------
(***************************************************************************)
(* What an HTTP/2 connection keeps for any frames and any sizes: types and *)
(* limits of the settings, requests that are whole, one per stream, and    *)
(* served whatever happens on other streams, acknowledgements of all that  *)
(* asks for one, a GOAWAY that covers every request, and responses whose   *)
(* frames the peer takes and that carry every byte once and in order.      *)
(***************************************************************************)
EXTENDS Http2Connection, WellFoundedInduction, FiniteSetTheorems, SequenceTheorems,
        TLAPS

-----------------------------------------------------------------------------
(* The inductive invariant.                                                *)

IsSequence(s) == s \in Seq({s[k] : k \in DOMAIN s})

Histories ==
    /\ IsSequence(received) /\ IsSequence(sent)
    /\ IsSequence(handed) /\ IsSequence(answers)

\* A stream has five parts.
IsStream(s) ==
    /\ DOMAIN s = {"state", "end_stream", "headers_finished", "header_blocks",
                   "data_blocks"}
    /\ s.state \in {"Idle", "Open", "HalfClosed", "Closed"}
    /\ s.end_stream \in BOOLEAN /\ s.headers_finished \in BOOLEAN

\* A stream that has ended takes nothing that a request could be made of.
HasEnded(s) == s.state \in {"HalfClosed", "Closed"} /\ s.end_stream

(* No stream carries two requests, whatever frames follow the first one: a *)
(* RST_STREAM on a closed stream, for instance, makes it half closed again *)
(* (parse_http2_request), and more data must not be taken for a request.   *)
OneRequestPerStream ==
    \A j, k \in DOMAIN handed : handed[j].id = handed[k].id => j = k

\* Streams whose request was handed over have ended and are covered by the
\* last stream id; the request of an upgrade is the first.
StreamsInv ==
    /\ \A id \in DOMAIN streams : IsStream(streams[id])
    /\ phase \in {"start", "magic", "preface"} => handed = << >>
    /\ \A j \in DOMAIN handed :
          /\ handed[j].id \in Nat \cap DOMAIN streams
          /\ HasEnded(streams[handed[j].id])
          /\ handed[j].id <= last_stream_id \/ (upgrade /\ j = 1)
    /\ OneRequestPerStream

\* A GOAWAY is the last thing that happens to the last stream id.
GoawayInv ==
    \A k \in DOMAIN sent : sent[k].type = "GOAWAY" =>
        phase = "done" /\ sent[k].value.last = last_stream_id

\* How many of the requests handed over are answered, or never will be.
Served == IF phase = "respond" THEN Len(handed) - 1 ELSE Len(handed)

\* Every answer is to another request, and to none that is under way.
AnswersInv ==
    /\ phase = "respond" => Len(handed) > 0 /\ request = handed[Len(handed)].id
    /\ Len(answers) <= Served
    /\ \A k \in DOMAIN answers : \E j \in 1..Served : answers[k].id = handed[j].id
    /\ \A j, k \in DOMAIN answers : answers[j].id = answers[k].id => j = k

\* A frame of an answer: as long as it says and no longer than the peer
\* takes, with known flags.
Fits(f, a) ==
    /\ f.length = Len(f.payload)
    /\ Len(f.payload) <= a.limit
    /\ f.flags \subseteq Allowed(f.type)

\* Message frames belong to an answer and fit.
FramesInv ==
    \A k \in DOMAIN sent : sent[k].type \in MessageTypes =>
        \E j \in DOMAIN answers : answers[j].id = sent[k].id /\ Fits(sent[k], answers[j])

IInv == TypeOK /\ Histories /\ StreamsInv /\ GoawayInv /\ AnswersInv /\ FramesInv

(* Every frame of a response is one that the peer takes with the settings  *)
(* it had when the response was sent (http2_send_headers, http2_send_data, *)
(* http2_send_raw_frame): the length in its header is the one it has, no   *)
(* larger than the maximum frame size, and its flags are those of its type.*)
ResponseFramesFit ==
    \A k \in DOMAIN answers : \A j \in DOMAIN sent :
        sent[j].type \in MessageTypes /\ sent[j].id = answers[k].id =>
            Fits(sent[j], answers[k])

-----------------------------------------------------------------------------
(* Sequences of anything, and bounded sets of numbers.                     *)

LEMMA SequenceFacts ==
  ASSUME NEW s, IsSequence(s)
  PROVE  Len(s) \in Nat /\ DOMAIN s = 1..Len(s)
BY DEF IsSequence

LEMMA BuiltSequence ==
  ASSUME NEW S, NEW s \in Seq(S)
  PROVE  IsSequence(s)
<1>1. Len(s) \in Nat /\ DOMAIN s = 1..Len(s) /\ s = [k \in 1..Len(s) |-> s[k]]
  OBVIOUS
<1> DEFINE T == {s[k] : k \in DOMAIN s}
<1>2. \A k \in 1..Len(s) : s[k] \in T
  BY <1>1
<1>3. s \in [1..Len(s) -> T]
  BY <1>1, <1>2
<1> HIDE DEF T
<1>4. s \in Seq(T)
  BY <1>1, <1>3
<1> QED
  BY <1>4 DEF IsSequence, T

LEMMA FunctionIsSequence ==
  ASSUME NEW n \in Nat, NEW s, s = [k \in 1..n |-> s[k]]
  PROVE  IsSequence(s) /\ Len(s) = n
<1> DEFINE T == {s[k] : k \in 1..n}
<1>1. DOMAIN s = 1..n /\ \A k \in 1..n : s[k] \in T
  OBVIOUS
<1> HIDE DEF T
<1>2. s \in [1..n -> T]
  BY <1>1
<1>3. s \in Seq(T)
  BY <1>2
<1> QED
  BY <1>1, <1>3, BuiltSequence

LEMMA AppendFacts ==
  ASSUME NEW s, NEW e, IsSequence(s)
  PROVE  /\ IsSequence(Append(s, e))
         /\ Len(Append(s, e)) = Len(s) + 1
         /\ DOMAIN Append(s, e) = 1..(Len(s) + 1)
         /\ \A k \in 1..Len(s) : Append(s, e)[k] = s[k]
         /\ Append(s, e)[Len(s) + 1] = e
<1> DEFINE S == {s[k] : k \in DOMAIN s} \cup {e}
<1>1. s \in Seq(S) /\ e \in S
  <2>1. s \in Seq({s[k] : k \in DOMAIN s})
    BY DEF IsSequence
  <2>2. \A k \in 1..Len(s) : s[k] \in S
    BY <2>1
  <2> QED
    BY <2>1, <2>2
<1> HIDE DEF S
<1>2. Append(s, e) \in Seq(S)
  BY <1>1
<1>3. IsSequence(Append(s, e))
  BY <1>2, BuiltSequence
<1> QED
  BY <1>1, <1>2, <1>3

LEMMA ConcatFacts ==
  ASSUME NEW s, NEW t, IsSequence(s), IsSequence(t)
  PROVE  /\ IsSequence(s \o t)
         /\ Len(s \o t) = Len(s) + Len(t)
         /\ DOMAIN (s \o t) = 1..(Len(s) + Len(t))
         /\ \A k \in 1..Len(s) : (s \o t)[k] = s[k]
         /\ \A k \in (Len(s) + 1)..(Len(s) + Len(t)) : (s \o t)[k] = t[k - Len(s)]
<1> DEFINE S == {s[k] : k \in DOMAIN s} \cup {t[k] : k \in DOMAIN t}
<1>1. s \in Seq(S) /\ t \in Seq(S)
  <2>1. s \in Seq({s[k] : k \in DOMAIN s}) /\ t \in Seq({t[k] : k \in DOMAIN t})
    BY DEF IsSequence
  <2>2. (\A k \in 1..Len(s) : s[k] \in S) /\ (\A k \in 1..Len(t) : t[k] \in S)
    BY <2>1
  <2> QED
    BY <2>1, <2>2
<1> HIDE DEF S
<1>2. (s \o t) \in Seq(S)
  BY <1>1
<1>3. IsSequence(s \o t)
  BY <1>2, BuiltSequence
<1> QED
  BY <1>1, <1>2, <1>3

LEMMA PrefixFacts ==
  ASSUME NEW s, IsSequence(s), NEW n \in 0..Len(s)
  PROVE  /\ IsSequence(SubSeq(s, 1, n))
         /\ DOMAIN SubSeq(s, 1, n) = 1..n
         /\ \A k \in 1..n : SubSeq(s, 1, n)[k] = s[k]
<1>1. PICK S : s \in Seq(S)
  BY DEF IsSequence
<1>2. SubSeq(s, 1, n) \in Seq(S) /\ DOMAIN SubSeq(s, 1, n) = 1..n
  BY <1>1
<1>3. \A k \in 1..n : SubSeq(s, 1, n)[k] = s[k]
  BY <1>1
<1> QED
  BY <1>2, <1>3, BuiltSequence

LEMMA GreatestNat ==
  ASSUME NEW n \in Nat, NEW T \in SUBSET (1..n), T # {}
  PROVE  Max(T) \in T
<1> DEFINE R == OpToRel(<, Nat)
           U == {n - x : x \in T}
<1>1. IsWellFoundedOn(R, Nat)
  BY NatLessThanWellFounded, Zenon
<1>2. \A x, y \in Nat : y < x => <<y, x>> \in R
  BY DEF OpToRel
<1>3. U \subseteq Nat /\ U # {}
  <2>1. \A x \in T : n - x \in Nat
    OBVIOUS
  <2>2. PICK x \in T : TRUE
    OBVIOUS
  <2>3. n - x \in U
    BY <2>2
  <2> QED
    BY <2>1, <2>3
<1> HIDE DEF R
<1>4. PICK u \in U : \A y \in U : ~ (<<y, u>> \in R)
  BY <1>1, <1>3, WFMin
<1>5. PICK x \in T : u = n - x
  BY <1>4
<1>6. \A y \in T : x >= y
  <2> SUFFICES ASSUME NEW y \in T PROVE x >= y
    OBVIOUS
  <2>1. n - y \in U /\ n - y \in Nat /\ u \in Nat
    BY <1>3
  <2>2. ~(n - y < u)
    BY <1>2, <1>4, <2>1
  <2> QED
    BY <1>5, <2>2
<1> QED
  BY <1>5, <1>6 DEF Max

LEMMA MaxOfTwo ==
  ASSUME NEW a \in Nat, NEW b \in Nat
  PROVE  Max({a, b}) \in Nat /\ Max({a, b}) >= a /\ Max({a, b}) >= b
<1>1. CASE a >= b
  BY <1>1 DEF Max
<1>2. CASE b >= a
  BY <1>2 DEF Max
<1> QED
  BY <1>1, <1>2
-----------------------------------------------------------------------------
(* Settings.                                                               *)

Limits == MinMaxFrameSize..(MaxMaxFrameSize + 1)

SettingsOK(s) == s \in [DOMAIN DefaultSettings -> Nat] /\ s.max_frame_size \in Limits

LEMMA SettingPlaces ==
  ASSUME NEW p \in Seq(Nat)
  PROVE  /\ (Len(p) \div 6) \in Nat
         /\ Known(p) \subseteq 1..(Len(p) \div 6)
         /\ \A k \in Known(p) : ValueAt(p, k) \in Nat
<1>1. (Len(p) \div 6) \in Nat /\ 6 * (Len(p) \div 6) <= Len(p)
  OBVIOUS
<1>2. Known(p) \subseteq 1..(Len(p) \div 6)
  BY DEF Known, HTTP2_SETTINGS_FRAME_SINGLE_SIZE
<1>3. \A k \in 1..(Len(p) \div 6) : 6 * k - 4 \in 1..Len(p)
  BY <1>1
<1> QED
  BY <1>1, <1>2, <1>3 DEF ValueAt

\* http2_apply_settings_frame keeps the limits that were checked before it.
LEMMA AppliedWithinLimits ==
  ASSUME NEW p \in Seq(Nat), SettingsOK(settings), SettingsError(p) = "NO_ERROR"
  PROVE  SettingsOK(Applied(p))
<1> DEFINE Places(name) == {k \in Known(p) : NameAt(p, k) = name}
           n == Len(p) \div 6
           new == Applied(p)
<1>1. \A k \in Known(p) : ~BadSetting(NameAt(p, k), ValueAt(p, k))
  <2>1. {k \in Known(p) : BadSetting(NameAt(p, k), ValueAt(p, k))} = {}
    BY DEF SettingsError
  <2> QED
    BY <2>1, Zenon
<1>2. n \in Nat /\ Known(p) \subseteq 1..n /\ \A k \in Known(p) : ValueAt(p, k) \in Nat
  BY SettingPlaces
<1>3. new = [name \in DOMAIN settings |->
               IF Places(name) = {} THEN settings[name] ELSE ValueAt(p, Max(Places(name)))]
  BY DEF Applied
<1>4. DOMAIN settings = DOMAIN DefaultSettings
  BY DEF SettingsOK
<1> HIDE DEF n, new
<1>5. ASSUME NEW name \in DOMAIN settings, Places(name) # {}
      PROVE  /\ Max(Places(name)) \in Known(p)
             /\ NameAt(p, Max(Places(name))) = name
  <2>1. Places(name) \subseteq 1..n
    BY <1>2
  <2>2. Max(Places(name)) \in Places(name)
    BY <1>2, <1>5, <2>1, GreatestNat
  <2> QED
    BY <2>2
<1>6. ASSUME NEW name \in DOMAIN settings PROVE new[name] \in Nat
  <2>1. CASE Places(name) = {}
    BY <1>3, <2>1 DEF SettingsOK
  <2>2. CASE Places(name) # {}
    BY <1>2, <1>3, <1>5, <2>2
  <2> QED
    BY <2>1, <2>2
<1>7. "max_frame_size" \in DOMAIN settings
  BY <1>4 DEF DefaultSettings
<1>8. new["max_frame_size"] \in Limits
  <2>1. CASE Places("max_frame_size") = {}
    BY <1>3, <1>7, <2>1 DEF SettingsOK
  <2>2. CASE Places("max_frame_size") # {}
    <3>1. PICK k : k = Max(Places("max_frame_size"))
      OBVIOUS
    <3>2. k \in Known(p) /\ NameAt(p, k) = "max_frame_size"
      BY <1>5, <1>7, <2>2, <3>1
    <3>3. ~BadSetting("max_frame_size", ValueAt(p, k)) /\ ValueAt(p, k) \in Nat
      BY <1>1, <1>2, <3>2
    <3>4. ValueAt(p, k) \in Limits
      BY <3>3, Http2Assumption DEF BadSetting, Limits
    <3> QED
      BY <1>3, <1>7, <2>2, <3>1, <3>4
  <2> QED
    BY <2>1, <2>2
<1> QED
  BY <1>3, <1>4, <1>6, <1>8 DEF SettingsOK, new

\* What the parsers accept: a frame of a stream is not on stream 0, and the
\* settings of a SETTINGS frame are within their limits.
LEMMA ParsedFrame ==
  ASSUME NEW f, ParseError(f) = "NO_ERROR"
  PROVE  /\ f.type \in {"DATA", "HEADERS", "PRIORITY", "RST_STREAM", "CONTINUATION"} =>
               f.id # 0
         /\ f.type = "SETTINGS" /\ "ACK" \notin f.flags =>
               SettingsError(f.payload) = "NO_ERROR"
<1>1. f.type = "DATA" => f.id # 0
  BY DEF ParseError, DataError, Verdict
<1>2. f.type = "HEADERS" => f.id # 0
  BY DEF ParseError, HeadersError, Verdict
<1>3. f.type = "PRIORITY" => f.id # 0
  BY DEF ParseError, PriorityError, Verdict
<1>4. f.type = "RST_STREAM" => f.id # 0
  BY DEF ParseError, RstStreamError, Verdict
<1>5. f.type = "CONTINUATION" => f.id # 0
  BY DEF ParseError, ContinuationError, Verdict
<1>6. f.type = "SETTINGS" /\ "ACK" \notin f.flags => SettingsError(f.payload) = "NO_ERROR"
  BY DEF ParseError, SettingsFrameError
<1> QED
  BY <1>1, <1>2, <1>3, <1>4, <1>5, <1>6

-----------------------------------------------------------------------------
(* What is sent.                                                           *)

LEMMA SendFacts ==
  ASSUME NEW fs, IsSequence(fs), IsSequence(sent), Send(fs)
  PROVE  /\ IsSequence(sent')
         /\ \A k \in DOMAIN sent : k \in DOMAIN sent' /\ sent'[k] = sent[k]
         /\ \A k \in DOMAIN sent' : k \in DOMAIN sent \/ \E i \in DOMAIN fs : sent'[k] = fs[i]
<1>1. CASE peer = "up"
  <2>1. sent' = sent \o fs
    BY <1>1 DEF Send
  <2>2. /\ Len(sent) \in Nat /\ DOMAIN sent = 1..Len(sent)
        /\ Len(fs) \in Nat /\ DOMAIN fs = 1..Len(fs)
    BY SequenceFacts
  <2>3. /\ IsSequence(sent') /\ DOMAIN sent' = 1..(Len(sent) + Len(fs))
        /\ \A k \in 1..Len(sent) : sent'[k] = sent[k]
        /\ \A k \in (Len(sent) + 1)..(Len(sent) + Len(fs)) : sent'[k] = fs[k - Len(sent)]
    BY <2>1, ConcatFacts
  <2> QED
    BY <2>2, <2>3
<1>2. CASE peer # "up"
  BY <1>2 DEF Send
<1> QED
  BY <1>1, <1>2

\* The chunks of http2_send_headers and http2_send_data.
LEMMA ChunksFacts ==
  ASSUME NEW n \in Nat, NEW size \in Nat \ {0}
  PROVE  LET c == Chunks(n, size) IN
         /\ Len(c) \in Nat /\ DOMAIN c = 1..Len(c)
         /\ \A k \in DOMAIN c : Len(c[k]) \in Nat /\ Len(c[k]) <= size /\ Len(c[k]) <= n
<1> DEFINE m == (n + size - 1) \div size
           c == Chunks(n, size)
<1>1. m \in Nat /\ m * size <= n + size - 1
  OBVIOUS
<1>2. c = [k \in 1..m |-> [i \in 1..Min({size, n - (k - 1) * size}) |-> (k - 1) * size + i]]
  BY DEF Chunks
<1> HIDE DEF m, c
<1>3. Len(c) = m /\ DOMAIN c = 1..m
  BY <1>1, <1>2
<1>4. ASSUME NEW k \in 1..m
      PROVE  Len(c[k]) \in Nat /\ Len(c[k]) <= size /\ Len(c[k]) <= n
  <2> DEFINE left == n - (k - 1) * size
  <2>5. left <= n
    <3>1. k - 1 \in Nat
      BY <1>1
    <3>2. \A a, b \in Nat : a * b \in Nat
      OBVIOUS
    <3>3. (k - 1) * size \in Nat
      BY <3>1, <3>2
    <3> QED
      BY <3>3
  <2>1. left \in Nat
    <3>1. k * size <= m * size
      BY <1>1
    <3>2. (k - 1) * size = k * size - size /\ k * size \in Int /\ m * size \in Int
      BY <1>1
    <3> QED
      BY <1>1, <3>1, <3>2
  <2> HIDE DEF left
  <2>2. Min({size, left}) \in Nat /\ Min({size, left}) <= size /\ Min({size, left}) <= left
    <3>1. CASE size <= left
      BY <2>1, <3>1 DEF Min
    <3>2. CASE left <= size
      BY <2>1, <3>2 DEF Min
    <3> QED
      BY <2>1, <3>1, <3>2
  <2>3. PICK l : l = Min({size, left})
    OBVIOUS
  <2>4. c[k] = [i \in 1..l |-> (k - 1) * size + i]
    BY <1>2, <2>3 DEF left
  <2>6. Len(c[k]) = l
    BY <2>2, <2>3, <2>4
  <2> QED
    BY <2>1, <2>2, <2>3, <2>5, <2>6
<1> QED
  BY <1>1, <1>3, <1>4 DEF c

LEMMA FlagsAllowed ==
  /\ Allowed("HEADERS") = {"END_STREAM", "END_HEADERS", "PADDED", "PRIORITY"}
  /\ Allowed("CONTINUATION") = {"END_HEADERS"}
  /\ Allowed("DATA") = {"END_STREAM", "PADDED"}
BY DEF Allowed

\* The frames of a response fit the peer's settings.
ResponseFrame(f, id) ==
    /\ f.id = id /\ f.type # "GOAWAY"
    /\ Len(f.payload) <= settings.max_frame_size
    /\ f.flags \subseteq Allowed(f.type)

LEMMA ResponseFrames ==
  ASSUME SettingsOK(settings), NEW id, NEW r \in Responses
  PROVE  /\ IsSequence(HeaderFrames(id, r)) /\ IsSequence(DataFrames(id, r))
         /\ \A k \in DOMAIN HeaderFrames(id, r) : ResponseFrame(HeaderFrames(id, r)[k], id)
         /\ \A k \in DOMAIN DataFrames(id, r) : ResponseFrame(DataFrames(id, r)[k], id)
<1> DEFINE hc == Chunks(r.headers, HeaderLimit(settings))
           dc == Chunks(r.body, DataLimit(settings))
           h == HeaderFrames(id, r)
           d == DataFrames(id, r)
           max == settings.max_frame_size
<1>1. /\ max \in Nat /\ HeaderLimit(settings) \in Nat \ {0} /\ HeaderLimit(settings) <= max
      /\ DataLimit(settings) \in Nat \ {0} /\ DataLimit(settings) <= max
  BY Http2Assumption DEF SettingsOK, Limits, HeaderLimit, DataLimit,
     AdditionalHeadersDataSize
<1>2. r.headers \in Nat /\ r.body \in Nat
  BY Http2Assumption
<1>3. /\ Len(hc) \in Nat /\ DOMAIN hc = 1..Len(hc)
      /\ \A k \in DOMAIN hc : Len(hc[k]) \in Nat /\ Len(hc[k]) <= HeaderLimit(settings)
  BY <1>1, <1>2, ChunksFacts
<1>4. /\ Len(dc) \in Nat /\ DOMAIN dc = 1..Len(dc)
      /\ \A k \in DOMAIN dc : Len(dc[k]) \in Nat /\ Len(dc[k]) <= DataLimit(settings)
  BY <1>1, <1>2, ChunksFacts
<1>5. h = [k \in DOMAIN hc |->
            [type |-> IF k = 1 THEN "HEADERS" ELSE "CONTINUATION", id |-> id,
             flags |-> Flag("END_HEADERS", k = Len(hc)) \cup
                       Flag("END_STREAM", k = 1 /\ r.null),
             length |-> HeaderLength(Len(hc[k])), payload |-> hc[k]]]
  BY DEF HeaderFrames
<1>6. d = [k \in DOMAIN dc |->
            [type |-> "DATA", id |-> id,
             flags |-> Flag("END_STREAM", k = Len(dc)),
             length |-> HeaderLength(Len(dc[k])), payload |-> dc[k]]]
  BY DEF DataFrames
<1> HIDE DEF hc, dc, h, d, max
<1>7. ASSUME NEW k \in DOMAIN h
      PROVE  /\ h[k].id = id /\ h[k].type # "GOAWAY"
             /\ Len(h[k].payload) <= max
             /\ h[k].flags \subseteq Allowed(h[k].type)
  <2>1. /\ h[k].id = id /\ h[k].payload = hc[k]
        /\ h[k].type = IF k = 1 THEN "HEADERS" ELSE "CONTINUATION"
        /\ h[k].flags = Flag("END_HEADERS", k = Len(hc)) \cup
                        Flag("END_STREAM", k = 1 /\ r.null)
    BY <1>5
  <2>2. Len(h[k].payload) <= max
    BY <1>1, <1>3, <1>5, <2>1
  <2>3. h[k].flags \subseteq Allowed(h[k].type)
    BY <2>1, FlagsAllowed DEF Flag
  <2> QED
    BY <2>1, <2>2, <2>3
<1>8. ASSUME NEW k \in DOMAIN d
      PROVE  /\ d[k].id = id /\ d[k].type # "GOAWAY"
             /\ Len(d[k].payload) <= max
             /\ d[k].flags \subseteq Allowed(d[k].type)
  <2>1. /\ d[k].id = id /\ d[k].payload = dc[k] /\ d[k].type = "DATA"
        /\ d[k].flags = Flag("END_STREAM", k = Len(dc))
    BY <1>6
  <2>2. Len(d[k].payload) <= max
    BY <1>1, <1>4, <1>6, <2>1
  <2>3. d[k].flags \subseteq Allowed(d[k].type)
    BY <2>1, FlagsAllowed DEF Flag
  <2> QED
    BY <2>1, <2>2, <2>3
<1>9. IsSequence(h) /\ IsSequence(d)
  <2>1. h = [k \in 1..Len(hc) |-> h[k]]
    BY <1>3, <1>5
  <2>2. d = [k \in 1..Len(dc) |-> d[k]]
    BY <1>4, <1>6
  <2> QED
    BY <1>3, <1>4, <2>1, <2>2, FunctionIsSequence
<1> QED
  BY <1>7, <1>8, <1>9 DEF h, d, max, ResponseFrame
-----------------------------------------------------------------------------
(* What every step does to frames, streams and what was sent.              *)

ReceivedOK ==
    /\ IsSequence(received) /\ Len(received) <= MaxFrames
    /\ \A k \in DOMAIN received : received[k] \in Frames[k]

LEMMA ArrivalKeeps ==
  ASSUME ReceivedOK, Len(received) < MaxFrames, NEW f \in Frames[Len(received) + 1],
         received' = Append(received, f)
  PROVE  ReceivedOK' /\ f.id \in Nat /\ f.payload \in Seq(Nat)
<1>1. Len(received) \in Nat /\ DOMAIN received = 1..Len(received) /\ MaxFrames \in Nat
  BY SequenceFacts, FramesAssumption DEF ReceivedOK, MaxFrames
<1>2. /\ IsSequence(received') /\ Len(received') = Len(received) + 1
      /\ DOMAIN received' = 1..(Len(received) + 1)
      /\ \A k \in 1..Len(received) : received'[k] = received[k]
      /\ received'[Len(received) + 1] = f
  BY AppendFacts DEF ReceivedOK
<1>3. Len(received)' = Len(received) + 1
  BY <1>2
<1>4. ReceivedOK'
  BY <1>1, <1>2, <1>3 DEF ReceivedOK, MaxFrames
<1> QED
  BY <1>1, <1>4, FramesAssumption DEF MaxFrames

StreamsOK == \A id \in DOMAIN streams : id # 0 /\ IsStream(streams[id])

\* Streams that have ended stay so.
Keeps ==
    /\ \A id \in DOMAIN streams' : id # 0 /\ IsStream(streams'[id])
    /\ \A id \in DOMAIN streams : HasEnded(streams[id]) =>
          id \in DOMAIN streams' /\ HasEnded(streams'[id])

LEMMA SetStreamKeeps ==
  ASSUME StreamsOK, NEW id, NEW s, id # 0, IsStream(s), SetStream(id, s),
         id \in DOMAIN streams /\ HasEnded(streams[id]) => HasEnded(s)
  PROVE  Keeps /\ id \in DOMAIN streams' /\ streams'[id] = s
BY DEF StreamsOK, Keeps, SetStream

LEMMA NewStream ==
  ASSUME NEW state \in {"Idle", "Open", "HalfClosed"}, NEW end \in BOOLEAN
  PROVE  /\ IsStream(Stream(state, end))
         /\ Stream(state, end).state = state /\ Stream(state, end).end_stream = end
         /\ Stream(state, end).headers_finished = FALSE
BY DEF Stream, IsStream

LEMMA ClosedStream ==
  ASSUME NEW s, IsStream(s)
  PROVE  IsStream(Closed(s)) /\ (s.end_stream => HasEnded(Closed(s)))
BY DEF IsStream, Closed, HasEnded

LEMMA HalfClosedStream ==
  ASSUME NEW s, IsStream(s)
  PROVE  LET t == [s EXCEPT !.state = "HalfClosed"] IN
         IsStream(t) /\ t.state = "HalfClosed" /\ t.end_stream = s.end_stream
BY DEF IsStream

LEMMA EndingStream ==
  ASSUME NEW s, IsStream(s), NEW f
  PROVE  IsStream([s EXCEPT !.end_stream = @ \/ "END_STREAM" \in f.flags])
BY DEF IsStream

LEMMA OpenStream ==
  ASSUME NEW f
  PROVE  IsStream(Stream("Open", "END_STREAM" \in f.flags))
BY DEF IsStream, Stream

LEMMA GrownStream ==
  ASSUME NEW s, IsStream(s), NEW f
  PROVE  IsStream(AddHeaderBlock(s, f)) /\ IsStream(AddContentBlock(s, f))
BY DEF IsStream, AddHeaderBlock, AddContentBlock

LEMMA StreamErrorKeeps ==
  ASSUME StreamsOK, NEW id,
         streams' = [i \in DOMAIN streams |->
                       IF i = id THEN Closed(streams[i]) ELSE streams[i]]
  PROVE  Keeps
<1>1. \A i \in DOMAIN streams :
         /\ IsStream(Closed(streams[i]))
         /\ streams[i].end_stream => HasEnded(Closed(streams[i]))
  BY ClosedStream DEF StreamsOK
<1> QED
  BY <1>1 DEF StreamsOK, Keeps, HasEnded

\* Besides the frames of a response only control frames are sent, and a GOAWAY
\* only by the last step, with the last stream id.
SendsControl ==
    /\ IsSequence(sent')
    /\ \A k \in DOMAIN sent : k \in DOMAIN sent' /\ sent'[k] = sent[k]
    /\ \A k \in DOMAIN sent' : k \in DOMAIN sent \/
          /\ sent'[k].type \notin MessageTypes
          /\ sent'[k].type = "GOAWAY" =>
                phase' = "done" /\ sent'[k].value.last = last_stream_id'

\* What is sent when a request or a preface is refused.
AnyError == {ErrorPage, Goaway("PROTOCOL_ERROR")}

LEMMA ErrorsAre == Errors \subseteq AnyError
BY DEF Errors, PrefaceErrors, AnyError

LEMMA ControlFrames ==
  ASSUME IsSequence(sent)
  PROVE  /\ UNCHANGED sent => SendsControl
         /\ Send(<< >>) => SendsControl
         /\ \A type \in {"SETTINGS", "PING", "RST_STREAM"} : \A id, value :
               Send(<<ControlFrame(type, id, value)>>) => SendsControl
         /\ Send(<<ErrorPage>>) => SendsControl
         /\ phase' = "done" /\ UNCHANGED last_stream_id =>
               \A code : \A e \in AnyError :
                  /\ Send(<<e>>) => SendsControl
                  /\ Send(<<Goaway(code), e>>) => SendsControl
                  /\ Send(<<ServerPreface, Goaway(code), e>>) => SendsControl
<1> DEFINE Harmless(f) == f.type \notin MessageTypes /\ f.type # "GOAWAY"
           Announces(f) == f.type \notin MessageTypes /\ f.value.last = last_stream_id
<1>1. ASSUME NEW fs, IsSequence(fs), Send(fs),
             \A i \in DOMAIN fs : Harmless(fs[i]) \/
                (Announces(fs[i]) /\ phase' = "done" /\ UNCHANGED last_stream_id)
      PROVE  SendsControl
  <2>1. /\ IsSequence(sent')
        /\ \A k \in DOMAIN sent : k \in DOMAIN sent' /\ sent'[k] = sent[k]
        /\ \A k \in DOMAIN sent' :
              k \in DOMAIN sent \/ \E i \in DOMAIN fs : sent'[k] = fs[i]
    BY <1>1, SendFacts
  <2> QED
    BY <1>1, <2>1 DEF SendsControl
<1>2. UNCHANGED sent => SendsControl
  BY DEF SendsControl
<1>3. /\ IsSequence(<< >>) /\ DOMAIN << >> = {}
      /\ \A a : IsSequence(<<a>>) /\ DOMAIN <<a>> = {1}
      /\ \A a, b : IsSequence(<<a, b>>) /\ DOMAIN <<a, b>> = {1, 2}
      /\ \A a, b, c : IsSequence(<<a, b, c>>) /\ DOMAIN <<a, b, c>> = {1, 2, 3}
  <2>1. << >> \in Seq({}) /\ \A a : <<a>> \in Seq({a})
    OBVIOUS
  <2>2. \A a, b : <<a, b>> \in Seq({a, b})
    OBVIOUS
  <2>3. \A a, b, c : <<a, b, c>> \in Seq({a, b, c})
    OBVIOUS
  <2>4. /\ IsSequence(<< >>) /\ \A a : IsSequence(<<a>>)
        /\ \A a, b : IsSequence(<<a, b>>)
        /\ \A a, b, c : IsSequence(<<a, b, c>>)
    BY <2>1, <2>2, <2>3, BuiltSequence, Zenon
  <2> QED
    BY <2>4
<1>4. /\ \A type \in {"SETTINGS", "PING", "RST_STREAM"} : \A id, value :
            Harmless(ControlFrame(type, id, value))
      /\ Harmless(ErrorPage) /\ Harmless(ServerPreface)
      /\ \A code : Announces(Goaway(code))
  BY DEF ControlFrame, ErrorPage, ServerPreface, Goaway, MessageTypes, HeaderTypes
<1> HIDE DEF Harmless, Announces
<1>5. Send(<< >>) => SendsControl
  BY <1>1, <1>3
<1>6. \A f : Harmless(f) /\ Send(<<f>>) => SendsControl
  <2> SUFFICES ASSUME NEW f, Harmless(f), Send(<<f>>) PROVE SendsControl
    OBVIOUS
  <2>1. <<f>>[1] = f
    OBVIOUS
  <2> QED
    BY <1>1, <1>3, <2>1
<1>7. ASSUME phase' = "done", UNCHANGED last_stream_id, NEW code, NEW x \in AnyError
      PROVE  /\ Send(<<x>>) => SendsControl
             /\ Send(<<Goaway(code), x>>) => SendsControl
             /\ Send(<<ServerPreface, Goaway(code), x>>) => SendsControl
  <2>1. PICK g, e, p : g = Goaway(code) /\ e = x /\ p = ServerPreface
    OBVIOUS
  <2>2. Announces(g) /\ (Harmless(e) \/ Announces(e)) /\ Harmless(p)
    BY <1>4, <1>7, <2>1 DEF AnyError
  <2>5. Send(<<e>>) => SendsControl
    <3>1. <<e>>[1] = e
      OBVIOUS
    <3> QED
      BY <1>1, <1>3, <1>7, <2>2, <3>1
  <2>3. Send(<<g, e>>) => SendsControl
    <3>1. <<g, e>>[1] = g /\ <<g, e>>[2] = e
      OBVIOUS
    <3> QED
      BY <1>1, <1>3, <1>7, <2>2, <3>1
  <2>4. Send(<<p, g, e>>) => SendsControl
    <3>1. <<p, g, e>>[1] = p /\ <<p, g, e>>[2] = g /\ <<p, g, e>>[3] = e
      OBVIOUS
    <3> QED
      BY <1>1, <1>3, <1>7, <2>2, <3>1
  <2> QED
    BY <2>1, <2>3, <2>4, <2>5
<1> QED
  BY <1>2, <1>4, <1>5, <1>6, <1>7
-----------------------------------------------------------------------------
(* The three kinds of steps.                                               *)

LEMMA InvFacts ==
  ASSUME IInv
  PROVE  /\ SettingsOK(settings) /\ ReceivedOK /\ StreamsOK
         /\ IsSequence(sent) /\ IsSequence(handed) /\ IsSequence(answers)
         /\ Len(handed) \in Nat /\ DOMAIN handed = 1..Len(handed)
         /\ Len(answers) \in Nat /\ DOMAIN answers = 1..Len(answers)
         /\ Len(sent) \in Nat /\ DOMAIN sent = 1..Len(sent)
<1>1. SettingsOK(settings) /\ ReceivedOK /\ StreamsOK
  BY DEF IInv, TypeOK, SettingsOK, Limits, ReceivedOK, Histories, StreamsOK, StreamsInv
<1>2. IsSequence(sent) /\ IsSequence(handed) /\ IsSequence(answers)
  BY DEF IInv, Histories
<1> QED
  BY <1>1, <1>2, SequenceFacts

\* A step that hands over no request and answers none.
LEMMA QuietStep ==
  ASSUME IInv, phase \notin {"respond", "done"},
         phase' \in {"magic", "preface", "frames", "done"},
         phase' \in {"magic", "preface"} => phase \in {"start", "magic", "preface"},
         UNCHANGED <<upgrade, request, peer, handed, answers>>,
         SettingsOK(settings'), Keeps, ReceivedOK', SendsControl,
         last_stream_id' \in Nat, last_stream_id' >= last_stream_id
  PROVE  IInv'
<1> USE InvFacts
<1>1. TypeOK'
  BY DEF IInv, TypeOK, SettingsOK, Limits, Keeps, IsStream, ReceivedOK
<1>2. Histories'
  BY DEF IInv, Histories, ReceivedOK, SendsControl
<1>3. StreamsInv'
  <2>1. /\ \A id \in DOMAIN streams' : IsStream(streams'[id])
        /\ phase' \in {"start", "magic", "preface"} => handed' = << >>
    BY DEF IInv, StreamsInv, Keeps
  <2>2. ASSUME NEW j \in DOMAIN handed
        PROVE  /\ handed[j].id \in Nat \cap DOMAIN streams'
               /\ HasEnded(streams'[handed[j].id])
               /\ handed[j].id <= last_stream_id' \/ (upgrade /\ j = 1)
    <3>1. /\ handed[j].id \in Nat \cap DOMAIN streams /\ HasEnded(streams[handed[j].id])
          /\ handed[j].id <= last_stream_id \/ (upgrade /\ j = 1)
          /\ last_stream_id \in Nat
      BY DEF IInv, StreamsInv, TypeOK
    <3> QED
      BY <3>1 DEF Keeps
  <2> QED
    BY <2>1, <2>2 DEF IInv, StreamsInv, OneRequestPerStream, IsStream, HasEnded
<1>4. GoawayInv'
  BY DEF IInv, GoawayInv, SendsControl
<1>5. AnswersInv'
  BY DEF IInv, AnswersInv, Served
<1>6. FramesInv'
  BY DEF IInv, FramesInv, SendsControl, Fits
<1> QED
  BY <1>1, <1>2, <1>3, <1>4, <1>5, <1>6 DEF IInv

\* A step that hands a request over, the first of its stream.
LEMMA HandStep ==
  ASSUME IInv, phase \in {"preface", "frames"},
         NEW id \in Nat \ {0}, NEW headers, NEW body, Hand(id, headers, body),
         \A j \in DOMAIN handed : handed[j].id # id,
         UNCHANGED <<upgrade, peer, answers>>,
         SettingsOK(settings'), Keeps, ReceivedOK', SendsControl,
         id \in DOMAIN streams', HasEnded(streams'[id]),
         last_stream_id' \in Nat, last_stream_id' >= last_stream_id,
         id <= last_stream_id' \/ (upgrade /\ handed = << >>)
  PROVE  IInv'
<1> USE InvFacts
<1>1. PICK h : h = [id |-> id, headers |-> headers, body |-> body, at |-> Len(received')]
  OBVIOUS
<1>2. h.id = id /\ handed' = Append(handed, h) /\ phase' = "respond" /\ request' = id
  BY <1>1 DEF Hand
<1>3. /\ IsSequence(handed') /\ Len(handed') = Len(handed) + 1
      /\ DOMAIN handed' = 1..(Len(handed) + 1)
      /\ \A k \in 1..Len(handed) : handed'[k] = handed[k]
      /\ handed'[Len(handed) + 1] = h
  BY <1>2, AppendFacts
<1>4. Len(answers) <= Len(handed)
  BY DEF IInv, TypeOK
<1>5. TypeOK'
  BY <1>2, <1>3, <1>4 DEF IInv, TypeOK, SettingsOK, Limits, Keeps, IsStream, ReceivedOK
<1>6. Histories'
  BY <1>3 DEF IInv, Histories, ReceivedOK, SendsControl
<1>7. StreamsInv'
  <2>1. \A i \in DOMAIN streams' : IsStream(streams'[i])
    BY DEF Keeps
  <2>2. ASSUME NEW j \in DOMAIN handed'
        PROVE  /\ handed'[j].id \in Nat \cap DOMAIN streams'
               /\ HasEnded(streams'[handed'[j].id])
               /\ handed'[j].id <= last_stream_id' \/ (upgrade' /\ j = 1)
    <3>1. CASE j = Len(handed) + 1
      <4>1. handed = << >> => j = 1
        BY <3>1
      <4> QED
        BY <1>2, <1>3, <3>1, <4>1
    <3>2. CASE j \in 1..Len(handed)
      <4>1. /\ handed[j].id \in Nat \cap DOMAIN streams
            /\ HasEnded(streams[handed[j].id])
            /\ handed[j].id <= last_stream_id \/ (upgrade /\ j = 1)
            /\ last_stream_id \in Nat
        BY <3>2 DEF IInv, StreamsInv, TypeOK
      <4>2. /\ handed'[j].id \in Nat \cap DOMAIN streams'
            /\ HasEnded(streams'[handed'[j].id])
        BY <1>3, <3>2, <4>1 DEF Keeps
      <4> QED
        BY <1>3, <3>2, <4>1, <4>2
    <3> QED
      BY <1>3, <3>1, <3>2
  <2>3. OneRequestPerStream'
    <3>1. ASSUME NEW j \in DOMAIN handed', NEW k \in DOMAIN handed',
                 handed'[j].id = handed'[k].id
          PROVE  j = k
      <4>1. CASE j \in 1..Len(handed) /\ k \in 1..Len(handed)
        BY <1>3, <3>1, <4>1 DEF IInv, StreamsInv, OneRequestPerStream
      <4>2. CASE j = Len(handed) + 1 \/ k = Len(handed) + 1
        BY <1>2, <1>3, <3>1, <4>2
      <4> QED
        BY <1>3, <4>1, <4>2
    <3> QED
      BY <3>1 DEF OneRequestPerStream
  <2> QED
    BY <1>2, <2>1, <2>2, <2>3 DEF StreamsInv, HasEnded, IsStream
<1>8. GoawayInv'
  BY DEF IInv, GoawayInv, SendsControl
<1>9. AnswersInv'
  <2>1. Served = Len(handed) /\ Served' = Len(handed)
    <3>1. Served = Len(handed)
      BY DEF Served
    <3>2. Served' = Len(handed') - 1
      BY <1>2 DEF Served
    <3>3. Len(handed') = Len(handed) + 1 /\ Len(handed) \in Nat
      BY <1>3
    <3> QED
      BY <3>1, <3>2, <3>3
  <2>2. /\ Len(handed') > 0 /\ request' = handed'[Len(handed')].id
    BY <1>2, <1>3
  <2>3. ASSUME NEW k \in DOMAIN answers
        PROVE  \E j \in 1..Served' : answers[k].id = handed'[j].id
    <3>1. PICK j \in 1..Len(handed) : answers[k].id = handed[j].id
      BY <2>1 DEF IInv, AnswersInv
    <3> QED
      BY <1>3, <2>1, <3>1
  <2> QED
    BY <1>4, <2>1, <2>2, <2>3 DEF IInv, AnswersInv
<1>10. FramesInv'
  BY DEF IInv, FramesInv, SendsControl, Fits
<1> QED
  BY <1>5, <1>6, <1>7, <1>8, <1>9, <1>10 DEF IInv
\* A response goes out, whole or in part.
LEMMA RespondStep ==
  ASSUME IInv, Respond
  PROVE  IInv'
<1> USE InvFacts
<1>1. PICK r \in Responses :
        LET all == HeaderFrames(request, r) \o DataFrames(request, r) IN
        \E n \in 0..Len(all) :
          /\ \A k \in 1..n : Goes(all[k])
          /\ peer' \in {"gone", peer}
          /\ sent' = sent \o SubSeq(all, 1, n)
          /\ answers' = Append(answers,
                [id |-> request, response |-> r, whole |-> n = Len(all),
                 limit |-> settings.max_frame_size])
  BY DEF Respond
<1> DEFINE h == HeaderFrames(request, r)
           d == DataFrames(request, r)
<1>2. PICK n \in 0..Len(h \o d) :
        /\ \A k \in 1..n : Goes((h \o d)[k])
        /\ peer' \in {"gone", peer}
        /\ sent' = sent \o SubSeq(h \o d, 1, n)
        /\ answers' = Append(answers,
              [id |-> request, response |-> r, whole |-> n = Len(h \o d),
               limit |-> settings.max_frame_size])
  BY <1>1
<1>3. PICK a : a = [id |-> request, response |-> r, whole |-> n = Len(h \o d),
                    limit |-> settings.max_frame_size]
  OBVIOUS
<1>4. /\ phase = "respond" /\ phase' \in {"frames", "done"} /\ request' = 0
      /\ UNCHANGED <<upgrade, settings, streams, last_stream_id, decoded, received, handed>>
      /\ answers' = Append(answers, a)
      /\ a.id = request /\ a.limit = settings.max_frame_size
  BY <1>2, <1>3 DEF Respond, context
<1>5. /\ IsSequence(answers') /\ Len(answers') = Len(answers) + 1
      /\ DOMAIN answers' = 1..(Len(answers) + 1)
      /\ \A k \in 1..Len(answers) : answers'[k] = answers[k]
      /\ answers'[Len(answers) + 1] = a
  BY <1>4, AppendFacts
<1>6. /\ IsSequence(h) /\ IsSequence(d)
      /\ \A k \in DOMAIN h : ResponseFrame(h[k], request)
      /\ \A k \in DOMAIN d : ResponseFrame(d[k], request)
  BY ResponseFrames
<1> HIDE DEF h, d
<1>7. PICK all : all = h \o d
  OBVIOUS
<1> DEFINE Right(f) == f.id = a.id /\ f.type # "GOAWAY" /\ (Goes(f) => Fits(f, a))
<1>8. /\ IsSequence(all) /\ Len(all) \in Nat
      /\ \A k \in 1..Len(all) : Right(all[k])
  <2>1. Len(h) \in Nat /\ DOMAIN h = 1..Len(h) /\ Len(d) \in Nat /\ DOMAIN d = 1..Len(d)
    BY <1>6, SequenceFacts
  <2>2. /\ IsSequence(all) /\ Len(all) = Len(h) + Len(d)
        /\ \A k \in 1..Len(h) : all[k] = h[k]
        /\ \A k \in (Len(h) + 1)..(Len(h) + Len(d)) : all[k] = d[k - Len(h)]
    BY <1>6, <1>7, ConcatFacts
  <2>3. \A k \in 1..Len(h) : Right(all[k])
    BY <1>4, <1>6, <2>1, <2>2 DEF Fits, ResponseFrame, Goes
  <2>4. \A k \in (Len(h) + 1)..(Len(h) + Len(d)) : Right(all[k])
    <3> SUFFICES ASSUME NEW k \in (Len(h) + 1)..(Len(h) + Len(d)) PROVE Right(all[k])
      OBVIOUS
    <3>1. k - Len(h) \in DOMAIN d /\ all[k] = d[k - Len(h)]
      BY <2>1, <2>2
    <3> QED
      BY <1>4, <1>6, <3>1 DEF Fits, ResponseFrame, Goes
  <2> HIDE DEF Right
  <2> QED
    BY <2>1, <2>2, <2>3, <2>4
<1>9. PICK fs : fs = SubSeq(all, 1, n)
  OBVIOUS
<1>10. /\ IsSequence(fs) /\ DOMAIN fs = 1..n /\ n \in 0..Len(all)
       /\ \A k \in 1..n : fs[k].id = a.id /\ fs[k].type # "GOAWAY" /\ Fits(fs[k], a)
  <2>1. n \in 0..Len(all) /\ \A k \in 1..n : Goes(all[k])
    BY <1>2, <1>7
  <2>2. IsSequence(fs) /\ DOMAIN fs = 1..n /\ \A k \in 1..n : fs[k] = all[k]
    BY <1>8, <1>9, <2>1, PrefixFacts
  <2> QED
    BY <1>8, <2>1, <2>2
<1>11. /\ IsSequence(sent') /\ \A k \in DOMAIN sent : k \in DOMAIN sent' /\ sent'[k] = sent[k]
       /\ \A k \in DOMAIN sent' : k \in DOMAIN sent \/ \E i \in 1..n : sent'[k] = fs[i]
  <2>1. sent' = sent \o fs
    BY <1>2, <1>7, <1>9
  <2>2. Len(fs) \in Nat /\ 1..n = 1..Len(fs)
    BY <1>10, SequenceFacts
  <2>3. /\ IsSequence(sent') /\ DOMAIN sent' = 1..(Len(sent) + Len(fs))
        /\ \A k \in 1..Len(sent) : sent'[k] = sent[k]
        /\ \A k \in (Len(sent) + 1)..(Len(sent) + Len(fs)) : sent'[k] = fs[k - Len(sent)]
    BY <1>10, <2>1, ConcatFacts
  <2>4. \A k \in (Len(sent) + 1)..(Len(sent) + Len(fs)) : k - Len(sent) \in 1..n
    BY <2>2
  <2> QED
    BY <2>2, <2>3, <2>4
<1>12. /\ Len(handed) > 0 /\ request = handed[Len(handed)].id
       /\ Served = Len(handed) - 1 /\ Served' = Len(handed)
  <2>1. Served = Len(handed) - 1 /\ Served' = Len(handed)
    BY <1>4 DEF Served
  <2> QED
    BY <1>4, <2>1 DEF IInv, AnswersInv
<1>13. TypeOK'
  <2>1. peer' \in {"up", "gone"}
    BY <1>2 DEF IInv, TypeOK
  <2>2. Len(answers') <= Len(handed')
    BY <1>4, <1>5, <1>12 DEF IInv, AnswersInv
  <2> QED
    BY <1>4, <2>1, <2>2 DEF IInv, TypeOK
<1>14. Histories'
  BY <1>4, <1>5, <1>11 DEF IInv, Histories
<1>15. StreamsInv'
  BY <1>4 DEF IInv, StreamsInv, OneRequestPerStream
<1>16. GoawayInv'
  BY <1>4, <1>10, <1>11 DEF IInv, GoawayInv
<1>17. AnswersInv'
  <2>1. Len(answers') <= Served'
    BY <1>5, <1>12 DEF IInv, AnswersInv
  <2>2. ASSUME NEW k \in 1..Len(answers)
        PROVE  \E j \in 1..(Len(handed) - 1) : answers[k].id = handed[j].id
    <3>1. k \in DOMAIN answers
      OBVIOUS
    <3>2. PICK j \in 1..Served : answers[k].id = handed[j].id
      BY <3>1 DEF IInv, AnswersInv
    <3> QED
      BY <1>12, <3>2
  <2>3. ASSUME NEW k \in 1..Len(answers) PROVE answers[k].id # a.id
    <3>1. PICK j \in 1..(Len(handed) - 1) : answers[k].id = handed[j].id
      BY <2>2
    <3>2. j \in DOMAIN handed /\ Len(handed) \in DOMAIN handed /\ j # Len(handed)
      <4>1. PICK n2 \in Nat : n2 = Len(handed) /\ DOMAIN handed = 1..n2
        OBVIOUS
      <4>2. n2 > 0 /\ j \in 1..(n2 - 1)
        BY <1>12, <3>1, <4>1
      <4>3. j \in 1..n2 /\ n2 \in 1..n2 /\ j # n2
        BY <4>2
      <4> QED
        BY <4>1, <4>3
    <3> QED
      BY <1>4, <1>12, <3>1, <3>2 DEF IInv, StreamsInv, OneRequestPerStream
  <2>4. ASSUME NEW k \in DOMAIN answers'
        PROVE  \E j \in 1..Served' : answers'[k].id = handed'[j].id
    <3>1. CASE k \in 1..Len(answers)
      <4>1. PICK j \in 1..(Len(handed) - 1) : answers[k].id = handed[j].id
        BY <2>2, <3>1
      <4> QED
        BY <1>4, <1>5, <1>12, <3>1, <4>1
    <3>2. CASE k = Len(answers) + 1
      <4>1. Len(handed) \in 1..Served' /\ answers'[k].id = handed'[Len(handed)].id
        BY <1>4, <1>5, <1>12, <3>2
      <4> QED
        BY <4>1
    <3> QED
      BY <1>5, <3>1, <3>2
  <2>5. ASSUME NEW j \in DOMAIN answers', NEW k \in DOMAIN answers',
               answers'[j].id = answers'[k].id
        PROVE  j = k
    <3>1. CASE j \in 1..Len(answers) /\ k \in 1..Len(answers)
      BY <1>5, <2>5, <3>1 DEF IInv, AnswersInv
    <3>2. CASE j = Len(answers) + 1 \/ k = Len(answers) + 1
      BY <1>5, <2>3, <2>5, <3>2
    <3> QED
      BY <1>5, <3>1, <3>2
  <2> QED
    BY <1>4, <2>1, <2>4, <2>5 DEF AnswersInv
<1>18. FramesInv'
  <2> SUFFICES ASSUME NEW k \in DOMAIN sent', sent'[k].type \in MessageTypes
               PROVE  \E j \in DOMAIN answers' :
                         answers'[j].id = sent'[k].id /\ Fits(sent'[k], answers'[j])
    BY DEF FramesInv, Fits
  <2>1. CASE k \in DOMAIN sent
    <3>1. PICK j \in DOMAIN answers :
             answers[j].id = sent[k].id /\ Fits(sent[k], answers[j])
      BY <1>11, <2>1 DEF IInv, FramesInv
    <3> QED
      BY <1>5, <1>11, <2>1, <3>1
  <2>2. CASE \E i \in 1..n : sent'[k] = fs[i]
    <3>1. Len(answers) + 1 \in DOMAIN answers'
      BY <1>5
    <3> QED
      BY <1>5, <1>10, <2>2, <3>1
  <2> QED
    BY <1>11, <2>1, <2>2
<1> QED
  BY <1>13, <1>14, <1>15, <1>16, <1>17, <1>18 DEF IInv
-----------------------------------------------------------------------------
(* The actions.                                                            *)

LEMMA LeaveStep ==
  ASSUME IInv, phase \notin {"respond", "done"}, NEW fs, Leave(fs), ReceivedOK', SendsControl
  PROVE  IInv'
<1>1. /\ phase' = "done" /\ UNCHANGED <<upgrade, request, peer, handed, answers>>
      /\ UNCHANGED <<settings, streams, last_stream_id>>
  BY DEF Leave, context
<1>2. Keeps /\ SettingsOK(settings')
  BY <1>1, InvFacts DEF Keeps, StreamsOK
<1>3. last_stream_id' \in Nat /\ last_stream_id' >= last_stream_id
  BY <1>1 DEF IInv, TypeOK
<1> QED
  BY <1>1, <1>2, <1>3, QuietStep

LEMMA StaysStep ==
  ASSUME IInv, phase = "frames", Stays, ReceivedOK', Keeps, SendsControl,
         last_stream_id' \in Nat, last_stream_id' >= last_stream_id
  PROVE  IInv'
<1>1. /\ phase' = "frames" /\ UNCHANGED <<upgrade, request, peer, handed, answers>>
      /\ UNCHANGED settings
  BY DEF Stays
<1>2. SettingsOK(settings')
  BY <1>1, InvFacts
<1> QED
  BY <1>1, <1>2, QuietStep

\* A stream that has not ended has handed over nothing.
LEMMA NotHanded ==
  ASSUME IInv, NEW id, ~(id \in DOMAIN streams /\ HasEnded(streams[id]))
  PROVE  \A j \in DOMAIN handed : handed[j].id # id
BY DEF IInv, StreamsInv

LEMMA FinishStep ==
  ASSUME IInv, phase = "frames", NEW id \in Nat \ {0}, NEW s, IsStream(s), s.end_stream,
         ~(id \in DOMAIN streams /\ HasEnded(streams[id])), Finish(id, s),
         ReceivedOK', last_stream_id' \in Nat, last_stream_id' >= last_stream_id,
         id <= last_stream_id'
  PROVE  IInv'
<1>1. PICK t : t = [s EXCEPT !.state = "HalfClosed"]
  OBVIOUS
<1>2. IsStream(t) /\ HasEnded(t)
  BY <1>1, HalfClosedStream DEF HasEnded
<1>3. Keeps /\ id \in DOMAIN streams' /\ streams'[id] = t
  <2>1. SetStream(id, t) /\ StreamsOK
    BY <1>1, InvFacts DEF Finish
  <2> QED
    BY <1>2, <2>1, SetStreamKeeps
<1>4. UNCHANGED <<upgrade, settings, peer, answers>>
  BY DEF Finish
<1>5. SettingsOK(settings')
  BY <1>4, InvFacts
<1>6. CASE HeadersOk(FlattenSeq(s.header_blocks))
  <2>1. Hand(id, FlattenSeq(s.header_blocks), FlattenSeq(s.data_blocks)) /\ UNCHANGED sent
    BY <1>6 DEF Finish
  <2>2. SendsControl
    BY <2>1, InvFacts, ControlFrames
  <2> QED
    BY <1>2, <1>3, <1>4, <1>5, <2>1, <2>2, NotHanded, HandStep
<1>7. CASE ~HeadersOk(FlattenSeq(s.header_blocks))
  <2>1. phase' = "done" /\ Send(<<ErrorPage>>) /\ UNCHANGED <<request, handed>>
    BY <1>7 DEF Finish
  <2>2. SendsControl
    BY <2>1, InvFacts, ControlFrames
  <2> QED
    BY <1>3, <1>4, <1>5, <2>1, <2>2, QuietStep
<1> QED
  BY <1>6, <1>7

LEMMA ContinueStep ==
  ASSUME IInv, phase = "frames", NEW id \in Nat \ {0}, NEW s, IsStream(s),
         ~(id \in DOMAIN streams /\ HasEnded(streams[id])), Continue(id, s),
         ReceivedOK', last_stream_id' \in Nat, last_stream_id' >= last_stream_id,
         id <= last_stream_id'
  PROVE  IInv'
<1>1. CASE s.end_stream /\ s.headers_finished
  BY <1>1, FinishStep DEF Continue
<1>2. CASE ~(s.end_stream /\ s.headers_finished)
  <2>1. SetStream(id, s) /\ Stays /\ UNCHANGED sent
    BY <1>2 DEF Continue
  <2>2. Keeps
    BY <2>1, InvFacts, SetStreamKeeps
  <2>3. SendsControl
    BY <2>1, InvFacts, ControlFrames
  <2> QED
    BY <2>1, <2>2, <2>3, StaysStep
<1> QED
  BY <1>1, <1>2

LEMMA StreamErrorStep ==
  ASSUME IInv, phase = "frames", NEW id, NEW code, StreamError(id, code), ReceivedOK',
         last_stream_id' \in Nat, last_stream_id' >= last_stream_id
  PROVE  IInv'
<1>1. Send(<<ControlFrame("RST_STREAM", id, code)>>) /\ Stays
  BY DEF StreamError, Rst
<1>2. SendsControl
  BY <1>1, InvFacts, ControlFrames
<1>3. Keeps
  BY InvFacts, StreamErrorKeeps DEF StreamError
<1> QED
  BY <1>1, <1>2, <1>3, StaysStep

LEMMA TouchFacts ==
  ASSUME IInv, NEW id \in Nat, last_stream_id' = Max({last_stream_id, id})
  PROVE  /\ last_stream_id' \in Nat /\ last_stream_id' >= last_stream_id
         /\ id <= last_stream_id'
BY MaxOfTwo DEF IInv, TypeOK

LEMMA StateOfStream ==
  ASSUME IInv, NEW id
  PROVE  /\ StateOf(id) # "Idle" => id \in DOMAIN streams
         /\ id \in DOMAIN streams =>
               IsStream(streams[id]) /\ StateOf(id) = streams[id].state
BY DEF IInv, StreamsInv, StateOf

LEMMA HeadersStep ==
  ASSUME IInv, phase = "frames", NEW f, f.id \in Nat \ {0}, ReceivedOK', HeadersFrame(f)
  PROVE  IInv'
<1>1. PICK id \in Nat \ {0} : id = f.id
  OBVIOUS
<1> DEFINE last == "END_STREAM" \in f.flags
           s == IF id \in DOMAIN streams
                THEN [streams[id] EXCEPT !.end_stream = @ \/ last]
                ELSE Stream("Open", last)
<1>2. /\ last_stream_id' \in Nat /\ last_stream_id' >= last_stream_id
      /\ id <= last_stream_id'
  BY <1>1, TouchFacts DEF HeadersFrame, Touch
<1>3. IF StateOf(id) # "Idle"
      THEN StreamError(id, "PROTOCOL_ERROR")
      ELSE IF s.headers_finished
      THEN /\ Send(<<Rst(id, "PROTOCOL_ERROR")>>)
           /\ SetStream(id, Closed(s))
           /\ Stays
      ELSE Continue(id, AddHeaderBlock(s, f))
  BY <1>1 DEF HeadersFrame
<1>4. IsStream(s)
  <2>1. CASE id \in DOMAIN streams
    <3>1. IsStream(streams[id])
      BY <2>1, StateOfStream
    <3>2. s = [streams[id] EXCEPT !.end_stream = @ \/ last]
      BY <2>1
    <3>3. IsStream([streams[id] EXCEPT !.end_stream = @ \/ last])
      BY <3>1, EndingStream
    <3> HIDE DEF s
    <3> QED
      BY <3>2, <3>3
  <2>2. CASE id \notin DOMAIN streams
    BY <2>2, OpenStream
  <2> QED
    BY <2>1, <2>2
<1>5. StateOf(id) = "Idle" => ~(id \in DOMAIN streams /\ HasEnded(streams[id]))
  BY StateOfStream DEF HasEnded
<1> HIDE DEF s
<1>6. CASE StateOf(id) # "Idle"
  BY <1>2, <1>3, <1>6, StreamErrorStep
<1>7. CASE StateOf(id) = "Idle" /\ s.headers_finished
  <2>1. Send(<<ControlFrame("RST_STREAM", id, "PROTOCOL_ERROR")>>) /\ Stays
    BY <1>3, <1>7 DEF Rst
  <2>2. SendsControl
    BY <2>1, InvFacts, ControlFrames
  <2>3. IsStream(Closed(s)) /\ SetStream(id, Closed(s))
    BY <1>3, <1>4, <1>7, ClosedStream
  <2>4. Keeps
    BY <1>5, <1>7, <2>3, InvFacts, SetStreamKeeps
  <2> QED
    BY <1>2, <2>1, <2>2, <2>4, StaysStep
<1>8. CASE StateOf(id) = "Idle" /\ ~s.headers_finished
  <2>1. PICK t : t = AddHeaderBlock(s, f)
    OBVIOUS
  <2>2. IsStream(t)
    BY <1>4, <2>1, GrownStream
  <2> QED
    BY <1>2, <1>3, <1>5, <1>8, <2>1, <2>2, ContinueStep
<1> QED
  BY <1>6, <1>7, <1>8

LEMMA ContinuationStep ==
  ASSUME IInv, phase = "frames", NEW f, f.id \in Nat \ {0}, ReceivedOK', ContinuationFrame(f)
  PROVE  IInv'
<1>1. PICK id \in Nat \ {0} : id = f.id
  OBVIOUS
<1>2. /\ last_stream_id' \in Nat /\ last_stream_id' >= last_stream_id
      /\ id <= last_stream_id'
  BY <1>1, TouchFacts DEF ContinuationFrame, Touch
<1>3. CASE StreamError(id, "PROTOCOL_ERROR")
  BY <1>2, <1>3, StreamErrorStep
<1>4. CASE StateOf(id) \in {"Open", "Reserved"} /\ Continue(id, AddHeaderBlock(streams[id], f))
  <2>1. PICK s, t : s = streams[id] /\ t = AddHeaderBlock(s, f)
    OBVIOUS
  <2>2. IsStream(s) /\ s.state = StateOf(id) /\ id \in DOMAIN streams
    BY <1>4, <2>1, StateOfStream
  <2>3. IsStream(t) /\ ~HasEnded(streams[id])
    BY <1>4, <2>1, <2>2, GrownStream DEF HasEnded
  <2> QED
    BY <1>2, <1>4, <2>1, <2>3, ContinueStep
<1> QED
  BY <1>1, <1>3, <1>4 DEF ContinuationFrame

LEMMA DataStep ==
  ASSUME IInv, phase = "frames", NEW f, f.id \in Nat \ {0}, ReceivedOK', DataFrame(f)
  PROVE  IInv'
<1>1. PICK id \in Nat \ {0} : id = f.id
  OBVIOUS
<1>2. /\ last_stream_id' \in Nat /\ last_stream_id' >= last_stream_id
      /\ id <= last_stream_id'
  BY <1>1, TouchFacts DEF DataFrame, Touch
<1>3. PICK s, t : s = streams[id] /\ t = AddContentBlock(s, f)
  OBVIOUS
<1>4. CASE \E code : StreamError(id, code)
  BY <1>2, <1>4, StreamErrorStep
<1>5. CASE /\ StateOf(id) \in {"Open", "HalfClosed"} /\ ~s.end_stream
           /\ IF t.end_stream THEN Finish(id, t)
              ELSE SetStream(id, t) /\ Stays /\ UNCHANGED sent
  <2>1. IsStream(s) /\ id \in DOMAIN streams
    BY <1>3, <1>5, StateOfStream
  <2>2. IsStream(t) /\ ~HasEnded(streams[id])
    BY <1>3, <1>5, <2>1, GrownStream DEF HasEnded
  <2>3. CASE t.end_stream
    BY <1>2, <1>5, <2>2, <2>3, FinishStep
  <2>4. CASE ~t.end_stream
    <3>1. SetStream(id, t) /\ Stays /\ UNCHANGED sent
      BY <1>5, <2>4
    <3>2. Keeps
      BY <2>2, <3>1, InvFacts, SetStreamKeeps
    <3>3. SendsControl
      BY <3>1, InvFacts, ControlFrames
    <3> QED
      BY <1>2, <3>1, <3>2, <3>3, StaysStep
  <2> QED
    BY <2>3, <2>4
<1> QED
  BY <1>1, <1>3, <1>4, <1>5 DEF DataFrame
LEMMA RstStep ==
  ASSUME IInv, phase = "frames", NEW f, f.id \in Nat \ {0}, ReceivedOK', RstStreamFrame(f)
  PROVE  IInv'
<1>1. PICK id \in Nat \ {0} : id = f.id
  OBVIOUS
<1>2. last_stream_id' \in Nat /\ last_stream_id' >= last_stream_id
  BY <1>1, TouchFacts DEF RstStreamFrame, Touch
<1>3. CASE StateOf(id) = "Idle"
  <2>1. StreamError(id, "PROTOCOL_ERROR")
    BY <1>1, <1>3 DEF RstStreamFrame
  <2> QED
    BY <1>2, <2>1, StreamErrorStep
<1>4. CASE StateOf(id) # "Idle"
  <2>1. PICK t : t = IF StateOf(id) = "HalfClosed" THEN Closed(streams[id])
                     ELSE [streams[id] EXCEPT !.state = "HalfClosed"]
    OBVIOUS
  <2>2. SetStream(id, t) /\ Stays /\ UNCHANGED sent
    BY <1>1, <1>4, <2>1 DEF RstStreamFrame
  <2>3. IsStream(streams[id])
    BY <1>4, StateOfStream
  <2>4. IsStream(t) /\ (HasEnded(streams[id]) => HasEnded(t))
    BY <2>1, <2>3, ClosedStream, HalfClosedStream DEF HasEnded
  <2>5. Keeps
    BY <2>2, <2>4, InvFacts, SetStreamKeeps
  <2>6. SendsControl
    BY <2>2, InvFacts, ControlFrames
  <2> QED
    BY <1>2, <2>2, <2>5, <2>6, StaysStep
<1> QED
  BY <1>3, <1>4

LEMMA PriorityStep ==
  ASSUME IInv, phase = "frames", NEW f, f.id \in Nat \ {0}, ReceivedOK', PriorityFrame(f)
  PROVE  IInv'
<1>1. PICK id \in Nat \ {0} : id = f.id
  OBVIOUS
<1>2. last_stream_id' \in Nat /\ last_stream_id' >= last_stream_id
  BY <1>1, TouchFacts DEF PriorityFrame, Touch
<1>3. Stays /\ UNCHANGED sent
  BY DEF PriorityFrame
<1>4. Keeps
  <2>1. CASE id \in DOMAIN streams
    BY <1>1, <2>1, InvFacts DEF PriorityFrame, Keeps, StreamsOK
  <2>2. CASE id \notin DOMAIN streams
    <3>1. SetStream(id, Stream("Idle", FALSE))
      BY <1>1, <2>2 DEF PriorityFrame
    <3> QED
      BY <2>2, <3>1, NewStream, InvFacts, SetStreamKeeps
  <2> QED
    BY <2>1, <2>2
<1>5. SendsControl
  BY <1>3, InvFacts, ControlFrames
<1> QED
  BY <1>2, <1>3, <1>4, <1>5, StaysStep

\* PING, WINDOW_UPDATE and PUSH_PROMISE touch no stream that is open.
LEMMA ConnectionFrameStep ==
  ASSUME IInv, phase = "frames", NEW f, f.id \in Nat, ReceivedOK',
         PingFrame(f) \/ WindowUpdateFrame(f) \/ PushPromiseFrame(f)
  PROVE  IInv'
<1>1. last_stream_id \in Nat /\ (UNCHANGED streams => Keeps)
  BY InvFacts DEF IInv, TypeOK, Keeps, StreamsOK
<1>2. CASE PingFrame(f)
  <2>1. Stays /\ UNCHANGED <<streams, last_stream_id>>
    BY <1>2 DEF PingFrame
  <2>2. Send(<< >>) \/ Send(<<ControlFrame("PING", 0, f.payload)>>)
    BY <1>2 DEF PingFrame
  <2>3. SendsControl
    BY <2>2, InvFacts, ControlFrames
  <2> QED
    BY <1>1, <2>1, <2>3, StaysStep
<1>3. CASE WindowUpdateFrame(f)
  <2>1. Stays /\ UNCHANGED <<streams, sent>>
    BY <1>3 DEF WindowUpdateFrame
  <2>2. last_stream_id' \in Nat /\ last_stream_id' >= last_stream_id
    BY <1>3, TouchFacts DEF WindowUpdateFrame
  <2>3. SendsControl
    BY <2>1, InvFacts, ControlFrames
  <2> QED
    BY <1>1, <2>1, <2>2, <2>3, StaysStep
<1>4. CASE PushPromiseFrame(f)
  BY <1>1, <1>4, StreamErrorStep DEF PushPromiseFrame
<1> QED
  BY <1>2, <1>3, <1>4

LEMMA SettingsStep ==
  ASSUME IInv, phase \in {"preface", "frames"}, NEW f, f.payload \in Seq(Nat), ReceivedOK',
         SettingsFrame(f)
  PROVE  IInv'
<1>1. SettingsOK(settings')
  <2>1. CASE "ACK" \in f.flags
    BY <2>1, InvFacts DEF SettingsFrame
  <2>2. CASE "ACK" \notin f.flags
    <3>1. settings' = Applied(f.payload) /\ SettingsError(f.payload) = "NO_ERROR"
      BY <2>2, ParsedFrame DEF SettingsFrame
    <3> QED
      BY <3>1, InvFacts, AppliedWithinLimits
  <2> QED
    BY <2>1, <2>2
<1>2. SendsControl
  <2>1. UNCHANGED sent \/ Send(<<ControlFrame("SETTINGS", 0, << >>)>>)
    BY DEF SettingsFrame, SettingsAck
  <2> QED
    BY <2>1, InvFacts, ControlFrames
<1>3. /\ UNCHANGED <<upgrade, last_stream_id, peer, answers>>
      /\ last_stream_id' \in Nat /\ last_stream_id' >= last_stream_id
  BY DEF SettingsFrame, IInv, TypeOK
<1>4. CASE phase = "preface" /\ upgrade
  <2>1. PICK s : s = Stream("HalfClosed", TRUE)
    OBVIOUS
  <2>2. IsStream(s) /\ HasEnded(s)
    BY <2>1, NewStream DEF HasEnded
  <2>3. SetStream(1, s) /\ Hand(1, << >>, << >>)
    BY <1>4, <2>1 DEF SettingsFrame
  <2>4. Keeps /\ 1 \in DOMAIN streams' /\ streams'[1] = s
    BY <2>2, <2>3, InvFacts, SetStreamKeeps
  <2>5. handed = << >>
    BY <1>4 DEF IInv, StreamsInv
  <2> QED
    BY <1>1, <1>2, <1>3, <1>4, <2>2, <2>3, <2>4, <2>5, HandStep
<1>5. CASE ~(phase = "preface" /\ upgrade)
  <2>1. phase' = "frames" /\ UNCHANGED <<streams, request, handed>>
    BY <1>5 DEF SettingsFrame
  <2>2. Keeps
    BY <2>1, InvFacts DEF Keeps, StreamsOK
  <2> QED
    BY <1>1, <1>2, <1>3, <2>1, <2>2, QuietStep
<1> QED
  BY <1>4, <1>5

LEMMA ReceiveStep ==
  ASSUME IInv, Receive
  PROVE  IInv'
<1>1. PICK f \in Frames[Len(received) + 1] :
         /\ received' = Append(received, f)
         /\ Refuse(f) \/ RefuseFirst(f) \/ SettingsFrame(f) \/ FrameInLoop(f)
  BY DEF Receive
<1>2. phase \in {"preface", "frames"} /\ Len(received) < MaxFrames
  BY DEF Receive
<1>3. ReceivedOK' /\ f.id \in Nat /\ f.payload \in Seq(Nat)
  BY <1>1, <1>2, InvFacts, ArrivalKeeps
<1>4. CASE Refuse(f)
  <2>1. PICK e \in AnyError : Leave(<<Goaway(ParseError(f)), e>>)
    BY <1>4, ErrorsAre DEF Refuse
  <2>2. /\ phase' = "done" /\ UNCHANGED last_stream_id
        /\ Send(<<Goaway(ParseError(f)), e>>)
    BY <2>1 DEF Leave, context
  <2>3. SendsControl
    BY <2>2, InvFacts, ControlFrames
  <2> QED
    BY <1>2, <1>3, <2>1, <2>3, LeaveStep
<1>5. CASE RefuseFirst(f)
  <2>1. PICK e \in AnyError : Leave(<<e>>)
    BY <1>5, ErrorsAre DEF RefuseFirst
  <2>2. phase' = "done" /\ UNCHANGED last_stream_id /\ Send(<<e>>)
    BY <2>1 DEF Leave, context
  <2>3. SendsControl
    BY <2>2, InvFacts, ControlFrames
  <2> QED
    BY <1>2, <1>3, <2>1, <2>3, LeaveStep
<1>6. CASE SettingsFrame(f)
  BY <1>2, <1>3, <1>6, SettingsStep
<1>7. CASE FrameInLoop(f)
  <2>1. phase = "frames" /\ ParseError(f) = "NO_ERROR"
    BY <1>7 DEF FrameInLoop
  <2>2. f.type \in {"DATA", "HEADERS", "PRIORITY", "RST_STREAM", "CONTINUATION"} =>
           f.id \in Nat \ {0}
    BY <1>3, <2>1, ParsedFrame
  <2>3. CASE GoawayFrame(f)
    <3>1. Leave(<< >>)
      BY <2>3 DEF GoawayFrame
    <3>2. Send(<< >>)
      BY <3>1 DEF Leave
    <3>3. SendsControl
      BY <3>2, InvFacts, ControlFrames
    <3> QED
      BY <1>3, <2>1, <3>1, <3>3, LeaveStep
  <2>4. CASE PingFrame(f) \/ WindowUpdateFrame(f) \/ PushPromiseFrame(f)
    BY <1>3, <2>1, <2>4, ConnectionFrameStep
  <2>5. CASE PriorityFrame(f)
    <3>1. f.type = "PRIORITY"
      BY <2>5 DEF PriorityFrame
    <3> QED
      BY <1>3, <2>1, <2>2, <2>5, <3>1, PriorityStep
  <2>6. CASE RstStreamFrame(f)
    <3>1. f.type = "RST_STREAM"
      BY <2>6 DEF RstStreamFrame
    <3> QED
      BY <1>3, <2>1, <2>2, <2>6, <3>1, RstStep
  <2>7. CASE HeadersFrame(f)
    <3>1. f.type = "HEADERS"
      BY <2>7 DEF HeadersFrame
    <3> QED
      BY <1>3, <2>1, <2>2, <2>7, <3>1, HeadersStep
  <2>8. CASE ContinuationFrame(f)
    <3>1. f.type = "CONTINUATION"
      BY <2>8 DEF ContinuationFrame
    <3> QED
      BY <1>3, <2>1, <2>2, <2>8, <3>1, ContinuationStep
  <2>9. CASE DataFrame(f)
    <3>1. f.type = "DATA"
      BY <2>9 DEF DataFrame
    <3> QED
      BY <1>3, <2>1, <2>2, <2>9, <3>1, DataStep
  <2> QED
    BY <1>7, <2>3, <2>4, <2>5, <2>6, <2>7, <2>8, <2>9 DEF FrameInLoop
<1> QED
  BY <1>1, <1>4, <1>5, <1>6, <1>7
LEMMA StartStep ==
  ASSUME IInv, StartDirect \/ StartUpgrade \/ Magic \/ MagicFails \/ ReadFails
  PROVE  IInv'
<1>1. /\ UNCHANGED received => ReceivedOK'
      /\ UNCHANGED streams => Keeps
      /\ last_stream_id \in Nat
  BY InvFacts DEF ReceivedOK, Keeps, StreamsOK, IInv, TypeOK
<1>2. ASSUME Send(<<ServerPreface>>) PROVE SendsControl
  BY <1>2, InvFacts, ControlFrames DEF ServerPreface
<1>3. CASE StartDirect
  <2>1. /\ phase = "start" /\ phase' = "preface" /\ Send(<<ServerPreface>>)
        /\ UNCHANGED <<upgrade, request, peer, handed, answers>>
        /\ UNCHANGED <<received, settings, streams, last_stream_id>>
    BY <1>3 DEF StartDirect, context
  <2>2. SettingsOK(settings') /\ last_stream_id' >= last_stream_id
    BY <1>1, <2>1, InvFacts
  <2> QED
    BY <1>1, <1>2, <2>1, <2>2, QuietStep
<1>4. CASE StartUpgrade
  <2>1. PICK p \in UpgradeSettings :
         IF SettingsError(p) = "NO_ERROR"
         THEN /\ phase' = "magic"
              /\ settings' = Applied(p)
              /\ Send(<<ServerPreface>>)
              /\ UNCHANGED <<upgrade, streams, last_stream_id, decoded,
                             request, peer, handed, answers>>
         ELSE Leave(<<ServerPreface, Goaway(SettingsError(p)), ErrorPage>>)
    BY <1>4 DEF StartUpgrade
  <2>2. phase = "start" /\ UNCHANGED received
    BY <1>4 DEF StartUpgrade
  <2>3. CASE SettingsError(p) = "NO_ERROR"
    <3>1. SettingsOK(settings') /\ last_stream_id' >= last_stream_id
      BY <1>1, <2>1, <2>3, InvFacts, AppliedWithinLimits, FramesAssumption
    <3> QED
      BY <1>1, <1>2, <2>1, <2>2, <2>3, <3>1, QuietStep
  <2>4. CASE SettingsError(p) # "NO_ERROR"
    <3>1. PICK code : Leave(<<ServerPreface, Goaway(code), ErrorPage>>)
      BY <2>1, <2>4
    <3>2. /\ phase' = "done" /\ UNCHANGED last_stream_id
          /\ Send(<<ServerPreface, Goaway(code), ErrorPage>>)
      BY <3>1 DEF Leave, context
    <3>3. SendsControl
      <4>1. ErrorPage \in AnyError
        BY DEF AnyError
      <4> QED
        BY <3>2, <4>1, InvFacts, ControlFrames
    <3> QED
      BY <1>1, <2>2, <3>1, <3>3, LeaveStep
  <2> QED
    BY <2>3, <2>4
<1>5. CASE Magic
  <2>1. /\ phase = "magic" /\ phase' = "preface"
        /\ UNCHANGED <<upgrade, request, peer, handed, answers>>
        /\ UNCHANGED <<received, sent, settings, streams, last_stream_id>>
    BY <1>5 DEF Magic, context
  <2>2. SettingsOK(settings') /\ last_stream_id' >= last_stream_id /\ SendsControl
    BY <1>1, <2>1, InvFacts, ControlFrames
  <2> QED
    BY <1>1, <2>1, <2>2, QuietStep
<1>6. CASE MagicFails
  <2>1. PICK e \in AnyError : phase = "magic" /\ Leave(<<e>>) /\ UNCHANGED received
    BY <1>6, ErrorsAre DEF MagicFails
  <2>2. phase' = "done" /\ UNCHANGED last_stream_id /\ Send(<<e>>)
    BY <2>1 DEF Leave, context
  <2>3. SendsControl
    BY <2>2, InvFacts, ControlFrames
  <2> QED
    BY <1>1, <2>1, <2>3, LeaveStep
<1>7. CASE ReadFails
  <2>1. PICK e \in AnyError :
           /\ phase \in {"preface", "frames"} /\ UNCHANGED received
           /\ Leave(<<Goaway("INTERNAL_ERROR"), e>>)
    BY <1>7, ErrorsAre DEF ReadFails
  <2>2. /\ phase' = "done" /\ UNCHANGED last_stream_id
        /\ Send(<<Goaway("INTERNAL_ERROR"), e>>)
    BY <2>1 DEF Leave, context
  <2>3. SendsControl
    BY <2>2, InvFacts, ControlFrames
  <2> QED
    BY <1>1, <2>1, <2>3, LeaveStep
<1> QED
  BY <1>3, <1>4, <1>5, <1>6, <1>7

\* No answer, a peer that leaves, or nothing.
LEMMA OtherStep ==
  ASSUME IInv, RespondNot \/ PeerLeaves \/ UNCHANGED vars
  PROVE  IInv'
<1>1. /\ UNCHANGED <<upgrade, settings, streams, last_stream_id>>
      /\ UNCHANGED <<received, sent, handed, answers>>
      /\ peer' \in {"up", "gone"}
      /\ \/ phase = "respond" /\ phase' = "frames" /\ request' = 0
         \/ UNCHANGED <<phase, request>>
  BY DEF RespondNot, PeerLeaves, vars, context, IInv, TypeOK
<1>2. TypeOK'
  BY <1>1 DEF IInv, TypeOK
<1>3. Histories' /\ StreamsInv' /\ FramesInv'
  BY <1>1 DEF IInv, Histories, StreamsInv, OneRequestPerStream, FramesInv
<1>4. GoawayInv'
  BY <1>1 DEF IInv, GoawayInv
<1>5. AnswersInv'
  <2>1. CASE UNCHANGED <<phase, request>>
    BY <1>1, <2>1 DEF IInv, AnswersInv, Served
  <2>2. CASE phase = "respond" /\ phase' = "frames" /\ request' = 0
    <3>1. /\ Served = Len(handed) - 1 /\ Served' = Len(handed) /\ Len(handed) \in Nat
          /\ Len(answers) \in Nat
      BY <1>1, <2>2, InvFacts DEF Served
    <3>2. /\ Len(answers) <= Served
          /\ \A k \in DOMAIN answers : \E j \in 1..Served : answers[k].id = handed[j].id
          /\ \A j, k \in DOMAIN answers : answers[j].id = answers[k].id => j = k
      BY DEF IInv, AnswersInv
    <3>3. 1..Served \subseteq 1..Served' /\ Len(answers) <= Served'
      BY <3>1, <3>2
    <3> QED
      BY <1>1, <2>2, <3>2, <3>3 DEF AnswersInv
  <2> QED
    BY <1>1, <2>1, <2>2
<1> QED
  BY <1>2, <1>3, <1>4, <1>5 DEF IInv

LEMMA InitInv == Init => IInv
<1> SUFFICES ASSUME Init PROVE IInv
  OBVIOUS
<1>1. /\ phase = "start" /\ upgrade \in BOOLEAN /\ settings = DefaultSettings
      /\ streams = << >> /\ last_stream_id = 0 /\ request = 0 /\ peer = "up"
      /\ received = << >> /\ sent = << >> /\ handed = << >> /\ answers = << >>
  BY DEF Init
<1>2. SettingsOK(settings)
  BY <1>1, Http2Assumption DEF SettingsOK, Limits, DefaultSettings, UINT32_T_MAX
<1>3. DOMAIN << >> = {} /\ Len(<< >>) = 0 /\ IsSequence(<< >>)
  BY DEF IsSequence
<1>4. TypeOK
  BY <1>1, <1>2, <1>3, FramesAssumption DEF TypeOK, SettingsOK, Limits, MaxFrames
<1>5. Histories /\ StreamsInv /\ GoawayInv /\ AnswersInv /\ FramesInv
  BY <1>1, <1>3 DEF Histories, StreamsInv, OneRequestPerStream, GoawayInv, AnswersInv,
     Served, FramesInv
<1> QED
  BY <1>4, <1>5 DEF IInv

LEMMA StepInv == IInv /\ [Next]_vars => IInv'
<1> SUFFICES ASSUME IInv, [Next]_vars PROVE IInv'
  OBVIOUS
<1>1. CASE StartDirect \/ StartUpgrade \/ Magic \/ MagicFails \/ ReadFails
  BY <1>1, StartStep
<1>2. CASE Receive
  BY <1>2, ReceiveStep
<1>3. CASE Respond
  BY <1>3, RespondStep
<1>4. CASE RespondNot \/ PeerLeaves \/ UNCHANGED vars
  BY <1>4, OtherStep
<1> QED
  BY <1>1, <1>2, <1>3, <1>4 DEF Next

LEMMA Invariance == Spec => []IInv
BY InitInv, StepInv, PTL DEF Spec

-----------------------------------------------------------------------------
(* Induction, and the loops that the model writes as recursive functions.  *)

\* A set of naturals that is not empty has a least element.
LEMMA LeastNat ==
  ASSUME NEW T \in SUBSET Nat, T # {}
  PROVE  \E x \in T : \A y \in T : x <= y
<1> DEFINE R == OpToRel(<, Nat)
<1>1. IsWellFoundedOn(R, Nat)
  BY NatLessThanWellFounded, Zenon
<1>2. \A x, y \in Nat : y < x => <<y, x>> \in R
  BY DEF OpToRel
<1> HIDE DEF R
<1>3. PICK x \in T : \A y \in T : ~ (<<y, x>> \in R)
  BY <1>1, WFMin
<1>4. \A y \in T : ~(y < x)
  BY <1>2, <1>3
<1>5. \A y \in T : x <= y
  BY <1>4
<1> QED
  BY <1>5

\* Induction over the turns of a loop.
LEMMA LoopInduction ==
  ASSUME NEW N \in Nat, NEW T, 0 \in T, \A n \in 0..(N - 1) : n \in T => n + 1 \in T
  PROVE  \A n \in 0..N : n \in T
<1> DEFINE U == {n \in 0..N : n \notin T}
<1> SUFFICES ASSUME U # {} PROVE FALSE
  OBVIOUS
<1>1. U \in SUBSET Nat
  OBVIOUS
<1>2. PICK x \in U : \A y \in U : x <= y
  BY <1>1, LeastNat
<1>3. x \in 0..N /\ x \notin T /\ x # 0
  BY <1>2
<1>4. x - 1 \in 0..(N - 1) /\ x - 1 \in 0..N /\ (x - 1) + 1 = x /\ ~(x <= x - 1)
  BY <1>3
<1>5. x - 1 \in T
  BY <1>2, <1>4
<1> QED
  BY <1>3, <1>4, <1>5

\* A loop of N turns from a, where F[n][x] is what turn n makes of x, stays in
\* S; f is the recursive function of its values.
LoopStays(N, S, a, F) == N \in Nat /\ a \in S /\ \A n \in 1..N : \A x \in S : F[n][x] \in S
IsLoop(f, N, S, a, F) ==
    f \in [0..N -> S] /\ f = [n \in 0..N |-> IF n = 0 THEN a ELSE F[n][f[n - 1]]]

\* The recursive function of a loop exists.
LEMMA LoopExists ==
  ASSUME NEW N, NEW S, NEW a, NEW F, LoopStays(N, S, a, F)
  PROVE  \E f : IsLoop(f, N, S, a, F)
<1> USE DEF LoopStays
<1> DEFINE Upto(g, k) == g \in [0..k -> S] /\ g[0] = a /\ \A i \in 1..k : g[i] = F[i][g[i - 1]]
           T == {k \in 0..N : \E g : Upto(g, k)}
<1>1. 0 \in T
  <2>1. Upto([i \in 0..0 |-> a], 0)
    OBVIOUS
  <2>2. \E g : Upto(g, 0)
    BY <2>1
  <2> HIDE DEF Upto
  <2> QED
    BY <2>2
<1>2. ASSUME NEW k \in 0..(N - 1), k \in T PROVE k + 1 \in T
  <2>1. k \in Nat /\ k + 1 \in 1..N /\ k + 1 \in 0..N
    OBVIOUS
  <2>2. PICK g : Upto(g, k)
    BY <1>2
  <2> DEFINE h == [i \in 0..(k + 1) |-> IF i <= k THEN g[i] ELSE F[k + 1][g[k]]]
  <2>3. F[k + 1][g[k]] \in S
    BY <2>1, <2>2
  <2>4. h \in [0..(k + 1) -> S]
    BY <2>1, <2>2, <2>3
  <2>5. h[0] = a
    BY <2>1, <2>2
  <2>6. ASSUME NEW i \in 1..(k + 1) PROVE h[i] = F[i][h[i - 1]]
    <3>1. i - 1 \in 0..k /\ i - 1 \in 0..(k + 1) /\ i - 1 <= k /\ h[i - 1] = g[i - 1]
      BY <2>1
    <3>2. CASE i <= k
      BY <2>1, <2>2, <3>1, <3>2
    <3>3. CASE i = k + 1
      <4>1. ~(k + 1 <= k) /\ k + 1 \in 0..(k + 1) /\ i - 1 = k
        BY <2>1, <3>3
      <4> QED
        BY <3>1, <3>3, <4>1
    <3> QED
      BY <2>1, <3>2, <3>3
  <2>7. Upto(h, k + 1)
    <3> HIDE DEF h
    <3> QED
      BY <2>4, <2>5, <2>6
  <2>8. \E f : Upto(f, k + 1)
    BY <2>7
  <2> HIDE DEF Upto
  <2> QED
    BY <2>1, <2>8
<1>3. N \in T
  <2> HIDE DEF T
  <2>1. \A n \in 0..N : n \in T
    BY <1>1, <1>2, LoopInduction
  <2> QED
    BY <2>1
<1>4. PICK f : Upto(f, N)
  <2> HIDE DEF Upto
  <2> QED
    BY <1>3
<1>5. f = [n \in 0..N |-> f[n]] /\ \A n \in 0..N : f[n] = IF n = 0 THEN a ELSE F[n][f[n - 1]]
  BY <1>4
<1>6. f = [n \in 0..N |-> IF n = 0 THEN a ELSE F[n][f[n - 1]]]
  BY <1>5
<1> QED
  BY <1>4, <1>6 DEF IsLoop

-----------------------------------------------------------------------------
(* Selections.                                                             *)

\* The parts are sequences of elements of T, and f[k] is what the first k places
\* amount to.
PartsIn(N, P, s, T) == \A k \in 1..N : k \in P => s[k] \in Seq(T)
JoinsBy(f, N, P, s, T) ==
    /\ f \in [0..N -> Seq(T)] /\ f[0] = <<>>
    /\ \A k \in 1..N : f[k] = IF k \in P THEN f[k - 1] \o s[k] ELSE f[k - 1]

\* What Joined computes, place by place.
LEMMA JoinedLoop ==
  ASSUME NEW N \in Nat, NEW P, NEW s, NEW T, PartsIn(N, P, s, T)
  PROVE  \E f : JoinsBy(f, N, P, s, T) /\ Joined(N, P, s) = f[N]
<1> USE DEF PartsIn
<1> DEFINE S == Seq(T)
           F == [n \in 1..N |-> [x \in S |-> IF n \in P THEN x \o s[n] ELSE x]]
           Is(g) == g = [k \in 0..N |-> IF k = 0 THEN <<>>
                           ELSE IF k \in P THEN g[k - 1] \o s[k] ELSE g[k - 1]]
<1>1. <<>> \in S
  OBVIOUS
<1>2. \A n \in 1..N : \A x \in S :
         F[n][x] = (IF n \in P THEN x \o s[n] ELSE x) /\ F[n][x] \in S
  OBVIOUS
<1> HIDE DEF F, S
<1>3. LoopStays(N, S, <<>>, F)
  BY <1>1, <1>2 DEF LoopStays
<1>4. PICK f : IsLoop(f, N, S, <<>>, F)
  BY <1>3, LoopExists
<1>5. f \in [0..N -> S] /\ f[0] = <<>>
  BY <1>4 DEF IsLoop
<1>6. \A n \in 1..N : n \in 0..N /\ n - 1 \in 0..N /\ n # 0
  OBVIOUS
<1>7. \A n \in 1..N : f[n] = IF n \in P THEN f[n - 1] \o s[n] ELSE f[n - 1]
  BY <1>2, <1>4, <1>5, <1>6 DEF IsLoop
<1>8. Is(f)
  <2>1. \A k \in 0..N : k = 0 \/ k \in 1..N
    OBVIOUS
  <2>2. f = [k \in 0..N |-> f[k]]
    BY <1>5
  <2> QED
    BY <1>5, <1>7, <2>1, <2>2
<1>9. Joined(N, P, s) = (CHOOSE g : Is(g))[N]
  BY DEF Joined
<1>10. PICK g : Is(g) /\ Joined(N, P, s) = g[N]
  <2> HIDE DEF Is
  <2> QED
    BY <1>8, <1>9
<1> DEFINE A == {n \in 0..N : g[n] = f[n]}
<1>11. 0 \in A
  BY <1>5, <1>10
<1>12. ASSUME NEW n \in 0..(N - 1), n \in A PROVE n + 1 \in A
  <2>1. n + 1 \in 1..N /\ n + 1 \in 0..N /\ n + 1 # 0 /\ (n + 1) - 1 = n
    OBVIOUS
  <2>2. g[n + 1] = IF n + 1 \in P THEN g[n] \o s[n + 1] ELSE g[n]
    BY <1>10, <2>1
  <2>3. f[n + 1] = IF n + 1 \in P THEN f[n] \o s[n + 1] ELSE f[n]
    BY <1>7, <2>1
  <2> QED
    BY <1>12, <2>1, <2>2, <2>3
<1> HIDE DEF A
<1>13. N \in A
  <2>1. \A n \in 0..N : n \in A
    BY <1>11, <1>12, LoopInduction
  <2> QED
    BY <2>1
<1>14. Joined(N, P, s) = f[N]
  BY <1>10, <1>13 DEF A
<1>15. JoinsBy(f, N, P, s, T)
  BY <1>5, <1>7 DEF S, JoinsBy
<1> QED
  BY <1>14, <1>15

\* Two loops that make the same turns end the same.
LEMMA JoinedAgree ==
  ASSUME NEW N \in Nat, NEW P, NEW Q, NEW s, NEW t, NEW T,
         PartsIn(N, P, s, T),
         \A k \in 1..N : (k \in P <=> k \in Q) /\ (k \in P => s[k] = t[k])
  PROVE  Joined(N, P, s) = Joined(N, Q, t)
<1>1. PICK f : JoinsBy(f, N, P, s, T) /\ Joined(N, P, s) = f[N]
  BY JoinedLoop
<1>2. PICK g : JoinsBy(g, N, Q, t, T) /\ Joined(N, Q, t) = g[N]
  <2>1. PartsIn(N, Q, t, T)
    BY DEF PartsIn
  <2> QED
    BY <2>1, JoinedLoop
<1> USE DEF JoinsBy
<1> DEFINE A == {n \in 0..N : g[n] = f[n]}
<1>3. 0 \in A
  BY <1>1, <1>2
<1>4. ASSUME NEW n \in 0..(N - 1), n \in A PROVE n + 1 \in A
  <2>1. n + 1 \in 1..N /\ n + 1 \in 0..N /\ (n + 1) - 1 = n
    OBVIOUS
  <2>2. f[n + 1] = IF n + 1 \in P THEN f[n] \o s[n + 1] ELSE f[n]
    BY <1>1, <2>1
  <2>3. g[n + 1] = IF n + 1 \in Q THEN g[n] \o t[n + 1] ELSE g[n]
    BY <1>2, <2>1
  <2> QED
    BY <1>4, <2>1, <2>2, <2>3
<1> HIDE DEF A
<1>5. \A n \in 0..N : n \in A
  BY <1>3, <1>4, LoopInduction
<1>6. N \in A
  BY <1>5
<1> QED
  BY <1>1, <1>2, <1>6 DEF A

LEMMA JoinedZero ==
  ASSUME NEW P, NEW s
  PROVE  Joined(0, P, s) = <<>>
<1>1. PartsIn(0, P, s, {})
  BY DEF PartsIn
<1> QED
  BY <1>1, JoinedLoop DEF JoinsBy

\* One more place.
LEMMA JoinedNext ==
  ASSUME NEW n \in Nat, NEW P, NEW s, NEW T, PartsIn(n + 1, P, s, T)
  PROVE  /\ Joined(n, P, s) \in Seq(T)
         /\ Joined(n + 1, P, s) = IF n + 1 \in P THEN Joined(n, P, s) \o s[n + 1]
                                  ELSE Joined(n, P, s)
<1> DEFINE N == n + 1
<1>0. N \in Nat /\ N \in 1..N /\ N - 1 = n /\ n \in 0..N
  OBVIOUS
<1> HIDE DEF N
<1>1. PICK f : JoinsBy(f, N, P, s, T) /\ Joined(N, P, s) = f[N]
  <2>1. PartsIn(N, P, s, T)
    BY DEF N, PartsIn
  <2> QED
    BY <1>0, <2>1, JoinedLoop
<1>2. PartsIn(n, P, s, T)
  BY <1>0 DEF N, PartsIn
<1>3. PICK g : JoinsBy(g, n, P, s, T) /\ Joined(n, P, s) = g[n]
  BY <1>2, JoinedLoop
<1> USE DEF JoinsBy
<1> DEFINE A == {k \in 0..n : g[k] = f[k]}
<1>4. 0 \in A
  BY <1>1, <1>3
<1>5. ASSUME NEW k \in 0..(n - 1), k \in A PROVE k + 1 \in A
  <2>1. k + 1 \in 1..N /\ k + 1 \in 1..n /\ k + 1 \in 0..n /\ (k + 1) - 1 = k
    BY DEF N
  <2>2. f[k + 1] = IF k + 1 \in P THEN f[k] \o s[k + 1] ELSE f[k]
    BY <1>1, <2>1
  <2>3. g[k + 1] = IF k + 1 \in P THEN g[k] \o s[k + 1] ELSE g[k]
    BY <1>3, <2>1
  <2> QED
    BY <1>5, <2>1, <2>2, <2>3
<1> HIDE DEF A
<1>6. \A k \in 0..n : k \in A
  BY <1>4, <1>5, LoopInduction
<1>7. g[n] = f[n]
  BY <1>6 DEF A
<1>8. f[N] = IF N \in P THEN f[n] \o s[N] ELSE f[n]
  BY <1>0, <1>1
<1> QED
  BY <1>0, <1>1, <1>3, <1>7, <1>8 DEF N

\* Places beyond the end do not count.
LEMMA JoinedNone ==
  ASSUME NEW n \in Nat, NEW P, NEW s, \A k \in 1..n : k \notin P
  PROVE  Joined(n, P, s) = <<>>
<1>1. PartsIn(n, P, s, {})
  BY DEF PartsIn
<1>2. Joined(n, P, s) \in Seq({})
  <2>1. PICK f : JoinsBy(f, n, P, s, {}) /\ Joined(n, P, s) = f[n]
    BY <1>1, JoinedLoop, Zenon
  <2> QED
    BY <2>1 DEF JoinsBy
<1> QED
  BY <1>2

\* The same for elements.
LEMMA SelectedAgree ==
  ASSUME NEW n \in Nat, NEW P, NEW Q, NEW v, NEW w,
         \A k \in 1..n : (k \in P <=> k \in Q) /\ (k \in P => v[k] = w[k])
  PROVE  Selected(n, P, v) = Selected(n, Q, w)
<1> DEFINE s == [k \in P |-> <<v[k]>>]
           t == [k \in Q |-> <<w[k]>>]
           T == {v[k] : k \in 1..n}
<1>1. PartsIn(n, P, s, T)
  <2>1. \A k \in 1..n : v[k] \in T
    OBVIOUS
  <2>2. \A x \in T : <<x>> \in Seq(T)
    OBVIOUS
  <2>3. \A k \in P : s[k] = <<v[k]>>
    OBVIOUS
  <2> HIDE DEF T, s
  <2> QED
    BY <2>1, <2>2, <2>3 DEF PartsIn
<1>2. \A k \in 1..n : (k \in P <=> k \in Q) /\ (k \in P => s[k] = t[k])
  OBVIOUS
<1>3. Joined(n, P, s) = Joined(n, Q, t)
  <2> HIDE DEF s, t, T
  <2> QED
    BY <1>1, <1>2, JoinedAgree
<1> QED
  BY <1>3 DEF Selected

LEMMA SelectedZero ==
  ASSUME NEW P, NEW v
  PROVE  Selected(0, P, v) = <<>>
BY JoinedZero DEF Selected

LEMMA SelectedNext ==
  ASSUME NEW n \in Nat, NEW P, NEW v
  PROVE  /\ Selected(n, P, v) \in Seq({v[k] : k \in 1..(n + 1)})
         /\ Selected(n + 1, P, v) = IF n + 1 \in P THEN Append(Selected(n, P, v), v[n + 1])
                                    ELSE Selected(n, P, v)
<1> DEFINE s == [k \in P |-> <<v[k]>>]
           T == {v[k] : k \in 1..(n + 1)}
<1>1. PartsIn(n + 1, P, s, T)
  <2>1. \A k \in 1..(n + 1) : v[k] \in T
    OBVIOUS
  <2>2. \A x \in T : <<x>> \in Seq(T)
    OBVIOUS
  <2>3. \A k \in P : s[k] = <<v[k]>>
    OBVIOUS
  <2> HIDE DEF T, s
  <2> QED
    BY <2>1, <2>2, <2>3 DEF PartsIn
<1>2. n + 1 \in P => s[n + 1] = <<v[n + 1]>>
  OBVIOUS
<1>3. \A x \in Seq(T), y \in T : x \o <<y>> = Append(x, y)
  OBVIOUS
<1>4. v[n + 1] \in T
  OBVIOUS
<1>5. Selected(n, P, v) = Joined(n, P, s) /\ Selected(n + 1, P, v) = Joined(n + 1, P, s)
  BY DEF Selected
<1> HIDE DEF s, T
<1>6. /\ Joined(n, P, s) \in Seq(T)
      /\ Joined(n + 1, P, s) = IF n + 1 \in P THEN Joined(n, P, s) \o s[n + 1]
                               ELSE Joined(n, P, s)
  BY <1>1, JoinedNext
<1>7. Selected(n, P, v) \in Seq(T)
  BY <1>5, <1>6
<1>8. Selected(n + 1, P, v) = IF n + 1 \in P THEN Append(Selected(n, P, v), v[n + 1])
                              ELSE Selected(n, P, v)
  BY <1>2, <1>3, <1>4, <1>5, <1>6
<1> QED
  BY <1>7, <1>8 DEF T
\* Places beyond the last one that counts do not matter.
LEMMA SelectedBeyond ==
  ASSUME NEW n \in Nat, NEW m \in Nat, n <= m, NEW P, NEW v,
         \A k \in (n + 1)..m : k \notin P
  PROVE  Selected(m, P, v) = Selected(n, P, v)
<1> DEFINE A == {k \in 0..(m - n) : Selected(n + k, P, v) = Selected(n, P, v)}
<1>1. 0 \in A
  <2>1. n + 0 = n /\ 0 \in 0..(m - n)
    OBVIOUS
  <2> QED
    BY <2>1, Zenon
<1>2. ASSUME NEW k \in 0..((m - n) - 1), k \in A PROVE k + 1 \in A
  <2>1. PICK j \in Nat : j = n + k
    OBVIOUS
  <2>2. j + 1 \in (n + 1)..m /\ j + 1 = n + (k + 1) /\ k + 1 \in 0..(m - n)
    BY <2>1
  <2>3. Selected(j + 1, P, v) = Selected(j, P, v)
    <3>1. j + 1 \notin P
      BY <2>2, Zenon
    <3> QED
      BY <3>1, SelectedNext, Zenon
  <2>4. Selected(n + k, P, v) = Selected(n, P, v)
    BY <1>2
  <2>5. Selected(n + (k + 1), P, v) = Selected(n, P, v)
    BY <2>1, <2>2, <2>3, <2>4, Zenon
  <2> QED
    BY <2>2, <2>5
<1> HIDE DEF A
<1>3. m - n \in Nat
  OBVIOUS
<1>4. m - n \in A
  <2>1. \A k \in 0..(m - n) : k \in A
    BY <1>1, <1>2, <1>3, LoopInduction
  <2> QED
    BY <1>3, <2>1
<1>5. n + (m - n) = m
  OBVIOUS
<1> QED
  BY <1>4, <1>5 DEF A

-----------------------------------------------------------------------------
(* What was asked for and what was acknowledged.                           *)

\* The places of frames that ask for an acknowledgement, among the first n of
\* r, and of acknowledgements in s; the data of the pings and of the pongs.
Asks(r, n, type) == {k \in 1..n : r[k].type = type /\ "ACK" \notin r[k].flags}
Acks(s, type) == {k \in DOMAIN s : s[k].type = type /\ s[k] # ServerPreface}
PingsOf(r, n) ==
    Selected(Len(r), Asks(r, n, "PING"), [k \in Asks(r, n, "PING") |-> r[k].payload])
PongsOf(s) == Selected(Len(s), Acks(s, "PING"), [k \in Acks(s, "PING") |-> s[k].value])

\* s acknowledges the first n frames of r.
Matches(up, r, n, s) ==
    IF up THEN /\ PongsOf(s) = PingsOf(r, n)
               /\ Cardinality(Acks(s, "SETTINGS")) = Cardinality(Asks(r, n, "SETTINGS"))
    ELSE /\ IsPrefix(PongsOf(s), PingsOf(r, n))
         /\ Cardinality(Acks(s, "SETTINGS")) <= Cardinality(Asks(r, n, "SETTINGS"))

\* A frame that asks for nothing, one that acknowledges nothing, and what is
\* sent beside acknowledgements.
AsksNothing(f) == f.type \notin {"PING", "SETTINGS"} \/ "ACK" \in f.flags
Plain(g) == g.type \in {"PING", "SETTINGS"} => g = ServerPreface
Follows(s, t) ==
    /\ IsSequence(s) /\ IsSequence(t)
    /\ \A k \in DOMAIN s : k \in DOMAIN t /\ t[k] = s[k]
    /\ \A k \in DOMAIN t : k \in DOMAIN s \/ Plain(t[k])

LEMMA PlainSent ==
  ASSUME NEW s, NEW t, Follows(s, t)
  PROVE  PongsOf(t) = PongsOf(s) /\ Acks(t, "SETTINGS") = Acks(s, "SETTINGS")
<1>1. /\ Len(s) \in Nat /\ DOMAIN s = 1..Len(s) /\ Len(t) \in Nat /\ DOMAIN t = 1..Len(t)
  BY SequenceFacts DEF Follows
<1>2. \A type \in {"PING", "SETTINGS"} : Acks(t, type) = Acks(s, type)
  BY <1>1 DEF Follows, Acks, Plain
<1>3. Len(s) <= Len(t)
  <2>1. CASE Len(s) = 0
    BY <1>1, <2>1
  <2>2. CASE Len(s) # 0
    BY <1>1, <2>2 DEF Follows
  <2> QED
    BY <2>1, <2>2
<1>4. PICK P : P = Acks(s, "PING") /\ P = Acks(t, "PING")
  BY <1>2
<1>5. \A k \in P : k \in DOMAIN s
  BY <1>4 DEF Acks
<1>6. [k \in P |-> t[k].value] = [k \in P |-> s[k].value]
  BY <1>5 DEF Follows
<1>7. PICK v : v = [k \in P |-> s[k].value]
  OBVIOUS
<1>8. PongsOf(t) = Selected(Len(t), P, v) /\ PongsOf(s) = Selected(Len(s), P, v)
  BY <1>4, <1>6, <1>7 DEF PongsOf
<1>9. \A k \in (Len(s) + 1)..Len(t) : k \notin P
  BY <1>1, <1>5
<1>10. Selected(Len(t), P, v) = Selected(Len(s), P, v)
  BY <1>1, <1>3, <1>9, SelectedBeyond
<1> QED
  BY <1>2, <1>8, <1>10

LEMMA AckSent ==
  ASSUME NEW s, IsSequence(s), NEW g, g # ServerPreface
  PROVE  /\ g.type = "PING" => /\ PongsOf(Append(s, g)) = Append(PongsOf(s), g.value)
                               /\ Acks(Append(s, g), "SETTINGS") = Acks(s, "SETTINGS")
         /\ g.type = "SETTINGS" =>
               /\ PongsOf(Append(s, g)) = PongsOf(s)
               /\ Acks(Append(s, g), "SETTINGS") = Acks(s, "SETTINGS") \cup {Len(s) + 1}
<1>1. PICK t : t = Append(s, g)
  OBVIOUS
<1>2. /\ Len(s) \in Nat /\ DOMAIN s = 1..Len(s)
      /\ IsSequence(t) /\ Len(t) = Len(s) + 1 /\ DOMAIN t = 1..(Len(s) + 1)
      /\ \A k \in 1..Len(s) : t[k] = s[k]
      /\ t[Len(s) + 1] = g
  BY <1>1, AppendFacts, SequenceFacts
<1>3. PICK n \in Nat : n = Len(s)
  BY <1>2
<1> DEFINE P == Acks(s, "PING")
           Q == Acks(t, "PING")
           v == [k \in P |-> s[k].value]
           w == [k \in Q |-> t[k].value]
<1>4. P \subseteq 1..n /\ PongsOf(s) = Selected(n, P, v) /\ PongsOf(t) = Selected(n + 1, Q, w)
  BY <1>2, <1>3 DEF PongsOf, Acks
<1>5. \A k \in 1..n : (k \in P <=> k \in Q) /\ (k \in P => v[k] = w[k])
  BY <1>2, <1>3 DEF Acks
<1>6. n + 1 \in Q <=> g.type = "PING"
  BY <1>2, <1>3 DEF Acks
<1>7. n + 1 \in Q => w[n + 1] = g.value
  BY <1>2, <1>3
<1> HIDE DEF P, Q, v, w
<1>8. Selected(n, P, v) = Selected(n, Q, w)
  BY <1>5, SelectedAgree
<1>9. Selected(n + 1, Q, w) = IF n + 1 \in Q THEN Append(Selected(n, Q, w), w[n + 1])
                              ELSE Selected(n, Q, w)
  BY SelectedNext
<1>10. g.type = "PING" => PongsOf(t) = Append(PongsOf(s), g.value)
  BY <1>4, <1>6, <1>7, <1>8, <1>9
<1>11. g.type = "SETTINGS" => PongsOf(t) = PongsOf(s)
  BY <1>4, <1>6, <1>8, <1>9
<1>12. g.type = "PING" => Acks(t, "SETTINGS") = Acks(s, "SETTINGS")
  BY <1>2 DEF Acks
<1>13. g.type = "SETTINGS" => Acks(t, "SETTINGS") = Acks(s, "SETTINGS") \cup {Len(s) + 1}
  BY <1>2 DEF Acks
<1> QED
  BY <1>1, <1>10, <1>11, <1>12, <1>13

\* One more frame f.
LEMMA FrameArrives ==
  ASSUME NEW r, IsSequence(r), NEW f, NEW n \in Nat, n = Len(r)
  PROVE  LET q == Append(r, f) IN
         /\ PingsOf(q, n) = PingsOf(r, n)
         /\ Asks(q, n, "SETTINGS") = Asks(r, n, "SETTINGS")
         /\ AsksNothing(f) => /\ PingsOf(q, n + 1) = PingsOf(r, n)
                              /\ Asks(q, n + 1, "SETTINGS") = Asks(r, n, "SETTINGS")
         /\ ~AsksNothing(f) /\ f.type = "PING" =>
               /\ PingsOf(q, n + 1) = Append(PingsOf(r, n), f.payload)
               /\ Asks(q, n + 1, "SETTINGS") = Asks(r, n, "SETTINGS")
         /\ ~AsksNothing(f) /\ f.type = "SETTINGS" =>
               /\ PingsOf(q, n + 1) = PingsOf(r, n)
               /\ Asks(q, n + 1, "SETTINGS") = Asks(r, n, "SETTINGS") \cup {n + 1}
<1>1. PICK q : q = Append(r, f)
  OBVIOUS
<1>2. /\ n \in Nat /\ DOMAIN r = 1..n
      /\ IsSequence(q) /\ Len(q) = n + 1 /\ DOMAIN q = 1..(n + 1)
      /\ \A k \in 1..n : q[k] = r[k]
      /\ q[n + 1] = f
  BY <1>1, AppendFacts, SequenceFacts
<1>3. \A type : Asks(q, n, type) = Asks(r, n, type)
  BY <1>2 DEF Asks
<1>4. \A type : Asks(q, n + 1, type) =
         IF f.type = type /\ "ACK" \notin f.flags THEN Asks(r, n, type) \cup {n + 1}
         ELSE Asks(r, n, type)
  <2>1. \A k \in 1..(n + 1) : k \in 1..n \/ k = n + 1
    BY <1>2
  <2>2. \A k \in 1..n : k \in 1..(n + 1) /\ n + 1 \in 1..(n + 1)
    BY <1>2
  <2>3. n + 1 \in 1..(n + 1)
    BY <1>2
  <2> QED
    BY <1>2, <2>1, <2>2, <2>3 DEF Asks
<1> DEFINE P == Asks(r, n, "PING")
           Q == Asks(q, n + 1, "PING")
           v == [k \in P |-> r[k].payload]
           u == [k \in P |-> q[k].payload]
           w == [k \in Q |-> q[k].payload]
<1>0. n \in Nat
  BY <1>2
<1>5. P \subseteq 1..n /\ u = v
  BY <1>2 DEF Asks
<1>6. /\ PingsOf(r, n) = Selected(n, P, v)
      /\ PingsOf(q, n) = Selected(n + 1, P, u)
      /\ PingsOf(q, n + 1) = Selected(n + 1, Q, w)
  BY <1>2, <1>3 DEF PingsOf
<1>7. \A k \in 1..n : (k \in P <=> k \in Q) /\ (k \in P => v[k] = w[k])
  <2>1. Q = IF f.type = "PING" /\ "ACK" \notin f.flags THEN P \cup {n + 1} ELSE P
    BY <1>4
  <2>2. \A k \in 1..n : k # n + 1
    BY <1>0
  <2>3. \A k \in 1..n : k \in P <=> k \in Q
    <3> HIDE DEF P, Q
    <3> QED
      BY <2>1, <2>2
  <2> QED
    BY <1>2, <2>3
<1>8. (n + 1 \in Q <=> f.type = "PING" /\ "ACK" \notin f.flags) /\ n + 1 \notin P
  <2>1. Q = IF f.type = "PING" /\ "ACK" \notin f.flags THEN P \cup {n + 1} ELSE P
    BY <1>4
  <2>2. n + 1 \notin P
    BY <1>0, <1>5
  <2> HIDE DEF P, Q
  <2> QED
    BY <2>1, <2>2
<1>9. n + 1 \in Q => w[n + 1] = f.payload
  BY <1>2
<1> HIDE DEF P, Q, v, w, u
<1>10. Selected(n, P, v) = Selected(n, Q, w)
  BY <1>2, <1>7, SelectedAgree
<1>11. Selected(n + 1, Q, w) = IF n + 1 \in Q THEN Append(Selected(n, Q, w), w[n + 1])
                              ELSE Selected(n, Q, w)
  <2>1. \A m \in Nat : Selected(m + 1, Q, w) =
           IF m + 1 \in Q THEN Append(Selected(m, Q, w), w[m + 1]) ELSE Selected(m, Q, w)
    BY SelectedNext, ZenonT(60)
  <2> QED
    BY <2>1, Zenon
<1>12. Selected(n + 1, P, v) = Selected(n, P, v)
  <2>1. \A m \in Nat : Selected(m + 1, P, v) =
           IF m + 1 \in P THEN Append(Selected(m, P, v), v[m + 1]) ELSE Selected(m, P, v)
    BY SelectedNext, ZenonT(60)
  <2> QED
    BY <1>8, <2>1, Zenon
<1>13. PingsOf(q, n) = PingsOf(r, n)
  BY <1>5, <1>6, <1>12, Zenon
<1>14. PingsOf(q, n + 1) = IF f.type = "PING" /\ "ACK" \notin f.flags
                           THEN Append(PingsOf(r, n), f.payload) ELSE PingsOf(r, n)
  BY <1>6, <1>8, <1>9, <1>10, <1>11
<1>15. "PING" # "SETTINGS"
  OBVIOUS
<1> QED
  BY <1>1, <1>3, <1>4, <1>13, <1>14, <1>15, Zenon DEF AsksNothing

LEMMA CountsAreFinite ==
  /\ \A r, type : \A n \in Nat : IsFiniteSet(Asks(r, n, type))
  /\ \A s, type : IsSequence(s) => IsFiniteSet(Acks(s, type))
<1>1. \A n \in Nat : IsFiniteSet(1..n)
  BY FS_Interval
<1>2. ASSUME NEW r, NEW type, NEW n \in Nat PROVE IsFiniteSet(Asks(r, n, type))
  <2>1. Asks(r, n, type) \subseteq 1..n
    BY DEF Asks
  <2> QED
    BY <1>1, <2>1, FS_Subset
<1>3. ASSUME NEW s, NEW type, IsSequence(s) PROVE IsFiniteSet(Acks(s, type))
  <2>1. Acks(s, type) \subseteq 1..Len(s) /\ Len(s) \in Nat
    BY <1>3, SequenceFacts DEF Acks
  <2> QED
    BY <1>1, <2>1, FS_Subset
<1> QED
  BY <1>2, <1>3

\* Frames that acknowledge nothing leave what is acknowledged alone; a peer
\* that leaves may miss some.
LEMMA MatchesKept ==
  ASSUME NEW r, NEW n, NEW s, NEW t, NEW u \in BOOLEAN, NEW w \in BOOLEAN, w => u,
         IsSequence(r), n \in Nat, Follows(s, t), Matches(u, r, n, s)
  PROVE  Matches(w, r, n, t)
<1>1. PongsOf(t) = PongsOf(s) /\ Acks(t, "SETTINGS") = Acks(s, "SETTINGS")
  BY PlainSent
<1>2. CASE w <=> u
  BY <1>1, <1>2 DEF Matches
<1>3. CASE u /\ ~w
  <2>1. /\ PongsOf(s) = PingsOf(r, n)
        /\ Cardinality(Acks(s, "SETTINGS")) = Cardinality(Asks(r, n, "SETTINGS"))
    BY <1>3 DEF Matches
  <2>2. \E S : PingsOf(r, n) \in Seq(S)
    <3>1. Len(r) \in Nat
      BY SequenceFacts
    <3> QED
      BY <3>1, SelectedNext, Zenon DEF PingsOf
  <2>3. \A S : \A p \in Seq(S) : IsPrefix(p, p)
    BY DEF IsPrefix
  <2>4. IsPrefix(PongsOf(s), PingsOf(r, n))
    BY <2>1, <2>2, <2>3
  <2>5. Cardinality(Asks(r, n, "SETTINGS")) \in Nat
    BY CountsAreFinite, FS_CardinalityType
  <2>6. \A a, b \in Nat : a = b => a <= b
    OBVIOUS
  <2>7. Cardinality(Acks(s, "SETTINGS")) <= Cardinality(Asks(r, n, "SETTINGS"))
    BY <2>1, <2>5, <2>6
  <2> QED
    BY <1>1, <1>3, <2>4, <2>7 DEF Matches
<1> QED
  BY <1>2, <1>3

\* A frame that asks for nothing changes nothing, and neither does one that is
\* not taken.
LEMMA MatchesArrival ==
  ASSUME NEW r, NEW n \in Nat, NEW f, NEW s, NEW u \in BOOLEAN,
         IsSequence(r), n = Len(r), Matches(u, r, n, s)
  PROVE  /\ Matches(u, Append(r, f), n, s)
         /\ AsksNothing(f) => Matches(u, Append(r, f), n + 1, s)
BY FrameArrives, Zenon DEF Matches

LEMMA MatchesPing ==
  ASSUME NEW r, NEW n \in Nat, NEW f, NEW s, NEW g,
         IsSequence(r), n = Len(r), IsSequence(s), Matches(TRUE, r, n, s),
         ~AsksNothing(f), f.type = "PING",
         g.type = "PING", g # ServerPreface, g.value = f.payload
  PROVE  Matches(TRUE, Append(r, f), n + 1, Append(s, g))
<1>1. /\ PingsOf(Append(r, f), n + 1) = Append(PingsOf(r, n), f.payload)
      /\ Asks(Append(r, f), n + 1, "SETTINGS") = Asks(r, n, "SETTINGS")
  BY FrameArrives
<1>2. /\ PongsOf(Append(s, g)) = Append(PongsOf(s), f.payload)
      /\ Acks(Append(s, g), "SETTINGS") = Acks(s, "SETTINGS")
  BY AckSent
<1> QED
  BY <1>1, <1>2, Zenon DEF Matches

LEMMA MatchesSettings ==
  ASSUME NEW r, NEW n \in Nat, NEW f, NEW s, NEW g,
         IsSequence(r), n = Len(r), IsSequence(s), Matches(TRUE, r, n, s),
         ~AsksNothing(f), f.type = "SETTINGS",
         g.type = "SETTINGS", g # ServerPreface
  PROVE  Matches(TRUE, Append(r, f), n + 1, Append(s, g))
<1>1. /\ PingsOf(Append(r, f), n + 1) = PingsOf(r, n)
      /\ Asks(Append(r, f), n + 1, "SETTINGS") = Asks(r, n, "SETTINGS") \cup {n + 1}
  BY FrameArrives
<1>2. /\ PongsOf(Append(s, g)) = PongsOf(s)
      /\ Acks(Append(s, g), "SETTINGS") = Acks(s, "SETTINGS") \cup {Len(s) + 1}
  BY AckSent, Zenon
<1>3. /\ PongsOf(s) = PingsOf(r, n)
      /\ Cardinality(Acks(s, "SETTINGS")) = Cardinality(Asks(r, n, "SETTINGS"))
  BY DEF Matches
<1>4. n + 1 \notin Asks(r, n, "SETTINGS")
  BY DEF Asks
<1>5. Len(s) + 1 \notin Acks(s, "SETTINGS")
  BY SequenceFacts DEF Acks
<1>6. /\ IsFiniteSet(Asks(r, n, "SETTINGS")) /\ IsFiniteSet(Acks(s, "SETTINGS"))
  BY CountsAreFinite
<1>7. Cardinality(Asks(r, n, "SETTINGS") \cup {n + 1}) = Cardinality(Asks(r, n, "SETTINGS")) + 1
  BY <1>4, <1>6, FS_AddElement, Zenon
<1>8. Cardinality(Acks(s, "SETTINGS") \cup {Len(s) + 1}) = Cardinality(Acks(s, "SETTINGS")) + 1
  BY <1>5, <1>6, FS_AddElement, Zenon
<1> QED
  BY <1>1, <1>2, <1>3, <1>7, <1>8, Zenon DEF Matches

\* How many frames were taken: not one that was refused.
Refused ==
    \/ \E k \in DOMAIN sent : sent[k].type = "GOAWAY" /\
          sent[k].value.code # "INTERNAL_ERROR"
    \/ Len(received) = 1 /\ received[1].type # "SETTINGS"
Taken == IF Refused THEN Len(received) - 1 ELSE Len(received)

LEMMA AcknowledgesIs == AcknowledgesAll <=> Matches(peer = "up", received, Taken, sent)
BY Zenon DEF AcknowledgesAll, Matches, Taken, Refused, PingsOf, PongsOf, Asks, Acks

\* Until the handler is done every frame was taken, and the first is the
\* SETTINGS frame of the preface.
AckInv ==
    /\ phase # "done" => Matches(peer = "up", received, Len(received), sent)
    /\ phase \in {"start", "magic", "preface"} => received = << >>
    /\ phase \in {"frames", "respond"} => received # << >> /\ received[1].type = "SETTINGS"
    /\ phase = "done" => AcknowledgesAll

\* What is sent beside acknowledgements and the frames of responses.
LEMMA PlainFrames ==
  ASSUME IsSequence(sent)
  PROVE  /\ UNCHANGED sent => Follows(sent, sent')
         /\ Send(<< >>) => Follows(sent, sent')
         /\ \A id, code : Send(<<Rst(id, code)>>) => Follows(sent, sent')
         /\ Send(<<ErrorPage>>) => Follows(sent, sent')
         /\ Send(<<ServerPreface>>) => Follows(sent, sent')
         /\ \A code : \A e \in AnyError :
               /\ Send(<<e>>) => Follows(sent, sent')
               /\ Send(<<Goaway(code), e>>) => Follows(sent, sent')
               /\ Send(<<ServerPreface, Goaway(code), e>>) => Follows(sent, sent')
<1>1. ASSUME NEW fs, IsSequence(fs), Send(fs), \A i \in DOMAIN fs : Plain(fs[i])
      PROVE  Follows(sent, sent')
  <2>1. /\ IsSequence(sent')
        /\ \A k \in DOMAIN sent : k \in DOMAIN sent' /\ sent'[k] = sent[k]
        /\ \A k \in DOMAIN sent' : k \in DOMAIN sent \/ \E i \in DOMAIN fs : sent'[k] = fs[i]
    BY <1>1, SendFacts
  <2> QED
    BY <1>1, <2>1 DEF Follows
<1>2. /\ IsSequence(<< >>) /\ DOMAIN << >> = {}
      /\ \A a : IsSequence(<<a>>) /\ DOMAIN <<a>> = {1}
      /\ \A a, b : IsSequence(<<a, b>>) /\ DOMAIN <<a, b>> = {1, 2}
      /\ \A a, b, c : IsSequence(<<a, b, c>>) /\ DOMAIN <<a, b, c>> = {1, 2, 3}
  <2>1. << >> \in Seq({}) /\ \A a : <<a>> \in Seq({a})
    OBVIOUS
  <2>2. \A a, b : <<a, b>> \in Seq({a, b})
    OBVIOUS
  <2>3. \A a, b, c : <<a, b, c>> \in Seq({a, b, c})
    OBVIOUS
  <2>4. /\ IsSequence(<< >>) /\ \A a : IsSequence(<<a>>)
        /\ \A a, b : IsSequence(<<a, b>>)
        /\ \A a, b, c : IsSequence(<<a, b, c>>)
    BY <2>1, <2>2, <2>3, BuiltSequence, Zenon
  <2> QED
    BY <2>4
<1>3. /\ \A id, code : Plain(Rst(id, code))
      /\ Plain(ErrorPage) /\ Plain(ServerPreface)
      /\ \A code : Plain(Goaway(code))
  BY DEF Plain, Rst, ControlFrame, ErrorPage, Goaway
<1>9. \A e \in AnyError : Plain(e)
  BY <1>3 DEF AnyError
<1>4. UNCHANGED sent => Follows(sent, sent')
  BY DEF Follows
<1>5. Send(<< >>) => Follows(sent, sent')
  BY <1>1, <1>2
<1>6. ASSUME NEW a, Plain(a), Send(<<a>>) PROVE Follows(sent, sent')
  <2>1. <<a>>[1] = a
    OBVIOUS
  <2> QED
    BY <1>1, <1>2, <1>6, <2>1
<1>7. ASSUME NEW a, NEW b, Plain(a), Plain(b), Send(<<a, b>>) PROVE Follows(sent, sent')
  <2>1. <<a, b>>[1] = a /\ <<a, b>>[2] = b
    OBVIOUS
  <2> QED
    BY <1>1, <1>2, <1>7, <2>1
<1>8. ASSUME NEW a, NEW b, NEW c, Plain(a), Plain(b), Plain(c), Send(<<a, b, c>>)
      PROVE  Follows(sent, sent')
  <2>1. <<a, b, c>>[1] = a /\ <<a, b, c>>[2] = b /\ <<a, b, c>>[3] = c
    OBVIOUS
  <2> QED
    BY <1>1, <1>2, <1>8, <2>1
<1> QED
  BY <1>3, <1>4, <1>5, <1>6, <1>7, <1>8, <1>9, Zenon

AckFacts ==
    /\ IsSequence(received) /\ IsSequence(sent) /\ Len(received) \in Nat
    /\ (peer = "up") \in BOOLEAN
    /\ phase # "done" => \A k \in DOMAIN sent : sent[k].type # "GOAWAY"

LEMMA AckFactsHold == IInv => AckFacts
BY InvFacts, SequenceFacts DEF IInv, GoawayInv, AckFacts, ReceivedOK

\* No frame arrives and nothing is acknowledged.
LEMMA AckQuiet ==
  ASSUME AckFacts, AckInv, phase # "done", UNCHANGED received, Follows(sent, sent'),
         peer' = "up" => peer = "up"
  PROVE  Matches(peer' = "up", received', Len(received'), sent')
<1>1. Matches(peer = "up", received, Len(received), sent)
  BY DEF AckInv
<1>2. PICK u \in BOOLEAN : u = (peer = "up")
  OBVIOUS
<1>3. PICK w \in BOOLEAN : w = (peer' = "up")
  OBVIOUS
<1>4. w => u
  BY <1>2, <1>3
<1>5. PICK r, s, t, n : r = received /\ s = sent /\ t = sent' /\ n = Len(received)
  OBVIOUS
<1>6. Matches(w, r, n, t)
  BY <1>1, <1>2, <1>4, <1>5, MatchesKept DEF AckFacts
<1> QED
  BY <1>3, <1>5, <1>6

\* A frame that asks for nothing, or is not taken.
LEMMA AckArrival ==
  ASSUME AckFacts, AckInv, phase # "done", NEW f, received' = Append(received, f),
         Follows(sent, sent'), UNCHANGED peer
  PROVE  /\ Len(received') = Len(received) + 1
         /\ Matches(peer' = "up", received', Len(received), sent')
         /\ AsksNothing(f) => Matches(peer' = "up", received', Len(received'), sent')
<1>1. Matches(peer = "up", received, Len(received), sent)
  BY DEF AckInv
<1>2. PICK u \in BOOLEAN : u = (peer = "up")
  OBVIOUS
<1>3. PICK r, s, t, n : r = received /\ s = sent /\ t = sent' /\ n = Len(received)
  OBVIOUS
<1>4. n \in Nat /\ IsSequence(r)
  BY <1>3 DEF AckFacts
<1>5. Matches(u, r, n, t)
  BY <1>1, <1>2, <1>3, <1>4, MatchesKept
<1>6. Matches(u, Append(r, f), n, t) /\ (AsksNothing(f) => Matches(u, Append(r, f), n + 1, t))
  BY <1>3, <1>4, <1>5, MatchesArrival
<1>7. Len(Append(r, f)) = n + 1
  BY <1>3, <1>4, AppendFacts
<1> QED
  BY <1>2, <1>3, <1>6, <1>7

\* The first frame stays the first.
LEMMA FirstStays ==
  ASSUME AckFacts, NEW f, received' = Append(received, f)
  PROVE  /\ received' # << >>
         /\ received = << >> => received'[1] = f /\ Len(received') = 1
         /\ received # << >> => received'[1] = received[1] /\ Len(received') # 1
<1>1. /\ Len(received') = Len(received) + 1
      /\ \A k \in 1..Len(received) : received'[k] = received[k]
      /\ received'[Len(received) + 1] = f
  BY AppendFacts DEF AckFacts
<1>2. Len(received) \in Nat /\ IsSequence(received)
  BY DEF AckFacts
<1>3. received = << >> <=> Len(received) = 0
  BY <1>2 DEF IsSequence
<1> QED
  BY <1>1, <1>2, <1>3

\* The end with a frame that asks for nothing, or that is refused.
LEMMA AckEnds ==
  ASSUME AckFacts, AckInv, phase # "done", phase' = "done", NEW f,
         received' = Append(received, f), Follows(sent, sent'), UNCHANGED peer,
         AsksNothing(f) \/ Refused'
  PROVE  AckInv'
<1>1. /\ Len(received') = Len(received) + 1 /\ Len(received) \in Nat
      /\ Matches(peer' = "up", received', Len(received), sent')
      /\ AsksNothing(f) => Matches(peer' = "up", received', Len(received'), sent')
  BY AckArrival DEF AckFacts
<1>2. Len(received') - 1 = Len(received)
  BY <1>1
<1>3. Taken' = IF Refused' THEN Len(received) ELSE Len(received')
  BY <1>2 DEF Taken
<1>4. Matches(peer' = "up", received', Taken', sent')
  BY <1>1, <1>3
<1>5. AcknowledgesAll'
  <2>1. (AcknowledgesAll <=> Matches(peer = "up", received, Taken, sent))'
    BY AcknowledgesIs, PTL
  <2> QED
    BY <1>4, <2>1
<1> QED
  BY <1>5 DEF AckInv

\* The end without a frame: a preface or an upgrade that fails before the
\* first one, or a read that fails.
LEMMA AckLeaves ==
  ASSUME AckFacts, AckInv, phase # "done", phase' = "done", UNCHANGED <<received, peer>>,
         Follows(sent, sent'), received = << >> \/ ~Refused'
  PROVE  AckInv'
<1>1. Matches(peer' = "up", received', Len(received'), sent')
  BY AckQuiet
<1>2. Matches(peer' = "up", received', Taken', sent')
  <2>1. CASE ~Refused'
    BY <1>1, <2>1 DEF Taken
  <2>2. CASE received = << >>
    <3>1. received' = << >> /\ Len(<< >>) = 0
      BY <2>2
    <3>2. Asks(<< >>, 0 - 1, "PING") = {} /\ Asks(<< >>, 0 - 1, "SETTINGS") = {}
      BY DEF Asks
    <3>3. Asks(<< >>, 0, "PING") = {} /\ Asks(<< >>, 0, "SETTINGS") = {}
      BY DEF Asks
    <3>4. PingsOf(<< >>, 0 - 1) = PingsOf(<< >>, 0)
      BY <3>2, <3>3, Zenon DEF PingsOf
    <3>5. Matches(peer' = "up", << >>, 0 - 1, sent') <=> Matches(peer' = "up", << >>, 0, sent')
      BY <3>2, <3>3, <3>4, Zenon DEF Matches
    <3>6. Taken' = 0 \/ Taken' = 0 - 1
      BY <3>1 DEF Taken
    <3> QED
      BY <1>1, <3>1, <3>5, <3>6, Zenon
  <2> QED
    BY <2>1, <2>2
<1>3. AcknowledgesAll'
  <2>1. (AcknowledgesAll <=> Matches(peer = "up", received, Taken, sent))'
    BY AcknowledgesIs, PTL
  <2> QED
    BY <1>2, <2>1
<1> QED
  BY <1>3 DEF AckInv

LEMMA AckStart ==
  ASSUME AckFacts, AckInv,
         StartDirect \/ StartUpgrade \/ Magic \/ MagicFails \/ ReadFails
  PROVE  AckInv'
<1>1. IsSequence(sent)
  BY DEF AckFacts
<1>2. CASE StartDirect
  <2>1. /\ phase = "start" /\ phase' = "preface" /\ Send(<<ServerPreface>>)
        /\ UNCHANGED <<received, peer>>
    BY <1>2 DEF StartDirect
  <2>2. Follows(sent, sent')
    BY <1>1, <2>1, PlainFrames
  <2>3. Matches(peer' = "up", received', Len(received'), sent')
    BY <2>1, <2>2, AckQuiet
  <2> QED
    BY <2>1, <2>3 DEF AckInv
<1>3. CASE StartUpgrade
  <2>1. PICK p \in UpgradeSettings :
         \/ phase' = "magic" /\ UNCHANGED peer /\ Send(<<ServerPreface>>)
         \/ Leave(<<ServerPreface, Goaway(SettingsError(p)), ErrorPage>>)
    BY <1>3 DEF StartUpgrade
  <2>2. phase = "start" /\ UNCHANGED received /\ received = << >>
    BY <1>3 DEF StartUpgrade, AckInv
  <2>3. CASE phase' = "magic" /\ UNCHANGED peer /\ Send(<<ServerPreface>>)
    <3>1. Follows(sent, sent')
      BY <1>1, <2>3, PlainFrames
    <3>2. Matches(peer' = "up", received', Len(received'), sent')
      BY <2>2, <2>3, <3>1, AckQuiet
    <3> QED
      BY <2>2, <2>3, <3>2 DEF AckInv
  <2>4. CASE Leave(<<ServerPreface, Goaway(SettingsError(p)), ErrorPage>>)
    <3>1. PICK code : Leave(<<ServerPreface, Goaway(code), ErrorPage>>)
      BY <2>4
    <3>2. /\ phase' = "done" /\ UNCHANGED peer
          /\ Send(<<ServerPreface, Goaway(code), ErrorPage>>)
      BY <3>1 DEF Leave
    <3>3. Follows(sent, sent')
      <4>1. ErrorPage \in AnyError
        BY DEF AnyError
      <4> QED
        BY <1>1, <3>2, <4>1, PlainFrames
    <3> QED
      BY <2>2, <3>2, <3>3, AckLeaves
  <2> QED
    BY <2>1, <2>3, <2>4
<1>4. CASE Magic
  <2>1. phase = "magic" /\ phase' = "preface" /\ UNCHANGED <<received, peer, sent>>
    BY <1>4 DEF Magic
  <2>2. Follows(sent, sent')
    BY <1>1, <2>1, PlainFrames
  <2>3. Matches(peer' = "up", received', Len(received'), sent')
    BY <2>1, <2>2, AckQuiet
  <2> QED
    BY <2>1, <2>3 DEF AckInv
<1>5. CASE MagicFails
  <2>1. PICK e \in AnyError :
           /\ phase = "magic" /\ received = << >> /\ phase' = "done" /\ Send(<<e>>)
           /\ UNCHANGED <<received, peer>>
    BY <1>5, ErrorsAre DEF MagicFails, Leave, AckInv
  <2>2. Follows(sent, sent')
    BY <1>1, <2>1, PlainFrames
  <2> QED
    BY <2>1, <2>2, AckLeaves
<1>6. CASE ReadFails
  <2>1. PICK x \in AnyError :
           /\ phase \in {"preface", "frames"} /\ phase' = "done"
           /\ phase = "frames" => x = ErrorPage
           /\ Send(<<Goaway("INTERNAL_ERROR"), x>>)
           /\ UNCHANGED <<received, peer>>
    BY <1>6, ErrorsAre DEF ReadFails, Leave, Errors
  <2>2. Follows(sent, sent')
    BY <1>1, <2>1, PlainFrames
  <2>4. phase = "preface" => received = << >>
    BY DEF AckInv
  <2>3. received = << >> \/ ~Refused'
    <3> SUFFICES ASSUME phase = "frames" PROVE ~Refused'
      BY <2>1, <2>4
    <3>1. PICK g, e : g = Goaway("INTERNAL_ERROR") /\ e = x
      OBVIOUS
    <3>2. g.value.code = "INTERNAL_ERROR" /\ e.type # "GOAWAY"
      <4>1. e = ErrorPage
        BY <2>1, <3>1
      <4>2. g.value.code = "INTERNAL_ERROR"
        BY <3>1 DEF Goaway, ControlFrame
      <4>3. ErrorPage.type # "GOAWAY"
        BY DEF ErrorPage, ControlFrame
      <4> QED
        BY <4>1, <4>2, <4>3
    <3>3. IsSequence(<<g, e>>) /\ DOMAIN <<g, e>> = {1, 2} /\ <<g, e>>[1] = g /\ <<g, e>>[2] = e
      <4>1. <<g, e>> \in Seq({g, e})
        OBVIOUS
      <4>2. IsSequence(<<g, e>>)
        BY <4>1, BuiltSequence
      <4> QED
        BY <4>2
    <3>4. \A k \in DOMAIN sent' : k \in DOMAIN sent \/ \E i \in DOMAIN <<g, e>> : sent'[k] = <<g, e>>[i]
      BY <1>1, <2>1, <3>1, <3>3, SendFacts
    <3>5. \A k \in DOMAIN sent : sent'[k] = sent[k] /\ sent[k].type # "GOAWAY"
      BY <2>1, <2>2 DEF AckFacts, Follows
    <3>6. \A k \in DOMAIN sent' : sent'[k].type = "GOAWAY" =>
             sent'[k].value.code = "INTERNAL_ERROR"
      BY <3>2, <3>3, <3>4, <3>5
    <3>7. received[1].type = "SETTINGS"
      BY DEF AckInv
    <3> QED
      BY <2>1, <3>6, <3>7 DEF Refused
  <2> QED
    BY <2>1, <2>2, <2>3, AckLeaves
<1> QED
  BY <1>2, <1>3, <1>4, <1>5, <1>6

\* The frames of the loop other than PING.
LEMMA LoopFramesPlain ==
  ASSUME AckFacts, phase = "frames", NEW f,
         \/ GoawayFrame(f) \/ WindowUpdateFrame(f)
         \/ PushPromiseFrame(f) \/ PriorityFrame(f) \/ RstStreamFrame(f)
         \/ HeadersFrame(f) \/ ContinuationFrame(f) \/ DataFrame(f)
  PROVE  /\ AsksNothing(f) /\ Follows(sent, sent') /\ UNCHANGED peer
         /\ phase' \in {"frames", "respond", "done"}
<1> USE DEF AckFacts
<1>1. AsksNothing(f)
  BY DEF AsksNothing, GoawayFrame, WindowUpdateFrame, PushPromiseFrame, PriorityFrame,
         RstStreamFrame, HeadersFrame, ContinuationFrame, DataFrame
<1> DEFINE Done == /\ Follows(sent, sent') /\ UNCHANGED peer
                   /\ phase' \in {"frames", "respond", "done"}
<1>2. ASSUME Stays, UNCHANGED sent \/ \E id, code : Send(<<Rst(id, code)>>) PROVE Done
  BY <1>2, PlainFrames DEF Stays
<1>3. ASSUME NEW id, NEW code, StreamError(id, code) PROVE Done
  BY <1>2, <1>3 DEF StreamError
<1>4. ASSUME NEW id, NEW s, Finish(id, s) PROVE Done
  <2>1. UNCHANGED peer
    BY <1>4 DEF Finish
  <2>2. \/ phase' = "respond" /\ UNCHANGED sent
        \/ phase' = "done" /\ Send(<<ErrorPage>>)
    BY <1>4 DEF Finish, Hand
  <2> QED
    BY <2>1, <2>2, PlainFrames
<1>5. ASSUME NEW id, NEW s, Continue(id, s) PROVE Done
  BY <1>2, <1>4, <1>5 DEF Continue
<1> SUFFICES Done
  BY <1>1
<1> HIDE DEF Done
<1>6. CASE GoawayFrame(f)
  BY <1>6, PlainFrames DEF GoawayFrame, Leave, Done
<1>7. CASE WindowUpdateFrame(f)
  BY <1>2, <1>7 DEF WindowUpdateFrame
<1>8. CASE PushPromiseFrame(f)
  BY <1>3, <1>8 DEF PushPromiseFrame
<1>9. CASE PriorityFrame(f)
  BY <1>2, <1>9 DEF PriorityFrame
<1>10. CASE RstStreamFrame(f)
  BY <1>2, <1>3, <1>10 DEF RstStreamFrame
<1>11. CASE HeadersFrame(f)
  BY <1>2, <1>3, <1>5, <1>11 DEF HeadersFrame
<1>12. CASE ContinuationFrame(f)
  BY <1>3, <1>5, <1>12 DEF ContinuationFrame
<1>13. CASE DataFrame(f)
  BY <1>2, <1>3, <1>4, <1>13 DEF DataFrame
<1> QED
  BY <1>6, <1>7, <1>8, <1>9, <1>10, <1>11, <1>12, <1>13

\* A frame of the loop, or the first SETTINGS frame, that was taken.
LEMMA AckTaken ==
  ASSUME AckFacts, AckInv, phase \in {"preface", "frames"}, NEW f,
         received' = Append(received, f), phase = "preface" => f.type = "SETTINGS",
         phase' \in {"frames", "respond"},
         Matches(peer' = "up", received', Len(received'), sent')
  PROVE  AckInv'
<1>1. received' # << >> /\ received'[1].type = "SETTINGS"
  BY FirstStays DEF AckInv
<1> QED
  BY <1>1 DEF AckInv

LEMMA AckReceive ==
  ASSUME AckFacts, AckInv, Receive
  PROVE  AckInv'
<1>1. PICK f \in Frames[Len(received) + 1] :
         /\ received' = Append(received, f)
         /\ Refuse(f) \/ RefuseFirst(f) \/ SettingsFrame(f) \/ FrameInLoop(f)
  BY DEF Receive
<1>2. phase \in {"preface", "frames"} /\ peer = "up" /\ IsSequence(sent)
  BY DEF Receive, AckFacts
<1>3. PICK n \in Nat : n = Len(received)
  BY DEF AckFacts
<1>4. IsSequence(received) /\ Matches(TRUE, received, n, sent)
  BY <1>2, <1>3 DEF AckInv, AckFacts
<1>5. Len(received') = n + 1
  BY <1>1, <1>3, AppendFacts DEF AckFacts
<1>6. CASE Refuse(f)
  <2>1. PICK code : code = ParseError(f)
    OBVIOUS
  <2>6. PICK x \in AnyError : Leave(<<Goaway(code), x>>)
    BY <1>6, <2>1, ErrorsAre DEF Refuse
  <2>2. phase' = "done" /\ UNCHANGED peer /\ Send(<<Goaway(code), x>>)
    BY <2>6 DEF Leave
  <2>3. Follows(sent, sent')
    BY <1>2, <2>2, PlainFrames
  <2>4. CASE code = "INTERNAL_ERROR"
    <3>1. f.type \notin {"PING", "SETTINGS"}
      BY <2>1, <2>4 DEF ParseError, PingError, SettingsFrameError, SettingsError, Verdict
    <3>2. AsksNothing(f)
      BY <3>1 DEF AsksNothing
    <3> QED
      BY <1>1, <1>2, <2>2, <2>3, <3>2, AckEnds
  <2>5. CASE code # "INTERNAL_ERROR"
    <3>1. PICK g, e : g = Goaway(code) /\ e = x
      OBVIOUS
    <3>2. g.type = "GOAWAY" /\ g.value.code = code
      BY <3>1 DEF Goaway, ControlFrame
    <3>3. sent' = sent \o <<g, e>>
      BY <1>2, <2>2, <3>1 DEF Send
    <3>4. IsSequence(<<g, e>>) /\ Len(<<g, e>>) = 2 /\ <<g, e>>[1] = g
      <4>1. <<g, e>> \in Seq({g, e})
        OBVIOUS
      <4>2. IsSequence(<<g, e>>)
        BY <4>1, BuiltSequence
      <4> QED
        BY <4>2
    <3>5. PICK m \in Nat : m = Len(sent)
      BY <1>2, SequenceFacts
    <3>6. /\ DOMAIN sent' = 1..(m + 2)
          /\ \A k \in (m + 1)..(m + 2) : sent'[k] = <<g, e>>[k - m]
      BY <1>2, <3>3, <3>4, <3>5, ConcatFacts
    <3>7. m + 1 \in DOMAIN sent' /\ sent'[m + 1] = g
      <4>1. m + 1 \in (m + 1)..(m + 2) /\ m + 1 \in 1..(m + 2) /\ (m + 1) - m = 1
        OBVIOUS
      <4> QED
        BY <3>4, <3>6, <4>1
    <3>8. Refused'
      BY <2>5, <3>2, <3>7 DEF Refused
    <3> QED
      BY <1>1, <1>2, <2>2, <2>3, <3>8, AckEnds
  <2> QED
    BY <2>4, <2>5
<1>7. CASE RefuseFirst(f)
  <2>1. PICK e \in AnyError :
           /\ phase = "preface" /\ f.type # "SETTINGS" /\ phase' = "done" /\ UNCHANGED peer
           /\ Send(<<e>>)
    BY <1>7, ErrorsAre DEF RefuseFirst, Leave
  <2>2. Follows(sent, sent')
    BY <1>2, <2>1, PlainFrames
  <2>3. received = << >>
    BY <2>1 DEF AckInv
  <2>4. Refused'
    BY <1>1, <2>1, <2>3, FirstStays DEF Refused
  <2> QED
    BY <1>1, <2>1, <2>2, <2>4, AckEnds
<1>8. CASE SettingsFrame(f)
  <2>1. f.type = "SETTINGS" /\ UNCHANGED peer /\ phase' \in {"frames", "respond"}
    BY <1>8 DEF SettingsFrame, Hand
  <2>2. CASE "ACK" \in f.flags
    <3>1. AsksNothing(f) /\ UNCHANGED sent
      BY <1>8, <2>2 DEF SettingsFrame, AsksNothing
    <3>2. Follows(sent, sent')
      BY <1>2, <3>1, PlainFrames
    <3>3. Matches(peer' = "up", received', Len(received'), sent')
      BY <1>1, <1>2, <2>1, <3>1, <3>2, AckArrival
    <3> QED
      BY <1>1, <1>2, <2>1, <3>3, AckTaken
  <2>3. CASE "ACK" \notin f.flags
    <3>1. PICK g : g = ControlFrame("SETTINGS", 0, << >>)
      OBVIOUS
    <3>2. g.type = "SETTINGS" /\ g # ServerPreface /\ ~AsksNothing(f)
      BY <2>1, <2>3, <3>1 DEF ControlFrame, ServerPreface, AsksNothing
    <3>3. sent' = Append(sent, g)
      <4>1. sent' = sent \o <<g>>
        BY <1>2, <1>8, <2>3, <3>1 DEF SettingsFrame, Send, SettingsAck
      <4>2. sent \in Seq({sent[k] : k \in DOMAIN sent})
        BY <1>2 DEF IsSequence
      <4>3. \A S : \A s \in Seq(S) : \A x : s \o <<x>> = Append(s, x)
        OBVIOUS
      <4> QED
        BY <4>1, <4>2, <4>3
    <3>4. Matches(TRUE, received', n + 1, sent')
      BY <1>1, <1>2, <1>3, <1>4, <2>1, <3>2, <3>3, MatchesSettings
    <3>5. Matches(peer' = "up", received', Len(received'), sent')
      BY <1>2, <1>5, <2>1, <3>4
    <3> QED
      BY <1>1, <1>2, <2>1, <3>5, AckTaken
  <2> QED
    BY <2>2, <2>3
<1>9. CASE FrameInLoop(f)
  <2>1. phase = "frames"
    BY <1>9 DEF FrameInLoop
  <2>2. CASE PingFrame(f)
    <3>1. f.type = "PING" /\ UNCHANGED peer /\ phase' = "frames"
      BY <2>1, <2>2 DEF PingFrame, Stays
    <3>2. CASE "ACK" \in f.flags
      <4>1. AsksNothing(f) /\ Send(<< >>)
        BY <2>2, <3>2 DEF PingFrame, AsksNothing
      <4>2. Follows(sent, sent')
        BY <1>2, <4>1, PlainFrames
      <4>3. Matches(peer' = "up", received', Len(received'), sent')
        BY <1>1, <1>2, <3>1, <4>1, <4>2, AckArrival
      <4> QED
        BY <1>1, <1>2, <2>1, <3>1, <4>3, AckTaken
    <3>3. CASE "ACK" \notin f.flags
      <4>1. PICK g : g = ControlFrame("PING", 0, f.payload)
        OBVIOUS
      <4>2. g.type = "PING" /\ g # ServerPreface /\ ~AsksNothing(f) /\ g.value = f.payload
        BY <3>1, <3>3, <4>1 DEF ControlFrame, ServerPreface, AsksNothing
      <4>3. sent' = Append(sent, g)
        <5>1. sent' = sent \o <<g>>
          BY <1>2, <2>2, <3>3, <4>1 DEF PingFrame, Send
        <5>2. sent \in Seq({sent[k] : k \in DOMAIN sent})
          BY <1>2 DEF IsSequence
        <5>3. \A S : \A s \in Seq(S) : \A x : s \o <<x>> = Append(s, x)
          OBVIOUS
        <5> QED
          BY <5>1, <5>2, <5>3
      <4>4. Matches(TRUE, received', n + 1, sent')
        BY <1>1, <1>2, <1>3, <1>4, <3>1, <4>2, <4>3, MatchesPing
      <4>5. Matches(peer' = "up", received', Len(received'), sent')
        BY <1>2, <1>5, <3>1, <4>4
      <4> QED
        BY <1>1, <1>2, <2>1, <3>1, <4>5, AckTaken
    <3> QED
      BY <3>2, <3>3
  <2>3. CASE ~PingFrame(f)
    <3>1. /\ AsksNothing(f) /\ Follows(sent, sent') /\ UNCHANGED peer
          /\ phase' \in {"frames", "respond", "done"}
      BY <1>9, <2>1, <2>3, LoopFramesPlain DEF FrameInLoop
    <3>2. CASE phase' = "done"
      BY <1>1, <2>1, <3>1, <3>2, AckEnds
    <3>3. CASE phase' # "done"
      <4>1. Matches(peer' = "up", received', Len(received'), sent')
        BY <1>1, <2>1, <3>1, AckArrival
      <4> QED
        BY <1>1, <2>1, <3>1, <3>3, <4>1, AckTaken
    <3> QED
      BY <3>2, <3>3
  <2> QED
    BY <2>2, <2>3
<1> QED
  BY <1>1, <1>6, <1>7, <1>8, <1>9

LEMMA AckRespond ==
  ASSUME IInv, AckFacts, AckInv, Respond \/ RespondNot \/ PeerLeaves
  PROVE  AckInv'
<1>1. /\ phase # "done" /\ UNCHANGED received
      /\ phase' \in {"start", "magic", "preface"} => phase' = phase
      /\ phase' \in {"frames", "respond"} => phase \in {"frames", "respond"}
      /\ phase' = "done" => phase = "respond" /\ Respond
  BY DEF Respond, RespondNot, PeerLeaves, IInv, TypeOK
<1>2. peer' = "up" => peer = "up"
  BY DEF Respond, RespondNot, PeerLeaves
<1> DEFINE Mild(f) == Plain(f) /\ f.type # "GOAWAY"
<1>3. /\ Follows(sent, sent')
      /\ Respond => \A k \in DOMAIN sent' : k \in DOMAIN sent \/ Mild(sent'[k])
  <2>1. CASE RespondNot \/ PeerLeaves
    BY <2>1, PlainFrames DEF RespondNot, PeerLeaves, AckFacts, Follows
  <2>2. CASE Respond
    <3>1. PICK r \in Responses :
            LET all == HeaderFrames(request, r) \o DataFrames(request, r)
            IN  \E n \in 0..Len(all) : sent' = sent \o SubSeq(all, 1, n)
      BY <2>2 DEF Respond
    <3>2. PICK h, d : h = HeaderFrames(request, r) /\ d = DataFrames(request, r)
      OBVIOUS
    <3>3. /\ IsSequence(h) /\ IsSequence(d)
      BY <3>2, InvFacts, ResponseFrames
    <3>4. /\ \A k \in DOMAIN h : h[k].type \in MessageTypes
          /\ \A k \in DOMAIN d : d[k].type \in MessageTypes
      BY <3>2 DEF HeaderFrames, DataFrames, MessageTypes, HeaderTypes
    <3>5. PICK all : all = h \o d
      OBVIOUS
    <3>6. IsSequence(all) /\ \A k \in DOMAIN all : all[k].type \in MessageTypes
      <4>1. /\ Len(h) \in Nat /\ DOMAIN h = 1..Len(h)
            /\ Len(d) \in Nat /\ DOMAIN d = 1..Len(d)
        BY <3>3, SequenceFacts
      <4>2. /\ IsSequence(all)
            /\ DOMAIN all = 1..(Len(h) + Len(d))
            /\ \A k \in 1..Len(h) : all[k] = h[k]
            /\ \A k \in (Len(h) + 1)..(Len(h) + Len(d)) : all[k] = d[k - Len(h)]
        BY <3>3, <3>5, ConcatFacts
      <4>3. ASSUME NEW k \in DOMAIN all PROVE all[k].type \in MessageTypes
        <5>1. CASE k \in 1..Len(h)
          BY <3>4, <4>1, <4>2, <5>1
        <5>2. CASE k \in (Len(h) + 1)..(Len(h) + Len(d))
          <6>1. PICK i : i = k - Len(h)
            OBVIOUS
          <6>2. i \in 1..Len(d)
            BY <4>1, <5>2, <6>1
          <6> QED
            BY <3>4, <4>1, <4>2, <5>2, <6>1, <6>2
        <5> QED
          BY <4>1, <4>2, <5>1, <5>2
      <4> QED
        BY <4>2, <4>3
    <3>7. PICK n \in 0..Len(all) : sent' = sent \o SubSeq(all, 1, n)
      BY <3>1, <3>2, <3>5
    <3>8. PICK fs : fs = SubSeq(all, 1, n)
      OBVIOUS
    <3>9. IsSequence(fs) /\ DOMAIN fs = 1..n /\ \A k \in 1..n : fs[k] = all[k]
      BY <3>6, <3>8, PrefixFacts
    <3>10. \A k \in DOMAIN fs : Mild(fs[k])
      <4>1. DOMAIN all = 1..Len(all) /\ Len(all) \in Nat
        BY <3>6, SequenceFacts
      <4> QED
        BY <3>6, <3>9, <4>1 DEF Plain, MessageTypes, HeaderTypes
    <3>11. IsSequence(sent) /\ Len(sent) \in Nat /\ DOMAIN sent = 1..Len(sent)
      BY SequenceFacts DEF AckFacts
    <3>12. Len(fs) \in Nat /\ DOMAIN fs = 1..Len(fs)
      BY <3>9, SequenceFacts
    <3>13. /\ IsSequence(sent') /\ DOMAIN sent' = 1..(Len(sent) + Len(fs))
           /\ \A k \in 1..Len(sent) : sent'[k] = sent[k]
           /\ \A k \in (Len(sent) + 1)..(Len(sent) + Len(fs)) : sent'[k] = fs[k - Len(sent)]
      BY <3>7, <3>8, <3>9, <3>11, ConcatFacts
    <3>14. \A k \in (Len(sent) + 1)..(Len(sent) + Len(fs)) : Mild(sent'[k])
      <4> SUFFICES ASSUME NEW k \in (Len(sent) + 1)..(Len(sent) + Len(fs))
                   PROVE  Mild(sent'[k])
        OBVIOUS
      <4>1. PICK i : i = k - Len(sent)
        OBVIOUS
      <4>2. i \in DOMAIN fs
        BY <3>11, <3>12, <4>1
      <4>3. sent'[k] = fs[i]
        BY <3>13, <4>1
      <4> QED
        BY <3>10, <4>2, <4>3
    <3>15. \A k \in DOMAIN sent' : k \in DOMAIN sent \/ Mild(sent'[k])
      BY <3>11, <3>12, <3>13, <3>14
    <3>16. \A k \in DOMAIN sent : k \in DOMAIN sent' /\ sent'[k] = sent[k]
      BY <3>11, <3>12, <3>13
    <3> QED
      BY <3>11, <3>13, <3>15, <3>16 DEF Follows
  <2> QED
    BY <2>1, <2>2
<1>4. Matches(peer' = "up", received', Len(received'), sent')
  BY <1>1, <1>2, <1>3, AckQuiet
<1>5. CASE phase' # "done"
  BY <1>1, <1>4, <1>5 DEF AckInv
<1>6. CASE phase' = "done"
  <2>1. Matches(peer' = "up", received', Taken', sent')
    <3>1. received[1].type = "SETTINGS"
      BY <1>1, <1>6 DEF AckInv
    <3>2. \A k \in DOMAIN sent' : sent'[k].type # "GOAWAY"
      BY <1>1, <1>3, <1>6 DEF AckFacts, Follows
    <3>3. ~Refused'
      BY <1>1, <3>1, <3>2 DEF Refused
    <3> QED
      BY <1>4, <3>3 DEF Taken
  <2>2. (AcknowledgesAll <=> Matches(peer = "up", received, Taken, sent))'
    BY AcknowledgesIs, PTL
  <2>3. AcknowledgesAll'
    BY <2>1, <2>2
  <2> QED
    BY <1>6, <2>3 DEF AckInv
<1> QED
  BY <1>5, <1>6

LEMMA AckInitially == Init => AckInv
<1> SUFFICES ASSUME Init PROVE AckInv
  OBVIOUS
<1>1. phase = "start" /\ peer = "up" /\ received = << >> /\ sent = << >>
  BY DEF Init
<1>2. Len(<< >>) = 0 /\ DOMAIN << >> = {}
  OBVIOUS
<1>3. Asks(<< >>, 0, "SETTINGS") = {} /\ Acks(<< >>, "SETTINGS") = {}
  BY <1>2 DEF Asks, Acks
<1>4. PingsOf(<< >>, 0) = << >> /\ PongsOf(<< >>) = << >>
  BY <1>2, SelectedZero, Zenon DEF PingsOf, PongsOf
<1>5. Matches(TRUE, << >>, 0, << >>)
  BY <1>3, <1>4, Zenon DEF Matches
<1>6. Matches(peer = "up", received, Len(received), sent)
  BY <1>1, <1>2, <1>5
<1> QED
  BY <1>1, <1>6 DEF AckInv

LEMMA AckStays == AckInv /\ UNCHANGED vars => AckInv'
<1> SUFFICES ASSUME AckInv, UNCHANGED vars PROVE AckInv'
  OBVIOUS
<1>1. UNCHANGED <<phase, peer, received, sent>>
  BY DEF vars
<1>2. AcknowledgesAll => AcknowledgesAll'
  BY <1>1, Zenon DEF AcknowledgesAll
<1> QED
  BY <1>1, <1>2 DEF AckInv

LEMMA AckNext == IInv /\ AckInv /\ [Next]_vars => AckInv'
<1> SUFFICES ASSUME IInv, AckInv, [Next]_vars PROVE AckInv'
  OBVIOUS
<1>1. AckFacts
  BY AckFactsHold
<1>2. CASE StartDirect \/ StartUpgrade \/ Magic \/ MagicFails \/ ReadFails
  BY <1>1, <1>2, AckStart
<1>3. CASE Receive
  BY <1>1, <1>3, AckReceive
<1>4. CASE Respond \/ RespondNot \/ PeerLeaves
  BY <1>1, <1>4, AckRespond
<1>5. CASE UNCHANGED vars
  BY <1>5, AckStays
<1> QED
  BY <1>2, <1>3, <1>4, <1>5 DEF Next

-----------------------------------------------------------------------------
(* The message of a stream, frame by frame.                                *)

HasHeaders(r, id, n) == \E j \in 1..n : r[j].id = id /\ r[j].type = "HEADERS"
Places(r, id, n) ==
    {k \in 1..n : r[k].id = id /\ r[k].type \in MessageTypes /\ HasHeaders(r, id, k)}
Message(r, id, n) == Selected(n, Places(r, id, n), r)

LEMMA MessageIs == \A id, n : MessageOf(id, n) = Message(received, id, n)
BY Zenon DEF MessageOf, Message, Places, HasHeaders, HeadersAt

LEMMA SelectedIsSequence ==
  ASSUME NEW n \in Nat, NEW P, NEW v
  PROVE  IsSequence(Selected(n, P, v))
<1>1. Selected(n, P, v) \in Seq({v[k] : k \in 1..(n + 1)})
  BY SelectedNext
<1> QED
  BY <1>1, BuiltSequence, Zenon

\* One more place, for any number of them.
LEMMA SelectedOneMore ==
  ASSUME NEW n \in Nat, NEW P, NEW Q, NEW v, NEW w,
         \A k \in 1..n : (k \in P <=> k \in Q) /\ (k \in P => v[k] = w[k])
  PROVE  Selected(n + 1, Q, w) = IF n + 1 \in Q THEN Append(Selected(n, P, v), w[n + 1])
                                 ELSE Selected(n, P, v)
<1>1. Selected(n, P, v) = Selected(n, Q, w)
  BY SelectedAgree
<1>2. Selected(n + 1, Q, w) = IF n + 1 \in Q THEN Append(Selected(n, Q, w), w[n + 1])
                              ELSE Selected(n, Q, w)
  BY SelectedNext, Zenon
<1> QED
  BY <1>1, <1>2, Zenon

\* What a stream's message was does not change.
LEMMA MessageKept ==
  ASSUME NEW r, IsSequence(r), NEW f, NEW id, NEW m \in 0..Len(r)
  PROVE  Message(Append(r, f), id, m) = Message(r, id, m)
<1>1. PICK q : q = Append(r, f)
  OBVIOUS
<1>2. Len(r) \in Nat /\ m \in Nat /\ \A k \in 1..m : q[k] = r[k]
  BY <1>1, SequenceFacts, AppendFacts
<1>3. \A k \in 1..m : HasHeaders(q, id, k) <=> HasHeaders(r, id, k)
  <2> SUFFICES ASSUME NEW k \in 1..m PROVE HasHeaders(q, id, k) <=> HasHeaders(r, id, k)
    OBVIOUS
  <2>1. \A j \in 1..k : j \in 1..m
    BY <1>2
  <2> QED
    BY <1>2, <2>1, Zenon DEF HasHeaders
<1>4. Places(q, id, m) = Places(r, id, m)
  BY <1>2, <1>3 DEF Places
<1>5. Selected(m, Places(q, id, m), q) = Selected(m, Places(r, id, m), r)
  BY <1>2, <1>4, SelectedAgree
<1> QED
  BY <1>1, <1>5 DEF Message

\* A frame of the stream is added once its headers have begun.
LEMMA MessageNext ==
  ASSUME NEW r, IsSequence(r), NEW f, NEW id, NEW n \in Nat, Len(r) = n
  PROVE  Message(Append(r, f), id, n + 1) =
           IF f.id = id /\ f.type \in MessageTypes /\
              (f.type = "HEADERS" \/ HasHeaders(r, id, n))
           THEN Append(Message(r, id, n), f) ELSE Message(r, id, n)
<1>1. PICK q : q = Append(r, f)
  OBVIOUS
<1>2. (\A k \in 1..n : q[k] = r[k]) /\ q[n + 1] = f
  BY <1>1, AppendFacts
<1>3. \A k \in 1..n : HasHeaders(q, id, k) <=> HasHeaders(r, id, k)
  <2> SUFFICES ASSUME NEW k \in 1..n PROVE HasHeaders(q, id, k) <=> HasHeaders(r, id, k)
    OBVIOUS
  <2>1. \A j \in 1..k : j \in 1..n
    OBVIOUS
  <2> QED
    BY <1>2, <2>1, Zenon DEF HasHeaders
<1> DEFINE P == Places(r, id, n)
           Q == Places(q, id, n + 1)
<1>4. \A k \in 1..n : k \in 1..(n + 1)
  OBVIOUS
<1>5. \A k \in 1..n : k \in P <=> k \in Q
  BY <1>2, <1>3, <1>4, Zenon DEF Places
<1>6. HasHeaders(q, id, n + 1) <=> HasHeaders(r, id, n) \/ (f.id = id /\ f.type = "HEADERS")
  <2>1. \A j \in 1..(n + 1) : j \in 1..n \/ j = n + 1
    OBVIOUS
  <2>2. n + 1 \in 1..(n + 1)
    OBVIOUS
  <2> QED
    BY <1>2, <1>4, <2>1, <2>2, Zenon DEF HasHeaders
<1>7. n + 1 \in Q <=> f.id = id /\ f.type \in MessageTypes /\
                      (f.type = "HEADERS" \/ HasHeaders(r, id, n))
  <2>1. n + 1 \in 1..(n + 1)
    OBVIOUS
  <2> QED
    BY <1>2, <1>6, <2>1, Zenon DEF Places
<1> HIDE DEF P, Q
<1>8. \A k \in 1..n : (k \in P <=> k \in Q) /\ (k \in P => r[k] = q[k])
  BY <1>2, <1>5, Zenon
<1>9. Selected(n + 1, Q, q) = IF n + 1 \in Q THEN Append(Selected(n, P, r), q[n + 1])
                              ELSE Selected(n, P, r)
  BY <1>8, SelectedOneMore
<1>10. Message(q, id, n + 1) = Selected(n + 1, Q, q) /\ Message(r, id, n) = Selected(n, P, r)
  BY DEF Message, P, Q
<1> QED
  BY <1>1, <1>2, <1>7, <1>9, <1>10, Zenon

\* Headers of id are there as soon as one of its HEADERS frames is.
LEMMA HeadersNext ==
  ASSUME NEW r, IsSequence(r), NEW f, NEW id, NEW n \in Nat, Len(r) = n
  PROVE  HasHeaders(Append(r, f), id, n + 1) <=>
            HasHeaders(r, id, n) \/ (f.id = id /\ f.type = "HEADERS")
<1>1. PICK q : q = Append(r, f)
  OBVIOUS
<1>2. (\A k \in 1..n : q[k] = r[k]) /\ q[n + 1] = f
  BY <1>1, AppendFacts
<1>3. \A j \in 1..(n + 1) : j \in 1..n \/ j = n + 1
  OBVIOUS
<1>4. n + 1 \in 1..(n + 1) /\ \A k \in 1..n : k \in 1..(n + 1)
  OBVIOUS
<1>5. HasHeaders(q, id, n + 1) <=> HasHeaders(r, id, n) \/ (f.id = id /\ f.type = "HEADERS")
  BY <1>2, <1>3, <1>4, Zenon DEF HasHeaders
<1> QED
  BY <1>1, <1>5, Zenon

LEMMA MessageNone ==
  ASSUME NEW r, NEW id, NEW n \in Nat, ~HasHeaders(r, id, n)
  PROVE  Message(r, id, n) = << >>
<1>1. \A k \in 1..n : \A j \in 1..k : j \in 1..n
  OBVIOUS
<1>2. \A k \in 1..n : k \notin Places(r, id, n)
  BY <1>1, Zenon DEF Places, HasHeaders
<1> QED
  BY <1>2, JoinedNone, Zenon DEF Message, Selected

LEMMA MessageIsSequence ==
  ASSUME NEW r, NEW id, NEW n \in Nat
  PROVE  IsSequence(Message(r, id, n))
BY SelectedIsSequence DEF Message

\* The parts of a message.
LEMMA PartIsSequence ==
  ASSUME NEW fs, IsSequence(fs), NEW types
  PROVE  IsSequence(Part(fs, types))
BY SequenceFacts, SelectedIsSequence DEF Part

LEMMA PartNone == \A types : Part(<< >>, types) = << >>
<1>1. Len(<< >>) = 0
  OBVIOUS
<1> QED
  BY <1>1, SelectedZero, Zenon DEF Part

LEMMA PartNext ==
  ASSUME NEW fs, IsSequence(fs), NEW f, NEW types
  PROVE  Part(Append(fs, f), types) =
           IF f.type \in types THEN Append(Part(fs, types), f) ELSE Part(fs, types)
<1>1. PICK gs : gs = Append(fs, f)
  OBVIOUS
<1>2. PICK n \in Nat : n = Len(fs)
  BY SequenceFacts
<1>3. /\ DOMAIN fs = 1..n /\ DOMAIN gs = 1..(n + 1) /\ Len(gs) = n + 1
      /\ \A k \in 1..n : gs[k] = fs[k]
      /\ gs[n + 1] = f
  BY <1>1, <1>2, AppendFacts, SequenceFacts
<1> DEFINE P == {k \in DOMAIN fs : fs[k].type \in types}
           Q == {k \in DOMAIN gs : gs[k].type \in types}
<1>4. /\ \A k \in 1..n : k \in 1..(n + 1)
      /\ n + 1 \in 1..(n + 1)
  OBVIOUS
<1>5. \A k \in 1..n : (k \in P <=> k \in Q) /\ (k \in P => fs[k] = gs[k])
  BY <1>3, <1>4, Zenon
<1>6. n + 1 \in Q <=> f.type \in types
  BY <1>3, <1>4, Zenon
<1>7. Part(fs, types) = Selected(n, P, fs) /\ Part(gs, types) = Selected(n + 1, Q, gs)
  BY <1>2, <1>3 DEF Part
<1> HIDE DEF P, Q
<1>8. Selected(n + 1, Q, gs) = IF n + 1 \in Q THEN Append(Selected(n, P, fs), gs[n + 1])
                               ELSE Selected(n, P, fs)
  BY <1>5, SelectedOneMore
<1> QED
  BY <1>1, <1>3, <1>6, <1>7, <1>8, Zenon
-----------------------------------------------------------------------------
(* What a stream holds of its message.                                     *)

Ends(f) == "END_STREAM" \in f.flags
EndsHeaders(f) == "END_HEADERS" \in f.flags
Blocks(fs) == [k \in DOMAIN fs |-> Carried(fs[k])]

\* The stream s holds the frames fs: header frames hs, then data frames ds.
Holds(s, fs, hs, ds) ==
    /\ fs = hs \o ds
    /\ s.header_blocks = Blocks(hs) /\ s.data_blocks = Blocks(ds)
    /\ hs = << >> => ~s.headers_finished
    /\ hs # << >> => hs[1].type = "HEADERS"
    /\ \A k \in DOMAIN hs : EndsHeaders(hs[k]) <=> k = Len(hs) /\ s.headers_finished
    /\ s.end_stream <=> \E k \in DOMAIN hs : Ends(hs[k])
    /\ ds # << >> => s.headers_finished /\ ~s.end_stream
    /\ \A k \in DOMAIN ds : ~Ends(ds[k])

\* A stream that may still become a request, and one that was closed: what is
\* left of that one has no headers, and is no request.
Live(s, fs) ==
    /\ Holds(s, fs, Part(fs, HeaderTypes), Part(fs, {"DATA"}))
    /\ fs = << >> => s.state = "Idle"
Dead(s) == s.state \in {"HalfClosed", "Closed"} /\ s.header_blocks = << >>

StreamSound(st, r, id) ==
    IF id \in DOMAIN st
    THEN HasEnded(st[id]) \/ Dead(st[id]) \/ Live(st[id], Message(r, id, Len(r)))
    ELSE ~HasHeaders(r, id, Len(r))

LEMMA BlocksFacts ==
  /\ Blocks(<< >>) = << >>
  /\ \A fs : IsSequence(fs) => IsSequence(Blocks(fs)) /\ Len(Blocks(fs)) = Len(fs)
  /\ \A fs, f : IsSequence(fs) => Blocks(Append(fs, f)) = Append(Blocks(fs), Carried(f))
<1>1. Blocks(<< >>) = << >>
  BY DEF Blocks
<1>2. ASSUME NEW fs, IsSequence(fs)
      PROVE  IsSequence(Blocks(fs)) /\ Len(Blocks(fs)) = Len(fs) /\ DOMAIN Blocks(fs) = 1..Len(fs)
  <2>1. Len(fs) \in Nat /\ DOMAIN fs = 1..Len(fs)
    BY <1>2, SequenceFacts
  <2>2. Blocks(fs) = [k \in 1..Len(fs) |-> Blocks(fs)[k]] /\ DOMAIN Blocks(fs) = 1..Len(fs)
    BY <2>1 DEF Blocks
  <2> QED
    BY <2>1, <2>2, FunctionIsSequence
<1>3. ASSUME NEW fs, NEW f, IsSequence(fs)
      PROVE  Blocks(Append(fs, f)) = Append(Blocks(fs), Carried(f))
  <2>1. PICK n \in Nat : n = Len(fs) /\ DOMAIN fs = 1..n
    BY <1>3, SequenceFacts
  <2>2. PICK gs : gs = Append(fs, f)
    OBVIOUS
  <2>3. DOMAIN gs = 1..(n + 1) /\ (\A k \in 1..n : gs[k] = fs[k]) /\ gs[n + 1] = f
    BY <1>3, <2>1, <2>2, AppendFacts
  <2>4. PICK a, b : a = Blocks(gs) /\ b = Append(Blocks(fs), Carried(f))
    OBVIOUS
  <2>5. /\ DOMAIN b = 1..(n + 1) /\ (\A k \in 1..n : b[k] = Blocks(fs)[k]) /\ b[n + 1] = Carried(f)
        /\ IsSequence(b)
    BY <1>2, <1>3, <2>1, <2>4, AppendFacts
  <2>6. DOMAIN a = 1..(n + 1) /\ a = [k \in 1..(n + 1) |-> a[k]]
    BY <2>3, <2>4 DEF Blocks
  <2>7. b = [k \in 1..(n + 1) |-> b[k]]
    BY <2>5 DEF IsSequence
  <2>8. \A k \in 1..(n + 1) : a[k] = Carried(gs[k])
    BY <2>3, <2>4 DEF Blocks
  <2>9. \A k \in 1..n : b[k] = Carried(fs[k])
    BY <2>1, <2>5 DEF Blocks
  <2>10. \A k \in 1..(n + 1) : k \in 1..n \/ k = n + 1
    OBVIOUS
  <2>11. \A k \in 1..(n + 1) : a[k] = b[k]
    BY <2>3, <2>5, <2>8, <2>9, <2>10, Zenon
  <2> QED
    BY <2>2, <2>4, <2>6, <2>7, <2>11
<1> QED
  BY <1>1, <1>2, <1>3

LEMMA ConcatAppend ==
  ASSUME NEW s, NEW t, NEW e, IsSequence(s), IsSequence(t)
  PROVE  /\ Append(s \o t, e) = s \o Append(t, e)
         /\ s \o << >> = s
<1>1. PICK S : s \in Seq(S) /\ t \in Seq(S) /\ e \in S
  <2> DEFINE S == {s[k] : k \in DOMAIN s} \cup {t[k] : k \in DOMAIN t} \cup {e}
  <2>1. s \in Seq({s[k] : k \in DOMAIN s}) /\ t \in Seq({t[k] : k \in DOMAIN t})
    BY DEF IsSequence
  <2>2. (\A k \in 1..Len(s) : s[k] \in S) /\ (\A k \in 1..Len(t) : t[k] \in S) /\ e \in S
    BY <2>1
  <2> HIDE DEF S
  <2>3. s \in Seq(S) /\ t \in Seq(S)
    BY <2>1, <2>2
  <2> QED
    BY <2>2, <2>3
<1>2. \A x, y \in Seq(S) : \A z \in S : Append(x \o y, z) = x \o Append(y, z)
  OBVIOUS
<1>3. \A x \in Seq(S) : x \o << >> = x
  OBVIOUS
<1> QED
  BY <1>1, <1>2, <1>3

LEMMA SequenceEmpty ==
  ASSUME NEW s, IsSequence(s)
  PROVE  s = << >> <=> Len(s) = 0
BY DEF IsSequence

\* A header frame is added.
LEMMA HoldsHeader ==
  ASSUME NEW s, NEW t, NEW f, NEW fs, NEW hs, NEW ds, IsSequence(hs), IsSequence(ds),
         Holds(s, fs, hs, ds), ~s.headers_finished, hs = << >> => f.type = "HEADERS",
         t.header_blocks = Append(s.header_blocks, Carried(f)),
         t.data_blocks = s.data_blocks,
         t.headers_finished <=> EndsHeaders(f),
         t.end_stream <=> s.end_stream \/ Ends(f)
  PROVE  Holds(t, Append(fs, f), Append(hs, f), ds) /\ ds = << >>
<1>1. ds = << >> /\ fs = hs
  BY ConcatAppend DEF Holds
<1>2. PICK gs : gs = Append(hs, f)
  OBVIOUS
<1>3. PICK n \in Nat : n = Len(hs) /\ DOMAIN hs = 1..n
  BY SequenceFacts
<1>4. /\ IsSequence(gs) /\ Len(gs) = n + 1 /\ DOMAIN gs = 1..(n + 1)
      /\ \A k \in 1..n : gs[k] = hs[k]
      /\ gs[n + 1] = f
  BY <1>2, <1>3, AppendFacts
<1>5. Append(fs, f) = gs \o ds
  BY <1>1, <1>2, <1>4, ConcatAppend
<1>6. t.header_blocks = Blocks(gs) /\ t.data_blocks = Blocks(ds)
  BY <1>2, BlocksFacts DEF Holds
<1>7. gs # << >> /\ gs[1].type = "HEADERS"
  <2>1. gs # << >>
    BY <1>4
  <2>2. CASE n = 0
    BY <1>3, <1>4, <2>2, SequenceEmpty
  <2>3. CASE n # 0
    <3>1. hs # << >> /\ 1 \in 1..n
      BY <1>3, <2>3, SequenceEmpty
    <3> QED
      BY <1>4, <3>1 DEF Holds
  <2> QED
    BY <2>1, <2>2, <2>3
<1>8. \A k \in 1..(n + 1) : k \in 1..n \/ k = n + 1
  OBVIOUS
<1>9. \A k \in DOMAIN gs : EndsHeaders(gs[k]) <=> k = Len(gs) /\ t.headers_finished
  <2>1. \A k \in 1..n : ~EndsHeaders(gs[k]) /\ k # n + 1
    BY <1>3, <1>4 DEF Holds
  <2> QED
    BY <1>4, <1>8, <2>1
<1>10. t.end_stream <=> \E k \in DOMAIN gs : Ends(gs[k])
  <2>1. s.end_stream <=> \E k \in 1..n : Ends(hs[k])
    BY <1>3 DEF Holds
  <2>2. (\A k \in 1..n : k \in 1..(n + 1)) /\ n + 1 \in 1..(n + 1)
    OBVIOUS
  <2> QED
    BY <1>4, <1>8, <2>1, <2>2, Zenon
<1>11. (ds # << >> => t.headers_finished /\ ~t.end_stream) /\ \A k \in DOMAIN ds : ~Ends(ds[k])
  BY <1>1
<1>12. gs = << >> => ~t.headers_finished
  BY <1>7
<1> QED
  BY <1>1, <1>2, <1>5, <1>6, <1>7, <1>9, <1>10, <1>11, <1>12, Zenon DEF Holds

\* A data frame is added; the last one completes the request.
Exchange(fs, hs, ds) ==
    /\ hs # << >> /\ hs[1].type = "HEADERS"
    /\ fs = hs \o ds
    /\ \A k \in DOMAIN hs : EndsHeaders(hs[k]) <=> k = Len(hs)
    /\ (ds = << >>) <=> (\E k \in DOMAIN hs : Ends(hs[k]))
    /\ \A k \in DOMAIN ds : Ends(ds[k]) <=> k = Len(ds)

LEMMA ExchangeIs ==
  \A fs : IsExchange(fs) <=> Exchange(fs, Part(fs, HeaderTypes), Part(fs, {"DATA"}))
BY Zenon DEF IsExchange, Exchange, Ends, EndsHeaders

LEMMA HoldsData ==
  ASSUME NEW s, NEW t, NEW f, NEW fs, NEW hs, NEW ds, IsSequence(hs), IsSequence(ds),
         Holds(s, fs, hs, ds), s.headers_finished, ~s.end_stream,
         t.header_blocks = s.header_blocks,
         t.data_blocks = Append(s.data_blocks, Carried(f)),
         t.headers_finished <=> s.headers_finished,
         t.end_stream <=> Ends(f)
  PROVE  /\ hs # << >>
         /\ t.header_blocks = Blocks(hs) /\ t.data_blocks = Blocks(Append(ds, f))
         /\ ~Ends(f) => Holds(t, Append(fs, f), hs, Append(ds, f))
         /\ Ends(f) => Exchange(Append(fs, f), hs, Append(ds, f))
<1>1. PICK gs : gs = Append(ds, f)
  OBVIOUS
<1>2. PICK n \in Nat : n = Len(ds) /\ DOMAIN ds = 1..n
  BY SequenceFacts
<1>3. /\ IsSequence(gs) /\ Len(gs) = n + 1 /\ DOMAIN gs = 1..(n + 1)
      /\ \A k \in 1..n : gs[k] = ds[k]
      /\ gs[n + 1] = f
  BY <1>1, <1>2, AppendFacts
<1>4. Append(fs, f) = hs \o gs
  BY <1>1, ConcatAppend DEF Holds
<1>5. t.header_blocks = Blocks(hs) /\ t.data_blocks = Blocks(gs)
  BY <1>1, BlocksFacts DEF Holds
<1>6. hs # << >> /\ hs[1].type = "HEADERS" /\ gs # << >>
  BY <1>3 DEF Holds
<1>7. \A k \in DOMAIN hs : EndsHeaders(hs[k]) <=> k = Len(hs)
  BY DEF Holds
<1>8. ~\E k \in DOMAIN hs : Ends(hs[k])
  BY DEF Holds
<1>9. \A k \in 1..(n + 1) : (k \in 1..n /\ k # n + 1) \/ k = n + 1
  OBVIOUS
<1>10. \A k \in DOMAIN gs : Ends(gs[k]) <=> k = Len(gs) /\ Ends(f)
  <2>1. \A k \in 1..n : ~Ends(gs[k])
    BY <1>2, <1>3 DEF Holds
  <2> QED
    BY <1>3, <1>9, <2>1
<1>11. ~Ends(f) => Holds(t, hs \o gs, hs, gs)
  BY <1>5, <1>6, <1>7, <1>8, <1>10, Zenon DEF Holds
<1>12. Ends(f) => Exchange(hs \o gs, hs, gs)
  BY <1>6, <1>7, <1>8, <1>10, Zenon DEF Exchange
<1> QED
  BY <1>1, <1>4, <1>5, <1>6, <1>11, <1>12, Zenon

\* Header frames that hold both ends are a request without a body.
LEMMA HoldsWhole ==
  ASSUME NEW s, NEW fs, NEW hs, NEW ds, IsSequence(hs), Holds(s, fs, hs, ds),
         s.headers_finished, s.end_stream
  PROVE  Exchange(fs, hs, ds) /\ s.header_blocks = Blocks(hs) /\ s.data_blocks = Blocks(ds)
<1>1. hs # << >> /\ ds = << >> /\ DOMAIN << >> = {}
  BY DEF Holds
<1> QED
  BY <1>1 DEF Holds, Exchange

\* What the parsers take of a frame is what it carries.
LEMMA ContentIsCarried ==
  ASSUME NEW f, f.payload \in Seq(Nat), ParseError(f) = "NO_ERROR", f.type \in MessageTypes
  PROVE  /\ Content(f) = Carried(f)
         /\ f.type = "CONTINUATION" => ~Ends(f)
<1>1. f.flags \subseteq Allowed(f.type)
  <2>1. f.type = "DATA" => ~BadFlags(f)
    BY DEF ParseError, DataError, Verdict
  <2>2. f.type = "HEADERS" => ~BadFlags(f)
    BY DEF ParseError, HeadersError, Verdict
  <2>3. f.type = "CONTINUATION" => ~BadFlags(f)
    BY DEF ParseError, ContinuationError, Verdict
  <2> QED
    BY <2>1, <2>2, <2>3 DEF BadFlags, MessageTypes, HeaderTypes
<1>2. f.type = "CONTINUATION" => ~Ends(f) /\ "PADDED" \notin f.flags /\ "PRIORITY" \notin f.flags
  BY <1>1, FlagsAllowed DEF Ends
<1>3. f.type = "DATA" => "PRIORITY" \notin f.flags
  BY <1>1, FlagsAllowed
<1>4. PICK p \in Seq(Nat) : p = f.payload
  OBVIOUS
<1>5. "PADDED" \in f.flags => PaddingFits(p)
  <2>1. f.type = "DATA" => ~BadPadding(f)
    BY DEF ParseError, DataError, Verdict
  <2>2. f.type = "HEADERS" => ~BadPadding(f)
    BY DEF ParseError, HeadersError, Verdict
  <2>3. "PADDED" \in f.flags => ~BadPadding(f)
    BY <1>2, <2>1, <2>2 DEF MessageTypes, HeaderTypes
  <2> QED
    BY <1>4, <2>3 DEF BadPadding
<1>6. "PRIORITY" \in f.flags => Len(Unpadded(f)) >= 5
  <2>1. "PRIORITY" \in f.flags => f.type = "HEADERS"
    BY <1>2, <1>3 DEF MessageTypes, HeaderTypes
  <2>2. f.type = "HEADERS" /\ "PRIORITY" \in f.flags => ~(Len(Unpadded(f)) < 5)
    BY DEF ParseError, HeadersError, Verdict, HTTP2_PRIORITY_INFO_SIZE
  <2>3. Len(Unpadded(f)) \in Nat
    BY <1>4, <1>5, SMTT(60) DEF Unpadded, PaddingFits
  <2> QED
    BY <2>1, <2>2, <2>3
<1>7. CASE "PADDED" \notin f.flags /\ "PRIORITY" \notin f.flags
  <2>1. Content(f) = p
    BY <1>4, <1>7 DEF Content, Unpadded
  <2>2. Carried(f) = SubSeq(p, 1, Len(p))
    BY <1>4, <1>7 DEF Carried
  <2> QED
    BY <1>2, <2>1, <2>2
<1>8. CASE "PADDED" \in f.flags /\ "PRIORITY" \notin f.flags
  <2>1. Content(f) = SubSeq(p, 2, Len(p) - p[1])
    BY <1>4, <1>8 DEF Content, Unpadded
  <2>2. Carried(f) = SubSeq(p, 2, Len(p) - p[1])
    <3>1. Carried(f) = SubSeq(p, (1 + 0) + 1, Len(p) - p[1])
      BY <1>4, <1>8, Zenon DEF Carried
    <3>2. (1 + 0) + 1 = 2
      OBVIOUS
    <3> QED
      BY <3>1, <3>2, Zenon
  <2> QED
    BY <1>2, <2>1, <2>2
<1>9. CASE "PADDED" \notin f.flags /\ "PRIORITY" \in f.flags
  <2>1. Content(f) = SubSeq(p, 6, Len(p))
    BY <1>4, <1>9 DEF Content, Unpadded, HTTP2_PRIORITY_INFO_SIZE
  <2>2. Carried(f) = SubSeq(p, 6, Len(p))
    BY <1>4, <1>9 DEF Carried
  <2> QED
    BY <1>2, <2>1, <2>2
<1>10. CASE "PADDED" \in f.flags /\ "PRIORITY" \in f.flags
  <2>1. PICK m : m = Len(p) - p[1]
    OBVIOUS
  <2>2. PICK u : u = SubSeq(p, 2, m)
    OBVIOUS
  <2>3. Unpadded(f) = u
    BY <1>4, <1>10, <2>1, <2>2 DEF Unpadded
  <2>4. p[1] \in Nat /\ Len(p) \in Nat /\ m \in 2..Len(p)
    BY <1>5, <1>10, <2>1 DEF PaddingFits
  <2>5. u \in Seq(Nat) /\ Len(u) = m - 1 /\ \A i \in 1..(m - 1) : u[i] = p[i + 1]
    BY <2>2, <2>4
  <2>6. m >= 6
    BY <1>6, <1>10, <2>3, <2>4, <2>5
  <2>7. Content(f) = SubSeq(u, 6, m - 1)
    BY <1>10, <2>3, <2>5 DEF Content, HTTP2_PRIORITY_INFO_SIZE
  <2>8. Carried(f) = SubSeq(p, 7, m)
    <3>1. Carried(f) = SubSeq(p, (1 + 5) + 1, Len(p) - p[1])
      BY <1>4, <1>10, Zenon DEF Carried
    <3>2. (1 + 5) + 1 = 7
      OBVIOUS
    <3> QED
      BY <2>1, <3>1, <3>2, Zenon
  <2>9. PICK a, b : a = SubSeq(u, 6, m - 1) /\ b = SubSeq(p, 7, m)
    OBVIOUS
  <2>10. a \in Seq(Nat) /\ Len(a) = m - 6 /\ \A i \in 1..(m - 6) : a[i] = u[i + 5]
    <3>1. PICK l \in Nat : l = m - 1
      BY <2>4
    <3>2. u \in Seq(Nat) /\ Len(u) = l /\ l >= 5 /\ a = SubSeq(u, 6, l)
      <4>1. a = SubSeq(u, 6, l) /\ Len(u) = l /\ u \in Seq(Nat)
        BY <2>5, <2>9, <3>1, Zenon
      <4>2. l >= 5
        BY <2>4, <2>6, <3>1
      <4> QED
        BY <4>1, <4>2
    <3>3. a \in Seq(Nat) /\ Len(a) = l - 5 /\ \A i \in 1..(l - 5) : a[i] = u[i + 5]
      BY <3>2, SMTT(30)
    <3> QED
      BY <2>4, <3>1, <3>3
  <2>11. b \in Seq(Nat) /\ Len(b) = m - 6 /\ \A i \in 1..(m - 6) : b[i] = p[i + 6]
    BY <2>4, <2>6, <2>9
  <2>12. \A i \in 1..(m - 6) : a[i] = b[i]
    BY <2>4, <2>5, <2>6, <2>10, <2>11
  <2>13. a = b
    BY <2>10, <2>11, <2>12, SeqEqual
  <2> QED
    BY <1>2, <2>7, <2>8, <2>9, <2>13
<1> QED
  BY <1>7, <1>8, <1>9, <1>10

-----------------------------------------------------------------------------
(* Requests are whole: the invariant and its steps.                        *)

WholeRequest(up, r, h, k) ==
    LET fs == Message(r, h.id, h.at)
    IN  \/ up /\ h.id = 1 /\ k = 1
        \/ /\ ~(up /\ h.id = 1)
           /\ IsExchange(fs)
           /\ h.headers = AllCarried(Part(fs, HeaderTypes))
           /\ h.body = AllCarried(Part(fs, {"DATA"}))

\* Every stream is sound until the handler is done, every request handed over
\* is what its stream carried, and after an upgrade the first is that of
\* stream 1.
HandedInv ==
    \A k \in DOMAIN handed :
        handed[k].at \in 0..Len(received) /\ WholeRequest(upgrade, received, handed[k], k)
ReqInv ==
    /\ phase # "done" => \A id : StreamSound(streams, received, id)
    /\ HandedInv
    /\ phase \in {"frames", "respond"} /\ upgrade => handed # << >> /\ handed[1].id = 1

LEMMA WholeIs == HandedInv => RequestsAreWhole
BY MessageIs, Zenon DEF HandedInv, WholeRequest, RequestsAreWhole

\* The message of a stream is not touched by frames of other streams or types.
LEMMA OtherSound ==
  ASSUME NEW r, IsSequence(r), NEW f, NEW st, NEW ts, NEW i,
         i # f.id \/ f.type \notin MessageTypes,
         StreamSound(st, r, i), i \in DOMAIN ts <=> i \in DOMAIN st,
         i \in DOMAIN st => ts[i] = st[i]
  PROVE  StreamSound(ts, Append(r, f), i)
<1>1. PICK n \in Nat : n = Len(r)
  BY SequenceFacts
<1>2. Len(Append(r, f)) = n + 1
  BY <1>1, AppendFacts
<1>3. Message(Append(r, f), i, n + 1) = Message(r, i, n)
  BY <1>1, MessageNext
<1>4. "HEADERS" \in MessageTypes
  BY DEF MessageTypes, HeaderTypes
<1>5. HasHeaders(Append(r, f), i, n + 1) <=> HasHeaders(r, i, n)
  BY <1>1, <1>4, HeadersNext
<1> QED
  BY <1>1, <1>2, <1>3, <1>5, Zenon DEF StreamSound

\* What was handed over stays whole.
LEMMA HandedKept ==
  ASSUME IsSequence(received), HandedInv, NEW f, received' = Append(received, f),
         NEW k \in DOMAIN handed
  PROVE  /\ handed[k].at \in 0..Len(received')
         /\ WholeRequest(upgrade, received', handed[k], k)
<1>1. PICK h : h = handed[k]
  OBVIOUS
<1>2. h.at \in 0..Len(received) /\ WholeRequest(upgrade, received, h, k)
  BY <1>1 DEF HandedInv
<1>3. Len(received') = Len(received) + 1 /\ Len(received) \in Nat
  BY AppendFacts, SequenceFacts
<1>4. h.at \in 0..Len(received')
  BY <1>2, <1>3
<1>5. Message(received', h.id, h.at) = Message(received, h.id, h.at)
  BY <1>2, MessageKept
<1>6. WholeRequest(upgrade, received', h, k)
  BY <1>2, <1>5, Zenon DEF WholeRequest
<1> QED
  BY <1>1, <1>4, <1>6

LEMMA ReqUnchanged ==
  ASSUME ReqInv, UNCHANGED <<received, streams, handed, upgrade>>,
         phase' # "done" => phase # "done",
         phase' \in {"frames", "respond"} => phase \in {"frames", "respond"}
  PROVE  ReqInv'
<1>1. HandedInv'
  BY DEF ReqInv, HandedInv
<1>2. phase' # "done" => \A id : StreamSound(streams', received', id)
  BY DEF ReqInv
<1> QED
  BY <1>1, <1>2 DEF ReqInv

\* A frame arrives and no request is handed over.
LEMMA ReqQuiet ==
  ASSUME IsSequence(received), ReqInv, NEW f, received' = Append(received, f),
         UNCHANGED <<handed, upgrade>>,
         phase' # "done" => \A id : StreamSound(streams', received', id),
         phase' \in {"frames", "respond"} /\ upgrade => phase = "frames"
  PROVE  ReqInv'
<1>1. HandedInv'
  <2>1. \A k \in DOMAIN handed : /\ handed[k].at \in 0..Len(received')
                                 /\ WholeRequest(upgrade, received', handed[k], k)
    BY HandedKept DEF ReqInv
  <2> QED
    BY <2>1 DEF HandedInv
<1> QED
  BY <1>1 DEF ReqInv

\* A frame arrives and completes a request.
LEMMA ReqHands ==
  ASSUME IsSequence(received), IsSequence(handed), ReqInv, NEW f,
         received' = Append(received, f), UNCHANGED upgrade,
         NEW id, NEW headers, NEW body, Hand(id, headers, body),
         \A i : StreamSound(streams', received', i),
         \/ upgrade /\ id = 1 /\ handed = << >>
         \/ /\ ~(upgrade /\ id = 1) /\ (upgrade => handed # << >> /\ handed[1].id = 1)
            /\ IsExchange(Message(received', id, Len(received')))
            /\ headers = AllCarried(Part(Message(received', id, Len(received')), HeaderTypes))
            /\ body = AllCarried(Part(Message(received', id, Len(received')), {"DATA"}))
  PROVE  ReqInv'
<1>1. PICK h : h = [id |-> id, headers |-> headers, body |-> body, at |-> Len(received')]
  OBVIOUS
<1>2. h.id = id /\ h.headers = headers /\ h.body = body /\ h.at = Len(received')
  BY <1>1
<1>3. handed' = Append(handed, h)
  BY <1>1 DEF Hand
<1>4. PICK n \in Nat : n = Len(handed) /\ DOMAIN handed = 1..n
  BY SequenceFacts
<1>5. /\ DOMAIN handed' = 1..(n + 1) /\ handed'[n + 1] = h /\ handed' # << >>
      /\ \A k \in 1..n : handed'[k] = handed[k]
  <2>1. /\ Len(handed') = n + 1 /\ DOMAIN handed' = 1..(n + 1) /\ handed'[n + 1] = h
        /\ \A k \in 1..n : handed'[k] = handed[k]
    BY <1>3, <1>4, AppendFacts
  <2> QED
    BY <2>1
<1>6. handed = << >> <=> n = 0
  BY <1>4, SequenceEmpty
<1>7. Len(received') \in Nat
  BY AppendFacts, SequenceFacts
<1>8. h.at \in 0..Len(received')
  BY <1>2, <1>7
<1>9. WholeRequest(upgrade, received', h, n + 1)
  <2>1. CASE upgrade /\ id = 1 /\ handed = << >>
    <3>1. n + 1 = 1
      BY <1>6, <2>1
    <3> QED
      BY <1>2, <2>1, <3>1 DEF WholeRequest
  <2>2. CASE ~(upgrade /\ id = 1 /\ handed = << >>)
    BY <1>2, <2>2, Zenon DEF WholeRequest
  <2> QED
    BY <2>1, <2>2
<1>10. \A k \in 1..(n + 1) : k \in 1..n \/ k = n + 1
  OBVIOUS
<1>11. \A k \in 1..n : /\ handed[k].at \in 0..Len(received')
                       /\ WholeRequest(upgrade, received', handed[k], k)
  BY <1>4, HandedKept DEF ReqInv
<1>12. HandedInv'
  BY <1>5, <1>8, <1>9, <1>10, <1>11 DEF HandedInv
<1>13. upgrade => handed'[1].id = 1
  <2>1. CASE n = 0
    BY <1>2, <1>5, <1>6, <2>1
  <2>2. CASE n # 0
    <3>1. 1 \in 1..n
      BY <2>2
    <3> QED
      BY <1>5, <1>6, <2>2, <3>1
  <2> QED
    BY <2>1, <2>2
<1> QED
  BY <1>5, <1>12, <1>13 DEF ReqInv

-----------------------------------------------------------------------------
(* Streams stay sound.                                                     *)

StreamsSound == \A id : StreamSound(streams, received, id)
SoundStream(s, r, id) ==
    HasEnded(s) \/ Dead(s) \/ Live(s, Message(r, id, Len(r)))

LEMMA SetSound ==
  ASSUME IsSequence(received), StreamsSound, NEW f, received' = Append(received, f),
         NEW id, NEW s, SetStream(id, s), id = f.id \/ f.type \notin MessageTypes,
         SoundStream(s, received', id)
  PROVE  \A i : StreamSound(streams', received', i)
<1>1. /\ DOMAIN streams' = DOMAIN streams \cup {id}
      /\ \A i \in DOMAIN streams : i # id => streams'[i] = streams[i]
      /\ streams'[id] = s
  BY DEF SetStream
<1>2. ASSUME NEW i PROVE StreamSound(streams', received', i)
  <2>1. CASE i = id
    BY <1>1, <2>1 DEF StreamSound, SoundStream
  <2>2. CASE i # id
    <3>1. StreamSound(streams, received, i)
      BY DEF StreamsSound
    <3>2. (i \in DOMAIN streams' <=> i \in DOMAIN streams)
      BY <1>1, <2>2
    <3>3. i \in DOMAIN streams => streams'[i] = streams[i]
      BY <1>1, <2>2
    <3>4. PICK st, ts, r : st = streams /\ ts = streams' /\ r = received
      OBVIOUS
    <3>5. StreamSound(ts, Append(r, f), i)
      BY <2>2, <3>1, <3>2, <3>3, <3>4, OtherSound
    <3> QED
      BY <3>4, <3>5
  <2> QED
    BY <2>1, <2>2
<1> QED
  BY <1>2

LEMMA ClosedIsDead ==
  ASSUME NEW s, IsStream(s)
  PROVE  Dead(Closed(s))
BY DEF IsStream, Closed, Dead

LEMMA ErrorSound ==
  ASSUME IsSequence(received), StreamsOK, StreamsSound, NEW f,
         received' = Append(received, f), NEW id, id = f.id \/ f.type \notin MessageTypes,
         f.type = "HEADERS" => id \in DOMAIN streams,
         streams' = [i \in DOMAIN streams |->
                       IF i = id THEN Closed(streams[i]) ELSE streams[i]]
  PROVE  \A i : StreamSound(streams', received', i)
<1>1. /\ DOMAIN streams' = DOMAIN streams
      /\ \A i \in DOMAIN streams : i # id => streams'[i] = streams[i]
      /\ id \in DOMAIN streams => streams'[id] = Closed(streams[id])
  OBVIOUS
<1>2. ASSUME NEW i PROVE StreamSound(streams', received', i)
  <2>1. PICK st, ts, r : st = streams /\ ts = streams' /\ r = received
    OBVIOUS
  <2>2. StreamSound(st, r, i) /\ IsSequence(r) /\ received' = Append(r, f)
    BY <2>1 DEF StreamsSound
  <2>3. CASE i = id /\ id \in DOMAIN streams
    <3>1. Dead(streams'[id])
      BY <1>1, <2>3, ClosedIsDead DEF StreamsOK
    <3> QED
      BY <1>1, <2>3, <3>1 DEF StreamSound
  <2>4. CASE i = id /\ id \notin DOMAIN streams
    <3>1. PICK n \in Nat : n = Len(r)
      BY <2>2, SequenceFacts
    <3>2. Len(Append(r, f)) = n + 1
      BY <2>2, <3>1, AppendFacts
    <3>3. ~HasHeaders(r, i, n)
      BY <2>1, <2>2, <2>4, <3>1 DEF StreamSound
    <3>4. ~HasHeaders(Append(r, f), i, n + 1)
      BY <2>2, <2>4, <3>1, <3>3, HeadersNext
    <3>5. StreamSound(ts, Append(r, f), i)
      BY <1>1, <2>1, <2>4, <3>2, <3>4, Zenon DEF StreamSound
    <3> QED
      BY <2>1, <2>2, <3>5
  <2>5. CASE i # id
    <3>1. (i \in DOMAIN ts <=> i \in DOMAIN st) /\ (i \in DOMAIN st => ts[i] = st[i])
      BY <1>1, <2>1, <2>5
    <3>2. StreamSound(ts, Append(r, f), i)
      BY <2>2, <2>5, <3>1, OtherSound
    <3> QED
      BY <2>1, <2>2, <3>2
  <2> QED
    BY <2>3, <2>4, <2>5
<1> QED
  BY <1>2

\* Frames that touch no stream.
LEMMA SameSound ==
  ASSUME IsSequence(received), StreamsSound, NEW f, received' = Append(received, f),
         f.type \notin MessageTypes, UNCHANGED streams
  PROVE  \A i : StreamSound(streams', received', i)
<1>1. ASSUME NEW i PROVE StreamSound(streams', received', i)
  <2>1. PICK st, r : st = streams /\ r = received
    OBVIOUS
  <2>2. StreamSound(st, r, i) /\ IsSequence(r)
    BY <2>1 DEF StreamsSound
  <2>3. StreamSound(st, Append(r, f), i)
    BY <2>2, OtherSound
  <2> QED
    BY <2>1, <2>3
<1> QED
  BY <1>1

\* What is held of a message depends on neither the state nor the record.
LEMMA HoldsSame ==
  ASSUME NEW s, NEW t, NEW fs, NEW hs, NEW ds, Holds(s, fs, hs, ds),
         t.header_blocks = s.header_blocks, t.data_blocks = s.data_blocks,
         t.headers_finished = s.headers_finished, t.end_stream = s.end_stream
  PROVE  Holds(t, fs, hs, ds)
BY Zenon DEF Holds

LEMMA NewHolds ==
  ASSUME NEW state
  PROVE  Holds(Stream(state, FALSE), << >>, << >>, << >>)
<1>1. PICK s : s = Stream(state, FALSE)
  OBVIOUS
<1>2. /\ s.header_blocks = << >> /\ s.data_blocks = << >>
      /\ s.headers_finished = FALSE /\ s.end_stream = FALSE
  BY <1>1 DEF Stream
<1>3. << >> \o << >> = << >> /\ DOMAIN << >> = {} /\ Blocks(<< >>) = << >>
  BY BlocksFacts
<1>4. Holds(s, << >>, << >>, << >>)
  BY <1>2, <1>3 DEF Holds
<1> QED
  BY <1>1, <1>4

LEMMA NewIsLive ==
  Live(Stream("Idle", FALSE), << >>)
<1>1. Part(<< >>, HeaderTypes) = << >> /\ Part(<< >>, {"DATA"}) = << >>
  BY PartNone
<1>2. Stream("Idle", FALSE).state = "Idle"
  BY DEF Stream
<1>3. Holds(Stream("Idle", FALSE), << >>, << >>, << >>)
  BY NewHolds
<1> QED
  BY <1>1, <1>2, <1>3, Zenon DEF Live

LEMMA ReqFacts ==
  ASSUME IInv, ReqInv, phase # "done"
  PROVE  /\ IsSequence(received) /\ IsSequence(handed) /\ StreamsOK /\ StreamsSound
         /\ Len(received) \in Nat
BY InvFacts, SequenceFacts DEF ReceivedOK, ReqInv, StreamsSound

\* A stream ended: with a whole message, or without headers.
LEMMA FinishReq ==
  ASSUME IInv, ReqInv, phase = "frames", NEW f, received' = Append(received, f),
         NEW id, id = f.id, NEW t, IsStream(t), t.end_stream,
         ~(id \in DOMAIN streams /\ HasEnded(streams[id])), Finish(id, t),
         NEW fs, fs = Message(received', id, Len(received')),
         NEW hs, hs = Part(fs, HeaderTypes), NEW ds, ds = Part(fs, {"DATA"}),
         \/ t.header_blocks = << >>
         \/ /\ Exchange(fs, hs, ds)
            /\ t.header_blocks = Blocks(hs) /\ t.data_blocks = Blocks(ds)
  PROVE  ReqInv'
<1>1. PICK u : u = [t EXCEPT !.state = "HalfClosed"]
  OBVIOUS
<1>2. HasEnded(u) /\ SetStream(id, u)
  BY <1>1, HalfClosedStream DEF HasEnded, Finish
<1>3. \A i : StreamSound(streams', received', i)
  BY <1>2, ReqFacts, SetSound DEF SoundStream
<1>4. UNCHANGED upgrade
  BY DEF Finish
<1>5. CASE HeadersOk(FlattenSeq(t.header_blocks))
  <2>1. PICK a, b : a = FlattenSeq(t.header_blocks) /\ b = FlattenSeq(t.data_blocks)
    OBVIOUS
  <2>2. Hand(id, a, b)
    BY <1>5, <2>1 DEF Finish
  <2>3. t.header_blocks # << >>
    <3>1. FlattenSeq(<< >>) = << >>
      BY DEF FlattenSeq
    <3>2. ~HeadersOk(<< >>)
      BY DEF HeadersOk
    <3> QED
      BY <1>5, <3>1, <3>2
  <2>4. a = AllCarried(hs) /\ b = AllCarried(ds)
    BY <2>1, <2>3, Zenon DEF AllCarried, Blocks
  <2>5. IsExchange(fs)
    BY <2>3, ExchangeIs
  <2>6. upgrade => handed # << >> /\ handed[1].id = 1
    BY DEF ReqInv
  <2>7. ~(upgrade /\ id = 1)
    <3> SUFFICES ASSUME upgrade, id = 1 PROVE FALSE
      OBVIOUS
    <3>1. 1 \in DOMAIN handed /\ handed[1].id = 1
      BY <2>6, InvFacts, SequenceEmpty
    <3>2. 1 \in DOMAIN streams /\ HasEnded(streams[1])
      BY <3>1 DEF IInv, StreamsInv
    <3> QED
      BY <3>2
  <2> QED
    BY <1>3, <1>4, <2>2, <2>4, <2>5, <2>6, <2>7, ReqFacts, ReqHands
<1>6. CASE ~HeadersOk(FlattenSeq(t.header_blocks))
  <2>1. phase' = "done" /\ UNCHANGED handed
    BY <1>6 DEF Finish
  <2> QED
    BY <1>4, <2>1, ReqFacts, ReqQuiet
<1> QED
  BY <1>5, <1>6

\* A frame of the loop that leaves the handler where it is.
LEMMA StaysReq ==
  ASSUME IInv, ReqInv, phase = "frames", NEW f, received' = Append(received, f), Stays,
         \A i : StreamSound(streams', received', i)
  PROVE  ReqInv'
<1>1. phase' = "frames" /\ UNCHANGED <<handed, upgrade>>
  BY DEF Stays
<1> QED
  BY <1>1, ReqFacts, ReqQuiet

LEMMA SetReq ==
  ASSUME IInv, ReqInv, phase = "frames", NEW f, received' = Append(received, f), Stays,
         NEW id, NEW s, SetStream(id, s), id = f.id, SoundStream(s, received', id)
  PROVE  ReqInv'
<1>1. \A i : StreamSound(streams', received', i)
  BY ReqFacts, SetSound
<1> QED
  BY <1>1, StaysReq

LEMMA ErrorReq ==
  ASSUME IInv, ReqInv, phase = "frames", NEW f, received' = Append(received, f),
         NEW id, NEW code, StreamError(id, code), id = f.id \/ f.type \notin MessageTypes,
         f.type = "HEADERS" => id \in DOMAIN streams
  PROVE  ReqInv'
<1>1. Stays /\ streams' = [i \in DOMAIN streams |->
                             IF i = id THEN Closed(streams[i]) ELSE streams[i]]
  BY DEF StreamError
<1>2. \A i : StreamSound(streams', received', i)
  BY <1>1, ReqFacts, ErrorSound
<1> QED
  BY <1>1, <1>2, StaysReq

\* A header frame f makes t of a stream b that held fs.
LEMMA ContinueReq ==
  ASSUME IInv, ReqInv, phase = "frames", NEW f, received' = Append(received, f),
         NEW id, id = f.id, f.type \in HeaderTypes,
         NEW fs, IsSequence(fs), Message(received', id, Len(received')) = Append(fs, f),
         NEW hs, hs = Part(fs, HeaderTypes), NEW ds, ds = Part(fs, {"DATA"}),
         NEW b, Holds(b, fs, hs, ds), ~b.headers_finished, hs = << >> => f.type = "HEADERS",
         NEW t, IsStream(t), t.header_blocks = Append(b.header_blocks, Carried(f)),
         t.data_blocks = b.data_blocks, t.headers_finished <=> EndsHeaders(f),
         t.end_stream <=> b.end_stream \/ Ends(f),
         ~(id \in DOMAIN streams /\ HasEnded(streams[id])), Continue(id, t)
  PROVE  ReqInv'
<1>1. PICK gs, ks : gs = Append(fs, f) /\ ks = Append(hs, f)
  OBVIOUS
<1>2. Part(gs, HeaderTypes) = ks
  BY <1>1, PartNext
<1>3. Part(gs, {"DATA"}) = ds
  BY <1>1, PartNext DEF HeaderTypes
<1>4. IsSequence(hs) /\ IsSequence(ds)
  BY PartIsSequence
<1>5. Holds(t, gs, ks, ds)
  BY <1>1, <1>4, HoldsHeader
<1>6. IsSequence(ks) /\ gs # << >>
  <2>1. IsSequence(ks) /\ Len(gs) = Len(fs) + 1 /\ Len(fs) \in Nat
    BY <1>1, <1>4, AppendFacts, SequenceFacts
  <2> QED
    BY <2>1
<1>7. CASE t.end_stream /\ t.headers_finished
  <2>1. Finish(id, t)
    BY <1>7 DEF Continue
  <2>2. Exchange(gs, ks, ds) /\ t.header_blocks = Blocks(ks) /\ t.data_blocks = Blocks(ds)
    BY <1>5, <1>6, <1>7, HoldsWhole
  <2>3. gs = Message(received', id, Len(received'))
    BY <1>1
  <2> QED
    BY <1>2, <1>3, <1>7, <2>1, <2>2, <2>3, FinishReq
<1>8. CASE ~(t.end_stream /\ t.headers_finished)
  <2>1. SetStream(id, t) /\ Stays
    BY <1>8 DEF Continue
  <2>2. Live(t, gs)
    BY <1>2, <1>3, <1>5, <1>6 DEF Live
  <2>3. SoundStream(t, received', id)
    BY <1>1, <2>2 DEF SoundStream
  <2> QED
    BY <2>1, <2>3, SetReq
<1> QED
  BY <1>7, <1>8

\* A frame of a stream whose headers have begun is added to its message.
LEMMA MessageGrows ==
  ASSUME IsSequence(received), NEW f, received' = Append(received, f), NEW id, id = f.id,
         f.type \in MessageTypes, NEW fs, fs = Message(received, id, Len(received)),
         f.type = "HEADERS" \/ fs # << >>
  PROVE  IsSequence(fs) /\ Message(received', id, Len(received')) = Append(fs, f)
<1>1. PICK n, r : n \in Nat /\ n = Len(received) /\ r = received
  BY SequenceFacts
<1>2. IsSequence(r) /\ Len(r) = n /\ received' = Append(r, f) /\ fs = Message(r, id, n)
  BY <1>1
<1>3. Len(Append(r, f)) = n + 1
  BY <1>1, <1>2, AppendFacts
<1>4. f.type = "HEADERS" \/ HasHeaders(r, id, n)
  BY <1>1, <1>2, MessageNone
<1>5. Message(Append(r, f), id, n + 1) = Append(Message(r, id, n), f)
  BY <1>1, <1>2, <1>4, MessageNext
<1>6. IsSequence(fs)
  BY <1>1, <1>2, MessageIsSequence
<1> QED
  BY <1>1, <1>2, <1>3, <1>5, <1>6

\* A frame of another type changes no message.
LEMMA MessageStays ==
  ASSUME IsSequence(received), NEW f, received' = Append(received, f), NEW id,
         f.type \notin MessageTypes
  PROVE  Message(received', id, Len(received')) = Message(received, id, Len(received))
<1>1. PICK n, r : n \in Nat /\ n = Len(received) /\ r = received
  BY SequenceFacts
<1>2. IsSequence(r) /\ Len(r) = n /\ received' = Append(r, f)
  BY <1>1
<1>3. Len(Append(r, f)) = n + 1
  BY <1>1, <1>2, AppendFacts
<1>5. Message(Append(r, f), id, n + 1) = Message(r, id, n)
  BY <1>1, <1>2, MessageNext
<1> QED
  BY <1>1, <1>2, <1>3, <1>5

\* A stream that is known and has not ended is live or dead.
LEMMA KnownStream ==
  ASSUME IInv, ReqInv, phase # "done", NEW id \in DOMAIN streams
  PROVE  /\ IsStream(streams[id]) /\ StateOf(id) = streams[id].state
         /\ \/ HasEnded(streams[id]) \/ Dead(streams[id])
            \/ Live(streams[id], Message(received, id, Len(received)))
BY StateOfStream DEF ReqInv, StreamSound

LEMMA HeadersReq ==
  ASSUME IInv, ReqInv, phase = "frames", NEW f, f.payload \in Seq(Nat),
         ParseError(f) = "NO_ERROR", received' = Append(received, f), HeadersFrame(f)
  PROVE  ReqInv'
<1>1. PICK id, fs : id = f.id /\ fs = Message(received, id, Len(received))
  OBVIOUS
<1>2. f.type = "HEADERS" /\ f.type \in MessageTypes /\ f.type \in HeaderTypes
  BY DEF HeadersFrame, MessageTypes, HeaderTypes
<1>3. IsSequence(received) /\ StreamsOK
  BY ReqFacts
<1>4. IsSequence(fs) /\ Message(received', id, Len(received')) = Append(fs, f)
  BY <1>1, <1>2, <1>3, MessageGrows
<1>5. Content(f) = Carried(f)
  BY <1>2, ContentIsCarried
<1> DEFINE last == "END_STREAM" \in f.flags
           s == IF id \in DOMAIN streams
                THEN [streams[id] EXCEPT !.end_stream = @ \/ last]
                ELSE Stream("Open", last)
           t == AddHeaderBlock(s, f)
<1>6. CASE StateOf(id) # "Idle"
  <2>1. StreamError(id, "PROTOCOL_ERROR")
    BY <1>1, <1>6 DEF HeadersFrame
  <2>2. id \in DOMAIN streams
    BY <1>6, StateOfStream
  <2> QED
    BY <1>1, <2>1, <2>2, ErrorReq
<1>7. CASE StateOf(id) = "Idle" /\ s.headers_finished
  <2>1. SetStream(id, Closed(s)) /\ Stays
    BY <1>1, <1>7 DEF HeadersFrame
  <2>2. IsStream(s)
    BY <1>3, EndingStream, OpenStream DEF StreamsOK
  <2>3. SoundStream(Closed(s), received', id)
    BY <2>2, ClosedIsDead DEF SoundStream
  <2> HIDE DEF s
  <2> QED
    BY <1>1, <2>1, <2>3, SetReq
<1>8. CASE StateOf(id) = "Idle" /\ ~s.headers_finished
  <2>1. Continue(id, t)
    BY <1>1, <1>8 DEF HeadersFrame
  <2>2. IsStream(s)
    BY <1>3, EndingStream, OpenStream DEF StreamsOK
  <2>3. IsStream(t)
    BY <2>2, GrownStream
  <2>4. /\ t.header_blocks = Append(s.header_blocks, Carried(f))
        /\ t.data_blocks = s.data_blocks /\ t.end_stream = s.end_stream
        /\ t.headers_finished <=> EndsHeaders(f)
    <3> HIDE DEF s
    <3> QED
      BY <1>5, <2>2 DEF AddHeaderBlock, IsStream, EndsHeaders
  <2>5. CASE id \in DOMAIN streams
    <3>1. PICK b : b = streams[id]
      OBVIOUS
    <3>2. IsStream(b) /\ b.state = "Idle" /\ Live(b, fs)
      BY <1>1, <1>8, <2>5, <3>1, KnownStream DEF HasEnded, Dead
    <3>3. ~HasEnded(streams[id])
      BY <3>1, <3>2 DEF HasEnded
    <3>4. s = [b EXCEPT !.end_stream = @ \/ last]
      BY <2>5, <3>1
    <3>5. /\ s.header_blocks = b.header_blocks /\ s.data_blocks = b.data_blocks
          /\ s.headers_finished = b.headers_finished
          /\ s.end_stream <=> b.end_stream \/ Ends(f)
      BY <3>2, <3>4 DEF IsStream, Ends
    <3>6. Holds(b, fs, Part(fs, HeaderTypes), Part(fs, {"DATA"}))
      BY <3>2 DEF Live
    <3> HIDE DEF s, t
    <3>7. /\ t.header_blocks = Append(b.header_blocks, Carried(f))
          /\ t.data_blocks = b.data_blocks /\ ~b.headers_finished
          /\ t.end_stream <=> b.end_stream \/ Ends(f)
      BY <1>8, <2>4, <3>5
    <3> QED
      BY <1>1, <1>2, <1>4, <2>1, <2>3, <2>4, <3>3, <3>6, <3>7, ContinueReq
  <2>6. CASE id \notin DOMAIN streams
    <3>1. PICK b : b = Stream("Open", FALSE)
      OBVIOUS
    <3>2. fs = << >>
      BY <1>1, <1>3, <2>6, MessageNone, SequenceFacts DEF ReqInv, StreamSound
    <3>3. Part(fs, HeaderTypes) = << >> /\ Part(fs, {"DATA"}) = << >>
      BY <3>2, PartNone
    <3>4. Holds(b, fs, Part(fs, HeaderTypes), Part(fs, {"DATA"}))
      BY <3>1, <3>2, <3>3, NewHolds
    <3>5. s = Stream("Open", last)
      BY <2>6
    <3>6. /\ s.header_blocks = b.header_blocks /\ s.data_blocks = b.data_blocks
          /\ ~b.headers_finished
          /\ s.end_stream <=> b.end_stream \/ Ends(f)
      BY <3>1, <3>5 DEF Stream, Ends
    <3> HIDE DEF s, t
    <3>7. /\ t.header_blocks = Append(b.header_blocks, Carried(f))
          /\ t.data_blocks = b.data_blocks /\ ~b.headers_finished
          /\ t.end_stream <=> b.end_stream \/ Ends(f)
      BY <2>4, <3>6
    <3> QED
      BY <1>1, <1>2, <1>4, <2>1, <2>3, <2>4, <2>6, <3>4, <3>7, ContinueReq
  <2> QED
    BY <2>5, <2>6
<1> QED
  BY <1>6, <1>7, <1>8

LEMMA ContinuationReq ==
  ASSUME IInv, ReqInv, phase = "frames", NEW f, f.payload \in Seq(Nat),
         ParseError(f) = "NO_ERROR", received' = Append(received, f), ContinuationFrame(f)
  PROVE  ReqInv'
<1>1. PICK id, fs : id = f.id /\ fs = Message(received, id, Len(received))
  OBVIOUS
<1>2. f.type = "CONTINUATION" /\ f.type \in MessageTypes /\ f.type \in HeaderTypes
  BY DEF ContinuationFrame, MessageTypes, HeaderTypes
<1>3. Content(f) = Carried(f) /\ ~Ends(f)
  BY <1>2, ContentIsCarried
<1> DEFINE more == /\ StateOf(id) \in {"Open", "Reserved"}
                   /\ ~streams[id].headers_finished /\ Content(f) # << >>
<1>4. CASE more
  <2>1. PICK b, t : b = streams[id] /\ t = AddHeaderBlock(b, f)
    OBVIOUS
  <2>2. Continue(id, t)
    BY <1>1, <1>4, <2>1 DEF ContinuationFrame
  <2>3. id \in DOMAIN streams
    BY <1>4, StateOfStream
  <2>4. IsStream(b) /\ b.state = "Open"
    BY <1>4, <2>1, <2>3, KnownStream DEF IsStream
  <2>5. Live(b, fs) /\ ~HasEnded(b)
    BY <1>1, <2>1, <2>3, <2>4, KnownStream DEF HasEnded, Dead
  <2>6. fs # << >> /\ Holds(b, fs, Part(fs, HeaderTypes), Part(fs, {"DATA"}))
    BY <2>4, <2>5 DEF Live
  <2>7. IsSequence(fs) /\ Message(received', id, Len(received')) = Append(fs, f)
    BY <1>1, <1>2, <2>6, ReqFacts, MessageGrows
  <2>8. IsStream(t)
    BY <2>1, <2>4, GrownStream
  <2>9. /\ t.header_blocks = Append(b.header_blocks, Carried(f))
        /\ t.data_blocks = b.data_blocks /\ t.end_stream = b.end_stream
        /\ t.headers_finished <=> EndsHeaders(f)
    BY <1>3, <2>1, <2>4 DEF AddHeaderBlock, IsStream, EndsHeaders
  <2>10. ~b.headers_finished
    BY <1>4, <2>1
  <2>11. Part(fs, HeaderTypes) # << >>
    <3>1. << >> \o << >> = << >>
      OBVIOUS
    <3> QED
      BY <2>6, <2>10, <3>1, Zenon DEF Holds
  <2> QED
    BY <1>1, <1>2, <1>3, <2>1, <2>2, <2>5, <2>6, <2>7, <2>8, <2>9, <2>10, <2>11, ContinueReq, ZenonT(60)
<1>5. CASE ~more
  <2>1. StreamError(id, "PROTOCOL_ERROR")
    BY <1>1, <1>5 DEF ContinuationFrame
  <2> QED
    BY <1>1, <1>2, <2>1, ErrorReq
<1> QED
  BY <1>4, <1>5

LEMMA DataReq ==
  ASSUME IInv, ReqInv, phase = "frames", NEW f, f.payload \in Seq(Nat),
         ParseError(f) = "NO_ERROR", received' = Append(received, f), DataFrame(f)
  PROVE  ReqInv'
<1>1. PICK id, fs : id = f.id /\ fs = Message(received, id, Len(received))
  OBVIOUS
<1>2. f.type = "DATA" /\ f.type \in MessageTypes /\ f.type \notin HeaderTypes
  BY DEF DataFrame, MessageTypes, HeaderTypes
<1>3. Content(f) = Carried(f)
  BY <1>2, ContentIsCarried
<1>4. CASE \E code : StreamError(id, code)
  BY <1>1, <1>2, <1>4, ErrorReq
<1>5. CASE ~\E code : StreamError(id, code)
  <2>1. PICK b, t : b = streams[id] /\ t = AddContentBlock(b, f)
    OBVIOUS
  <2>2. /\ StateOf(id) \in {"Open", "HalfClosed"} /\ ~b.end_stream /\ b.headers_finished
        /\ IF t.end_stream THEN Finish(id, t) ELSE SetStream(id, t) /\ Stays
    BY <1>1, <1>5, <2>1 DEF DataFrame
  <2>3. id \in DOMAIN streams
    BY <2>2, StateOfStream
  <2>4. IsStream(b) /\ ~HasEnded(b) /\ (Dead(b) \/ Live(b, fs)) /\ b.state # "Idle"
    BY <1>1, <2>1, <2>2, <2>3, KnownStream DEF HasEnded
  <2>5. IsStream(t)
    BY <2>1, <2>4, GrownStream
  <2>6. /\ t.header_blocks = b.header_blocks /\ t.state = b.state
        /\ t.data_blocks = Append(b.data_blocks, Carried(f))
        /\ t.headers_finished = b.headers_finished
        /\ t.end_stream <=> Ends(f)
    BY <1>3, <2>1, <2>4 DEF AddContentBlock, IsStream, Ends
  <2>7. PICK gs, hs, ds : /\ gs = Message(received', id, Len(received'))
                          /\ hs = Part(gs, HeaderTypes) /\ ds = Part(gs, {"DATA"})
    OBVIOUS
  <2>8. CASE Dead(b)
    <3>1. t.header_blocks = << >> /\ Dead(t)
      BY <2>6, <2>8 DEF Dead
    <3>2. CASE t.end_stream
      BY <1>1, <2>1, <2>2, <2>4, <2>5, <2>7, <3>1, <3>2, FinishReq
    <3>3. CASE ~t.end_stream
      <4>1. SoundStream(t, received', id)
        BY <3>1 DEF SoundStream
      <4> QED
        BY <1>1, <2>2, <3>3, <4>1, SetReq
    <3> QED
      BY <3>2, <3>3
  <2>9. CASE Live(b, fs)
    <3>1. PICK ks, es : ks = Part(fs, HeaderTypes) /\ es = Part(fs, {"DATA"})
      OBVIOUS
    <3>2. fs # << >> /\ Holds(b, fs, ks, es)
      BY <2>4, <2>9, <3>1 DEF Live
    <3>3. IsSequence(fs) /\ gs = Append(fs, f)
      BY <1>1, <1>2, <2>7, <3>2, ReqFacts, MessageGrows
    <3>4. IsSequence(ks) /\ IsSequence(es)
      BY <3>1, <3>3, PartIsSequence
    <3>5. hs = ks
      BY <1>2, <2>7, <3>1, <3>3, PartNext
    <3>6. ds = Append(es, f)
      BY <1>2, <2>7, <3>1, <3>3, PartNext
    <3>7. /\ t.header_blocks = Blocks(hs) /\ t.data_blocks = Blocks(ds)
          /\ ~Ends(f) => Holds(t, gs, hs, ds)
          /\ Ends(f) => Exchange(gs, hs, ds)
      BY <2>2, <2>6, <3>2, <3>3, <3>4, <3>5, <3>6, HoldsData
    <3>8. CASE t.end_stream
      BY <1>1, <2>1, <2>2, <2>4, <2>5, <2>6, <2>7, <3>7, <3>8, FinishReq
    <3>9. CASE ~t.end_stream
      <4>1. Len(gs) = Len(fs) + 1 /\ Len(fs) \in Nat
        BY <3>3, AppendFacts, SequenceFacts
      <4>2. gs # << >>
        BY <4>1
      <4>3. Live(t, gs)
        BY <2>6, <2>7, <3>7, <3>9, <4>2 DEF Live
      <4>4. SoundStream(t, received', id)
        BY <2>7, <4>3 DEF SoundStream
      <4> QED
        BY <1>1, <2>2, <3>9, <4>4, SetReq
    <3> QED
      BY <3>8, <3>9
  <2> QED
    BY <2>4, <2>8, <2>9
<1> QED
  BY <1>4, <1>5

LEMMA RstReq ==
  ASSUME IInv, ReqInv, phase = "frames", NEW f, received' = Append(received, f),
         RstStreamFrame(f)
  PROVE  ReqInv'
<1>1. PICK id, fs : id = f.id /\ fs = Message(received, id, Len(received))
  OBVIOUS
<1>2. f.type = "RST_STREAM" /\ f.type \notin MessageTypes
  BY DEF RstStreamFrame, MessageTypes, HeaderTypes
<1>3. CASE StateOf(id) = "Idle"
  <2>1. StreamError(id, "PROTOCOL_ERROR")
    BY <1>1, <1>3 DEF RstStreamFrame
  <2> QED
    BY <1>1, <1>2, <2>1, ErrorReq
<1>4. CASE StateOf(id) # "Idle"
  <2>1. PICK b : b = streams[id]
    OBVIOUS
  <2>2. id \in DOMAIN streams
    BY <1>4, StateOfStream
  <2>3. IsStream(b) /\ b.state # "Idle" /\ (HasEnded(b) \/ Dead(b) \/ Live(b, fs))
    BY <1>1, <1>4, <2>1, <2>2, KnownStream
  <2>4. CASE StateOf(id) = "HalfClosed"
    <3>1. SetStream(id, Closed(b)) /\ Stays
      BY <1>1, <1>4, <2>1, <2>4 DEF RstStreamFrame
    <3>2. SoundStream(Closed(b), received', id)
      BY <2>3, ClosedIsDead DEF SoundStream
    <3> QED
      BY <1>1, <3>1, <3>2, SetReq
  <2>5. CASE StateOf(id) # "HalfClosed"
    <3>1. PICK t : t = [b EXCEPT !.state = "HalfClosed"]
      OBVIOUS
    <3>2. SetStream(id, t) /\ Stays
      BY <1>1, <1>4, <2>1, <2>5, <3>1 DEF RstStreamFrame
    <3>3. /\ t.header_blocks = b.header_blocks /\ t.data_blocks = b.data_blocks
          /\ t.headers_finished = b.headers_finished /\ t.end_stream = b.end_stream
          /\ t.state = "HalfClosed"
      BY <2>3, <3>1 DEF IsStream
    <3>4. HasEnded(b) => HasEnded(t)
      BY <3>3 DEF HasEnded
    <3>5. Dead(b) => Dead(t)
      BY <3>3 DEF Dead
    <3>6. Live(b, fs) => Live(t, fs)
      BY <2>3, <3>3, HoldsSame DEF Live
    <3>7. fs = Message(received', id, Len(received'))
      BY <1>1, <1>2, ReqFacts, MessageStays
    <3>8. SoundStream(t, received', id)
      BY <2>3, <3>4, <3>5, <3>6, <3>7 DEF SoundStream
    <3> QED
      BY <1>1, <3>2, <3>8, SetReq
  <2> QED
    BY <2>4, <2>5
<1> QED
  BY <1>3, <1>4

LEMMA PriorityReq ==
  ASSUME IInv, ReqInv, phase = "frames", NEW f, received' = Append(received, f),
         PriorityFrame(f)
  PROVE  ReqInv'
<1>1. PICK id : id = f.id
  OBVIOUS
<1>2. f.type = "PRIORITY" /\ f.type \notin MessageTypes /\ Stays
  BY DEF PriorityFrame, MessageTypes, HeaderTypes
<1>3. CASE id \in DOMAIN streams
  <2>1. UNCHANGED streams
    BY <1>1, <1>3 DEF PriorityFrame
  <2>2. \A i : StreamSound(streams', received', i)
    BY <1>2, <2>1, ReqFacts, SameSound
  <2> QED
    BY <1>2, <2>2, StaysReq
<1>4. CASE id \notin DOMAIN streams
  <2>1. SetStream(id, Stream("Idle", FALSE))
    BY <1>1, <1>4 DEF PriorityFrame
  <2>2. ~HasHeaders(received, id, Len(received))
    BY <1>4 DEF ReqInv, StreamSound
  <2>3. Message(received, id, Len(received)) = << >>
    BY <2>2, ReqFacts, MessageNone
  <2>4. Message(received', id, Len(received')) = << >>
    BY <1>2, <2>3, ReqFacts, MessageStays
  <2>5. SoundStream(Stream("Idle", FALSE), received', id)
    BY <2>4, NewIsLive DEF SoundStream
  <2> QED
    BY <1>1, <1>2, <2>1, <2>5, SetReq
<1> QED
  BY <1>3, <1>4

LEMMA SettingsReq ==
  ASSUME IInv, ReqInv, phase \in {"preface", "frames"}, NEW f,
         received' = Append(received, f), SettingsFrame(f)
  PROVE  ReqInv'
<1>1. f.type \notin MessageTypes /\ UNCHANGED upgrade
  BY DEF SettingsFrame, MessageTypes, HeaderTypes
<1>2. CASE phase = "preface" /\ upgrade
  <2>1. PICK s : s = Stream("HalfClosed", TRUE)
    OBVIOUS
  <2>2. SetStream(1, s) /\ Hand(1, << >>, << >>)
    BY <1>2, <2>1 DEF SettingsFrame
  <2>3. HasEnded(s)
    BY <2>1, NewStream DEF HasEnded
  <2>4. SoundStream(s, received', 1)
    BY <2>3 DEF SoundStream
  <2>5. \A i : StreamSound(streams', received', i)
    BY <1>1, <2>2, <2>4, ReqFacts, SetSound
  <2>6. handed = << >>
    BY <1>2 DEF IInv, StreamsInv
  <2> QED
    BY <1>1, <1>2, <2>2, <2>5, <2>6, ReqFacts, ReqHands
<1>3. CASE ~(phase = "preface" /\ upgrade)
  <2>1. UNCHANGED <<streams, handed>> /\ (upgrade => phase = "frames")
    BY <1>3 DEF SettingsFrame
  <2>2. \A i : StreamSound(streams', received', i)
    BY <1>1, <2>1, ReqFacts, SameSound
  <2> QED
    BY <1>1, <2>1, <2>2, ReqFacts, ReqQuiet
<1> QED
  BY <1>2, <1>3

LEMMA ReceiveReq ==
  ASSUME IInv, ReqInv, Receive
  PROVE  ReqInv'
<1>1. phase \in {"preface", "frames"} /\ Len(received) < MaxFrames
  BY DEF Receive
<1>2. PICK f \in Frames[Len(received) + 1] :
        /\ received' = Append(received, f)
        /\ Refuse(f) \/ RefuseFirst(f) \/ SettingsFrame(f) \/ FrameInLoop(f)
  BY DEF Receive
<1>3. f.payload \in Seq(Nat)
  BY <1>1, <1>2, InvFacts, ArrivalKeeps
<1>4. CASE \E fs : Leave(fs)
  <2>1. phase' = "done" /\ UNCHANGED <<handed, upgrade>>
    BY <1>4 DEF Leave
  <2> QED
    BY <1>1, <1>2, <2>1, ReqFacts, ReqQuiet
<1>5. CASE Refuse(f) \/ RefuseFirst(f)
  BY <1>4, <1>5 DEF Refuse, RefuseFirst
<1>6. CASE SettingsFrame(f)
  BY <1>1, <1>2, <1>6, SettingsReq
<1>7. CASE FrameInLoop(f)
  <2>1. phase = "frames" /\ ParseError(f) = "NO_ERROR"
    BY <1>7 DEF FrameInLoop
  <2>2. CASE PingFrame(f) \/ WindowUpdateFrame(f)
    <3>1. f.type \notin MessageTypes /\ Stays /\ UNCHANGED streams
      BY <2>2 DEF PingFrame, WindowUpdateFrame, MessageTypes, HeaderTypes
    <3>2. \A i : StreamSound(streams', received', i)
      BY <1>2, <2>1, <3>1, ReqFacts, SameSound
    <3> QED
      BY <1>2, <2>1, <3>1, <3>2, StaysReq
  <2>3. CASE GoawayFrame(f)
    BY <1>4, <2>3 DEF GoawayFrame
  <2>4. CASE PushPromiseFrame(f)
    <3>1. f.type \notin MessageTypes /\ f.type # "HEADERS" /\ StreamError(0, "PROTOCOL_ERROR")
      BY <2>4 DEF PushPromiseFrame, MessageTypes, HeaderTypes
    <3> QED
      BY <1>2, <2>1, <3>1, ErrorReq
  <2>5. CASE PriorityFrame(f)
    BY <1>2, <2>1, <2>5, PriorityReq
  <2>6. CASE RstStreamFrame(f)
    BY <1>2, <2>1, <2>6, RstReq
  <2>7. CASE HeadersFrame(f)
    BY <1>2, <1>3, <2>1, <2>7, HeadersReq
  <2>8. CASE ContinuationFrame(f)
    BY <1>2, <1>3, <2>1, <2>8, ContinuationReq
  <2>9. CASE DataFrame(f)
    BY <1>2, <1>3, <2>1, <2>9, DataReq
  <2> QED
    BY <1>7, <2>2, <2>3, <2>4, <2>5, <2>6, <2>7, <2>8, <2>9 DEF FrameInLoop
<1> QED
  BY <1>2, <1>5, <1>6, <1>7

LEMMA ReqInitially == Init => ReqInv
<1> SUFFICES ASSUME Init PROVE ReqInv
  OBVIOUS
<1>1. phase = "start" /\ streams = << >> /\ received = << >> /\ handed = << >>
  BY DEF Init
<1>2. DOMAIN << >> = {} /\ Len(<< >>) = 0 /\ 1..0 = {}
  OBVIOUS
<1>3. \A id : StreamSound(streams, received, id)
  BY <1>1, <1>2 DEF StreamSound, HasHeaders
<1> QED
  BY <1>1, <1>2, <1>3 DEF ReqInv, HandedInv

LEMMA ReqNext == IInv /\ ReqInv /\ [Next]_vars => ReqInv'
<1> SUFFICES ASSUME IInv, ReqInv, [Next]_vars PROVE ReqInv'
  OBVIOUS
<1>1. CASE Receive
  BY <1>1, ReceiveReq
<1>2. CASE ~Receive
  <2>1. UNCHANGED <<received, streams, handed, upgrade>>
    BY <1>2 DEF Next, vars, context, StartDirect, StartUpgrade, Magic, MagicFails, ReadFails,
       Leave, Respond, RespondNot, PeerLeaves
  <2>2. /\ phase' # "done" => phase # "done"
        /\ phase' \in {"frames", "respond"} => phase \in {"frames", "respond"}
    BY <1>2 DEF Next, vars, StartDirect, StartUpgrade, Magic, MagicFails, ReadFails,
       Leave, Respond, RespondNot, PeerLeaves
  <2> QED
    BY <2>1, <2>2, ReqUnchanged
<1> QED
  BY <1>1, <1>2

-----------------------------------------------------------------------------
(* Complete requests are served: the beginnings of an exchange.            *)

\* A selection is empty only if nothing is selected, and holds nothing else.
LEMMA SelectedSome ==
  ASSUME NEW n \in Nat, NEW P, NEW v, Selected(n, P, v) = << >>
  PROVE  \A k \in 1..n : k \notin P
<1> DEFINE A == {m \in 0..n : Selected(m, P, v) = << >> => \A k \in 1..m : k \notin P}
<1>1. 0 \in A
  <2>1. 0 \in 0..n /\ \A k \in 1..0 : k \notin P
    OBVIOUS
  <2> QED
    BY <2>1
<1>2. ASSUME NEW m \in 0..(n - 1), m \in A PROVE m + 1 \in A
  <2>1. m \in Nat /\ m + 1 \in 0..n /\ \A k \in 1..(m + 1) : k \in 1..m \/ k = m + 1
    OBVIOUS
  <2> SUFFICES ASSUME Selected(m + 1, P, v) = << >> PROVE \A k \in 1..(m + 1) : k \notin P
    BY <2>1, Zenon
  <2>2. IsSequence(Selected(m, P, v))
    BY <2>1, SelectedIsSequence
  <2>3. Append(Selected(m, P, v), v[m + 1]) # << >>
    BY <2>2, AppendFacts, SequenceFacts, SequenceEmpty
  <2>4. m + 1 \notin P /\ Selected(m, P, v) = << >>
    <3>1. Selected(m + 1, P, v) = IF m + 1 \in P THEN Append(Selected(m, P, v), v[m + 1])
                                  ELSE Selected(m, P, v)
      BY <2>1, SelectedNext, ZenonT(60)
    <3> QED
      BY <2>3, <3>1
  <2>5. \A k \in 1..m : k \notin P
    BY <1>2, <2>4
  <2> QED
    BY <2>1, <2>4, <2>5
<1> HIDE DEF A
<1>3. \A m \in 0..n : m \in A
  BY <1>1, <1>2, LoopInduction
<1>4. n \in A
  BY <1>3
<1> QED
  BY <1>4 DEF A

LEMMA PartElements ==
  ASSUME NEW fs, IsSequence(fs), NEW types, NEW k \in DOMAIN Part(fs, types)
  PROVE  Part(fs, types)[k].type \in types
<1>1. PICK n \in Nat : n = Len(fs) /\ DOMAIN fs = 1..n
  BY SequenceFacts
<1> DEFINE P == {j \in DOMAIN fs : fs[j].type \in types}
           T == {fs[j] : j \in P}
           s == [j \in P |-> <<fs[j]>>]
<1>2. \A j \in P : s[j] \in Seq(T)
  <2>1. \A j \in P : fs[j] \in T
    OBVIOUS
  <2>2. \A x \in T : <<x>> \in Seq(T)
    OBVIOUS
  <2> QED
    BY <2>1, <2>2
<1>3. \A x \in T : x.type \in types
  OBVIOUS
<1> HIDE DEF P, T, s
<1>4. PartsIn(n, P, s, T)
  BY <1>2 DEF PartsIn
<1>5. Joined(n, P, s) \in Seq(T)
  <2>1. PICK f : JoinsBy(f, n, P, s, T) /\ Joined(n, P, s) = f[n]
    BY <1>4, JoinedLoop
  <2> QED
    BY <2>1 DEF JoinsBy
<1>6. Part(fs, types) = Joined(n, P, s)
  BY <1>1 DEF Part, Selected, P, s
<1> QED
  BY <1>3, <1>5, <1>6

LEMMA AppendSame ==
  ASSUME NEW s, NEW t, NEW d, NEW e, IsSequence(s), IsSequence(t), Append(s, d) = Append(t, e)
  PROVE  s = t /\ d = e
<1>1. PICK m \in Nat, n \in Nat : m = Len(s) /\ n = Len(t)
  BY SequenceFacts
<1>2. m + 1 = n + 1 /\ d = e
  BY <1>1, AppendFacts
<1>3. m = n
  BY <1>2
<1>4. \A k \in 1..m : s[k] = t[k]
  BY <1>1, <1>3, AppendFacts
<1>5. DOMAIN s = 1..m /\ DOMAIN t = 1..m
  BY <1>1, <1>3, SequenceFacts
<1>6. s = [k \in 1..m |-> s[k]] /\ t = [k \in 1..m |-> t[k]]
  BY <1>1, <1>3 DEF IsSequence
<1> QED
  BY <1>2, <1>4, <1>6

\* Two sequences have their elements in one set.
LEMMA TwoSequences ==
  ASSUME NEW s, NEW t, IsSequence(s), IsSequence(t)
  PROVE  \E S : s \in Seq(S) /\ t \in Seq(S)
<1> DEFINE S == {s[k] : k \in DOMAIN s} \cup {t[k] : k \in DOMAIN t}
<1>1. s \in Seq({s[k] : k \in DOMAIN s}) /\ t \in Seq({t[k] : k \in DOMAIN t})
  BY DEF IsSequence
<1>2. (\A k \in 1..Len(s) : s[k] \in S) /\ (\A k \in 1..Len(t) : t[k] \in S)
  BY <1>1
<1> HIDE DEF S
<1>3. s \in Seq(S) /\ t \in Seq(S)
  BY <1>1, <1>2
<1> QED
  BY <1>3

\* A last frame that is no data comes after headers only.
LEMMA LastPart ==
  ASSUME NEW fs, NEW gs, NEW ds, NEW f, IsSequence(fs), IsSequence(gs), IsSequence(ds),
         Append(fs, f) = gs \o ds
  PROVE  /\ ds = << >> => Append(fs, f) = gs
         /\ ds # << >> => f = ds[Len(ds)]
<1>1. ds = << >> => gs \o ds = gs
  BY ConcatAppend
<1>2. ASSUME ds # << >> PROVE f = ds[Len(ds)]
  <2>1. PICK S : gs \in Seq(S) /\ ds \in Seq(S)
    BY TwoSequences
  <2>2. PICK m \in Nat, n \in Nat : m = Len(gs) /\ n = Len(ds)
    BY <2>1
  <2>3. n # 0
    BY <1>2, <2>2, SequenceEmpty
  <2>4. Len(gs \o ds) = m + n /\ (gs \o ds)[m + n] = ds[n]
    BY <2>1, <2>2, <2>3
  <2>5. Len(fs) + 1 = m + n /\ Append(fs, f)[m + n] = f
    BY <2>4, AppendFacts
  <2> QED
    BY <2>2, <2>4, <2>5
<1> QED
  BY <1>1, <1>2

LEMMA FirstPart ==
  ASSUME NEW gs, NEW ds, NEW fs, NEW f, IsSequence(gs), IsSequence(ds), IsSequence(fs),
         Append(fs, f) = gs \o ds, gs # << >>, fs # << >>
  PROVE  1 \in DOMAIN fs /\ fs[1] = gs[1]
<1>1. PICK m, n : m \in Nat /\ n \in Nat /\ m = Len(gs) /\ n = Len(fs)
  BY SequenceFacts
<1>2. m # 0 /\ n # 0
  BY <1>1, SequenceEmpty
<1>3. 1 \in 1..m /\ 1 \in 1..n
  BY <1>1, <1>2
<1>4. (gs \o ds)[1] = gs[1]
  <2>1. PICK S : gs \in Seq(S) /\ ds \in Seq(S)
    BY TwoSequences
  <2> QED
    BY <1>1, <1>3, <2>1
<1>5. Append(fs, f)[1] = fs[1]
  BY <1>1, <1>3, AppendFacts
<1>6. DOMAIN fs = 1..n
  BY <1>1, SequenceFacts
<1> QED
  BY <1>3, <1>4, <1>5, <1>6

\* The frames fs are header frames hs and data frames ds of an exchange that has
\* not ended with them; hf: the headers are complete, es: one ended the stream.
Shape(fs, hs, ds, hf, es) ==
    /\ fs = hs \o ds
    /\ hs = << >> => ~hf
    /\ hs # << >> => hs[1].type = "HEADERS"
    /\ \A k \in DOMAIN hs : EndsHeaders(hs[k]) <=> k = Len(hs) /\ hf
    /\ es <=> \E k \in DOMAIN hs : Ends(hs[k])
    /\ ds # << >> => hf /\ ~es
    /\ \A k \in DOMAIN ds : ~Ends(ds[k])
Begins(fs, hs, ds) == \E hf, es \in BOOLEAN : ~(hf /\ es) /\ Shape(fs, hs, ds, hf, es)

MoreHeaders(fs, hs, ds) == \E es \in BOOLEAN : Shape(fs, hs, ds, FALSE, es)
MoreData(fs, hs, ds) == Shape(fs, hs, ds, TRUE, FALSE)
PartsOf(fs, hs, ds) == hs = Part(fs, HeaderTypes) /\ ds = Part(fs, {"DATA"})

\* One HEADERS frame, and nothing that is refused in any case.
Simple(fs) ==
    /\ \A k \in DOMAIN fs :
          /\ fs[k].type \in MessageTypes
          /\ fs[k].type = "CONTINUATION" => fs[k].payload # << >>
    /\ Len(Part(fs, {"HEADERS"})) = 1

LEMMA HoldsShape ==
  ASSUME NEW s, NEW fs, NEW hs, NEW ds, Holds(s, fs, hs, ds)
  PROVE  Shape(fs, hs, ds, s.headers_finished, s.end_stream)
BY Zenon DEF Holds, Shape

\* The flags follow from the frames.
LEMMA ShapeFlags ==
  ASSUME NEW fs, NEW hs, NEW ds, IsSequence(hs), NEW hf, NEW es, NEW kf, NEW ks, hs # << >>,
         Shape(fs, hs, ds, hf, es), Shape(fs, hs, ds, kf, ks)
  PROVE  (hf <=> kf) /\ (es <=> ks)
<1>1. Len(hs) \in DOMAIN hs
  BY SequenceFacts, SequenceEmpty
<1>2. hf <=> kf
  BY <1>1, Zenon DEF Shape
<1>3. es <=> ks
  BY Zenon DEF Shape
<1> QED
  BY <1>2, <1>3

\* There are headers in what is not empty.
LEMMA ShapeStarts ==
  ASSUME NEW fs, NEW hs, NEW ds, NEW hf, NEW es, Shape(fs, hs, ds, hf, es), fs # << >>
  PROVE  hs # << >> /\ hs[1].type = "HEADERS"
<1>1. << >> \o << >> = << >>
  OBVIOUS
<1> QED
  BY <1>1, Zenon DEF Shape

LEMMA BeginsOrWhole ==
  ASSUME NEW fs, NEW hs, NEW ds, fs # << >>, Begins(fs, hs, ds) \/ Exchange(fs, hs, ds)
  PROVE  hs # << >> /\ hs[1].type = "HEADERS" /\ fs = hs \o ds
<1>1. CASE Begins(fs, hs, ds)
  <2>1. PICK hf, es \in BOOLEAN : Shape(fs, hs, ds, hf, es)
    BY <1>1 DEF Begins
  <2> QED
    BY <2>1, ShapeStarts DEF Shape
<1>2. CASE Exchange(fs, hs, ds)
  BY <1>2 DEF Exchange
<1> QED
  BY <1>1, <1>2

\* An exchange, or a beginning of one, that starts with the frame f.
LEMMA FirstFrame ==
  ASSUME NEW f, NEW gs, gs = Append(<< >>, f),
         NEW hs, hs = Part(gs, HeaderTypes), NEW ds, ds = Part(gs, {"DATA"}),
         Begins(gs, hs, ds) \/ Exchange(gs, hs, ds)
  PROVE  f.type = "HEADERS"
<1>1. IsSequence(<< >>) /\ gs # << >>
  BY DEF IsSequence
<1>2. hs # << >> /\ hs[1].type = "HEADERS"
  BY <1>1, BeginsOrWhole
<1>3. hs = IF f.type \in HeaderTypes THEN Append(<< >>, f) ELSE << >>
  <2>1. PICK e : e = << >>
    OBVIOUS
  <2>2. Part(Append(e, f), HeaderTypes) = IF f.type \in HeaderTypes
                                          THEN Append(Part(e, HeaderTypes), f)
                                          ELSE Part(e, HeaderTypes)
    BY <1>1, <2>1, PartNext, Zenon
  <2> QED
    BY <2>1, <2>2, PartNone, Zenon
<1>4. Append(<< >>, f)[1] = f
  OBVIOUS
<1> QED
  BY <1>2, <1>3, <1>4

\* What an exchange, or a beginning of one, was before its last frame.
LEMMA PrefixBegins ==
  ASSUME NEW fs, IsSequence(fs), fs # << >>, NEW f, NEW gs, gs = Append(fs, f), Simple(gs),
         NEW hs, NEW ds, PartsOf(fs, hs, ds), NEW ks, NEW es, PartsOf(gs, ks, es),
         Begins(gs, ks, es) \/ Exchange(gs, ks, es)
  PROVE  /\ Simple(fs)
         /\ \/ f.type = "CONTINUATION" /\ MoreHeaders(fs, hs, ds)
            \/ f.type = "DATA" /\ MoreData(fs, hs, ds)
<1>1. /\ IsSequence(gs) /\ IsSequence(hs) /\ IsSequence(ds) /\ IsSequence(ks)
      /\ IsSequence(es)
  BY AppendFacts, PartIsSequence DEF PartsOf
<1>2. PICK n \in Nat : n = Len(fs) /\ DOMAIN fs = 1..n
  BY SequenceFacts
<1>3. /\ DOMAIN gs = 1..(n + 1) /\ gs[n + 1] = f /\ gs # << >>
      /\ \A k \in 1..n : gs[k] = fs[k]
  <2>1. /\ Len(gs) = n + 1 /\ DOMAIN gs = 1..(n + 1) /\ gs[n + 1] = f
        /\ \A k \in 1..n : gs[k] = fs[k]
    BY <1>2, AppendFacts
  <2> QED
    BY <2>1
<1>4. n + 1 \in 1..(n + 1) /\ \A k \in 1..n : k \in 1..(n + 1)
  OBVIOUS
<1>5. ks # << >> /\ ks[1].type = "HEADERS" /\ gs = ks \o es
  BY <1>3, BeginsOrWhole
<1>6. 1 \in DOMAIN fs /\ fs[1].type = "HEADERS"
  <2>1. Append(fs, f) = ks \o es
    BY <1>5
  <2>2. 1 \in DOMAIN fs /\ fs[1] = ks[1]
    BY <1>1, <1>5, <2>1, FirstPart
  <2> QED
    BY <1>5, <2>2
<1>7. Part(fs, {"HEADERS"}) # << >>
  <2>1. PICK P : P = {k \in DOMAIN fs : fs[k].type \in {"HEADERS"}}
    OBVIOUS
  <2>2. 1 \in P /\ 1 \in 1..n /\ Part(fs, {"HEADERS"}) = Selected(n, P, fs)
    BY <1>2, <1>6, <2>1 DEF Part
  <2> QED
    BY <2>2, SelectedSome
<1>8. f.type \in MessageTypes /\ f.type # "HEADERS"
  <2>1. f.type \in MessageTypes
    BY <1>3, <1>4 DEF Simple
  <2>2. ASSUME f.type = "HEADERS" PROVE FALSE
    <3>1. Part(gs, {"HEADERS"}) = Append(Part(fs, {"HEADERS"}), f)
      BY <2>2, PartNext
    <3>2. PICK p : p = Part(fs, {"HEADERS"}) /\ IsSequence(p)
      BY PartIsSequence
    <3>3. Len(p) # 0 /\ Len(p) \in Nat /\ Len(Append(p, f)) = Len(p) + 1
      BY <1>7, <3>2, SequenceEmpty, SequenceFacts, AppendFacts
    <3> QED
      BY <3>1, <3>2, <3>3 DEF Simple
  <2> QED
    BY <2>1, <2>2
<1>9. Simple(fs)
  <2>1. Part(fs, {"HEADERS"}) = Part(gs, {"HEADERS"})
    BY <1>8, PartNext
  <2> QED
    BY <1>2, <1>3, <1>4, <2>1 DEF Simple
<1>10. PICK m \in Nat : m = Len(hs) /\ DOMAIN hs = 1..m
  BY <1>1, SequenceFacts
<1>11. CASE f.type = "CONTINUATION"
  <2>1. f.type \in HeaderTypes /\ f.type \notin {"DATA"}
    BY <1>11 DEF HeaderTypes
  <2>2. ks = Append(hs, f)
    BY <2>1, PartNext DEF PartsOf
  <2>3. es = ds
    BY <2>1, PartNext DEF PartsOf
  <2>4. ds = << >>
    <3> SUFFICES ASSUME ds # << >> PROVE FALSE
      OBVIOUS
    <3>0. Append(fs, f) = ks \o ds
      BY <1>5, <2>3
    <3>1. f = ds[Len(ds)]
      BY <1>1, <3>0, LastPart
    <3>2. Len(ds) \in DOMAIN ds
      BY <1>1, SequenceFacts, SequenceEmpty
    <3>3. ds[Len(ds)].type \in {"DATA"}
      BY <3>2, PartElements DEF PartsOf
    <3> QED
      BY <2>1, <3>1, <3>3
  <2>5. Append(fs, f) = Append(hs, f)
    BY <1>1, <1>5, <2>2, <2>3, <2>4, LastPart
  <2>6. fs = hs
    BY <1>1, <2>5, AppendSame
  <2>7. fs = hs \o ds
    BY <1>1, <2>4, <2>6, ConcatAppend
  <2>8. /\ Len(ks) = m + 1 /\ DOMAIN ks = 1..(m + 1)
        /\ \A k \in 1..m : ks[k] = hs[k] /\ k # m + 1 /\ k \in 1..(m + 1)
    BY <1>1, <1>10, <2>2, AppendFacts
  <2>9. \A k \in DOMAIN hs : ~EndsHeaders(hs[k])
    <3>1. CASE Begins(gs, ks, es)
      BY <1>10, <2>8, <3>1 DEF Begins, Shape
    <3>2. CASE Exchange(gs, ks, es)
      BY <1>10, <2>8, <3>2 DEF Exchange
    <3> QED
      BY <3>1, <3>2
  <2>10. PICK ee \in BOOLEAN : ee <=> \E k \in DOMAIN hs : Ends(hs[k])
    OBVIOUS
  <2>11. hs # << >> /\ hs[1].type = "HEADERS" /\ DOMAIN << >> = {}
    BY <1>6, <2>6
  <2>12. Shape(fs, hs, ds, FALSE, ee)
    BY <2>4, <2>7, <2>9, <2>10, <2>11, Zenon DEF Shape
  <2> QED
    BY <1>9, <1>11, <2>12 DEF MoreHeaders
<1>12. CASE f.type = "DATA"
  <2>1. f.type \notin HeaderTypes /\ f.type \in {"DATA"}
    BY <1>12 DEF HeaderTypes
  <2>2. ks = hs
    BY <2>1, PartNext DEF PartsOf
  <2>3. es = Append(ds, f)
    BY <2>1, PartNext DEF PartsOf
  <2>4. PICK j \in Nat : j = Len(ds) /\ DOMAIN ds = 1..j
    BY <1>1, SequenceFacts
  <2>5. /\ Len(es) = j + 1 /\ DOMAIN es = 1..(j + 1) /\ es # << >>
        /\ \A k \in 1..j : es[k] = ds[k] /\ k # j + 1 /\ k \in 1..(j + 1)
    <3>1. /\ Len(es) = j + 1 /\ DOMAIN es = 1..(j + 1)
          /\ \A k \in 1..j : es[k] = ds[k] /\ k # j + 1 /\ k \in 1..(j + 1)
      BY <1>1, <2>3, <2>4, AppendFacts
    <3> QED
      BY <3>1
  <2>6. fs = hs \o ds
    <3>1. Append(fs, f) = Append(hs \o ds, f)
      BY <1>1, <1>5, <2>2, <2>3, ConcatAppend
    <3>2. IsSequence(hs \o ds)
      <4>1. PICK S : hs \in Seq(S) /\ ds \in Seq(S)
        BY <1>1, TwoSequences
      <4>2. hs \o ds \in Seq(S)
        BY <4>1
      <4> QED
        BY <4>2, BuiltSequence
    <3> QED
      BY <3>1, <3>2, AppendSame
  <2>7. \A k \in DOMAIN hs : EndsHeaders(hs[k]) <=> k = Len(hs)
    <3>1. CASE Begins(gs, ks, es)
      BY <2>2, <2>5, <3>1 DEF Begins, Shape
    <3>2. CASE Exchange(gs, ks, es)
      BY <2>2, <3>2 DEF Exchange
    <3> QED
      BY <3>1, <3>2
  <2>8. ~\E k \in DOMAIN hs : Ends(hs[k])
    <3>1. CASE Begins(gs, ks, es)
      BY <2>2, <2>5, <3>1 DEF Begins, Shape
    <3>2. CASE Exchange(gs, ks, es)
      BY <2>2, <2>5, <3>2 DEF Exchange
    <3> QED
      BY <3>1, <3>2
  <2>9. \A k \in DOMAIN ds : ~Ends(ds[k])
    <3>1. CASE Begins(gs, ks, es)
      BY <2>4, <2>5, <3>1 DEF Begins, Shape
    <3>2. CASE Exchange(gs, ks, es)
      BY <2>4, <2>5, <3>2 DEF Exchange
    <3> QED
      BY <3>1, <3>2
  <2>10. Shape(fs, hs, ds, TRUE, FALSE)
    BY <1>5, <2>2, <2>6, <2>7, <2>8, <2>9, Zenon DEF Shape
  <2> QED
    BY <1>9, <1>12, <2>10 DEF MoreData
<1> QED
  BY <1>8, <1>11, <1>12 DEF MessageTypes, HeaderTypes

-----------------------------------------------------------------------------
(* Complete requests are served: the invariant and its steps.              *)

\* All frames of a stream but the window updates.
FramesOf(r, id) ==
    Selected(Len(r), {k \in DOMAIN r : r[k].id = id /\ r[k].type # "WINDOW_UPDATE"}, r)

\* With the frames fs of id: none made a stream, the beginning of an exchange is
\* held by an open one, and an exchange was handed over.
Serves(st, h, id, fs, hs, ds) ==
    /\ fs = << >> => id \notin DOMAIN st
    /\ fs # << >> /\ Simple(fs) /\ Begins(fs, hs, ds) =>
          id \in DOMAIN st /\ st[id].state = "Open" /\ Holds(st[id], fs, hs, ds)
    /\ Simple(fs) /\ Exchange(fs, hs, ds) => \E k \in DOMAIN h : h[k].id = id
StreamServed(st, r, h, id) ==
    \A fs, hs, ds : fs = FramesOf(r, id) /\ PartsOf(fs, hs, ds) => Serves(st, h, id, fs, hs, ds)
ServeInv ==
    phase # "done" =>
        \A id : id = 0 \/ (upgrade /\ id = 1) \/ StreamServed(streams, received, handed, id)

LEMMA FramesGrow ==
  ASSUME NEW r, IsSequence(r), NEW f, NEW id
  PROVE  /\ IsSequence(FramesOf(r, id))
         /\ FramesOf(Append(r, f), id) =
              IF f.id = id /\ f.type # "WINDOW_UPDATE" THEN Append(FramesOf(r, id), f)
              ELSE FramesOf(r, id)
<1>1. PICK q : q = Append(r, f)
  OBVIOUS
<1>2. PICK n \in Nat : n = Len(r)
  BY SequenceFacts
<1>3. /\ DOMAIN r = 1..n /\ DOMAIN q = 1..(n + 1) /\ Len(q) = n + 1
      /\ \A k \in 1..n : q[k] = r[k]
      /\ q[n + 1] = f
  BY <1>1, <1>2, AppendFacts, SequenceFacts
<1> DEFINE P == {k \in DOMAIN r : r[k].id = id /\ r[k].type # "WINDOW_UPDATE"}
           Q == {k \in DOMAIN q : q[k].id = id /\ q[k].type # "WINDOW_UPDATE"}
<1>4. /\ \A k \in 1..n : k \in 1..(n + 1)
      /\ n + 1 \in 1..(n + 1)
  OBVIOUS
<1>5. \A k \in 1..n : (k \in P <=> k \in Q) /\ (k \in P => r[k] = q[k])
  BY <1>3, <1>4, Zenon
<1>6. n + 1 \in Q <=> f.id = id /\ f.type # "WINDOW_UPDATE"
  BY <1>3, <1>4, Zenon
<1>7. FramesOf(r, id) = Selected(n, P, r) /\ FramesOf(q, id) = Selected(n + 1, Q, q)
  BY <1>2, <1>3 DEF FramesOf
<1> HIDE DEF P, Q
<1>8. Selected(n + 1, Q, q) = IF n + 1 \in Q THEN Append(Selected(n, P, r), q[n + 1])
                              ELSE Selected(n, P, r)
  BY <1>5, SelectedOneMore
<1>9. IsSequence(Selected(n, P, r))
  BY SelectedIsSequence
<1> QED
  BY <1>1, <1>3, <1>6, <1>7, <1>8, <1>9, Zenon

\* The requests of id were handed over.
IsHanded(h, id) == \E k \in DOMAIN h : h[k].id = id

\* A frame that does not count for the stream i.
LEMMA OtherServed ==
  ASSUME NEW r, IsSequence(r), NEW f, NEW st, NEW ts, NEW h, NEW g, NEW i,
         f.id # i \/ f.type = "WINDOW_UPDATE",
         StreamServed(st, r, h, i), i \in DOMAIN ts <=> i \in DOMAIN st,
         i \in DOMAIN st => ts[i] = st[i], IsHanded(h, i) => IsHanded(g, i)
  PROVE  StreamServed(ts, Append(r, f), g, i)
<1>1. FramesOf(Append(r, f), i) = FramesOf(r, i)
  BY FramesGrow
<1>2. ASSUME NEW fs, NEW hs, NEW ds, fs = FramesOf(r, i), PartsOf(fs, hs, ds)
      PROVE  Serves(ts, g, i, fs, hs, ds)
  <2>1. Serves(st, h, i, fs, hs, ds)
    BY <1>2 DEF StreamServed
  <2> QED
    BY <2>1, Zenon DEF Serves, IsHanded
<1> QED
  BY <1>1, <1>2, Zenon DEF StreamServed

\* A frame of the stream i: what has to be shown.
LEMMA GrownServed ==
  ASSUME NEW r, IsSequence(r), NEW f, NEW ts, NEW g, NEW i, f.id = i, f.type # "WINDOW_UPDATE",
         \A fs, gs, ks, es : fs = FramesOf(r, i) /\ gs = Append(fs, f) /\ PartsOf(gs, ks, es)
             /\ Simple(gs) /\ (Begins(gs, ks, es) \/ Exchange(gs, ks, es)) =>
             Serves(ts, g, i, gs, ks, es)
  PROVE  StreamServed(ts, Append(r, f), g, i)
<1>1. PICK fs : fs = FramesOf(r, i)
  OBVIOUS
<1>2. FramesOf(Append(r, f), i) = Append(fs, f) /\ IsSequence(fs)
  BY <1>1, FramesGrow
<1>3. ASSUME NEW gs, NEW ks, NEW es, gs = Append(fs, f), PartsOf(gs, ks, es)
      PROVE  Serves(ts, g, i, gs, ks, es)
  <2>1. Len(gs) = Len(fs) + 1 /\ Len(fs) \in Nat
    BY <1>2, <1>3, AppendFacts, SequenceFacts
  <2>2. gs # << >>
    BY <2>1
  <2>3. CASE Simple(gs) /\ (Begins(gs, ks, es) \/ Exchange(gs, ks, es))
    BY <1>1, <1>3, <2>3
  <2>4. CASE ~(Simple(gs) /\ (Begins(gs, ks, es) \/ Exchange(gs, ks, es)))
    BY <2>2, <2>4 DEF Serves
  <2> QED
    BY <2>3, <2>4
<1> QED
  BY <1>2, <1>3, Zenon DEF StreamServed

\* A frame after which nothing of the stream i is an exchange.
LEMMA ForeignServed ==
  ASSUME NEW r, IsSequence(r), NEW f, NEW ts, NEW g, NEW i, f.id = i,
         f.type # "WINDOW_UPDATE", f.type \notin MessageTypes
  PROVE  StreamServed(ts, Append(r, f), g, i)
<1>1. ASSUME NEW fs, fs = FramesOf(r, i), NEW gs, gs = Append(fs, f)
      PROVE  ~Simple(gs)
  <2>1. IsSequence(fs)
    BY <1>1, FramesGrow
  <2>2. PICK n \in Nat : n = Len(fs)
    BY <2>1, SequenceFacts
  <2>3. n + 1 \in DOMAIN gs /\ gs[n + 1] = f
    BY <1>1, <2>1, <2>2, AppendFacts
  <2> QED
    BY <2>3 DEF Simple
<1> QED
  BY <1>1, GrownServed

LEMMA FinishServes ==
  ASSUME IsSequence(handed), NEW id, NEW t, Finish(id, t), phase' # "done"
  PROVE  IsHanded(handed', id)
<1>1. PICK h : h.id = id /\ handed' = Append(handed, h)
  <2>1. PICK a, b : Hand(id, a, b)
    BY DEF Finish
  <2>2. PICK h : h = [id |-> id, headers |-> a, body |-> b, at |-> Len(received')]
    OBVIOUS
  <2> QED
    BY <2>1, <2>2 DEF Hand
<1>2. PICK n \in Nat : n = Len(handed)
  BY SequenceFacts
<1>3. n + 1 \in DOMAIN handed' /\ handed'[n + 1] = h
  BY <1>1, <1>2, AppendFacts
<1> QED
  BY <1>1, <1>3 DEF IsHanded

\* An open stream t that holds gs is kept, or has ended with it.
LEMMA ContinueServes ==
  ASSUME IsSequence(handed), NEW id, NEW t, Continue(id, t), phase' # "done",
         NEW gs, NEW ks, NEW es, IsSequence(ks), IsSequence(es), gs # << >>,
         t.state = "Open", Holds(t, gs, ks, es)
  PROVE  Serves(streams', handed', id, gs, ks, es)
<1>1. PICK hf, ee : hf = t.headers_finished /\ ee = t.end_stream
  OBVIOUS
<1>2. Shape(gs, ks, es, hf, ee)
  BY <1>1, HoldsShape
<1>3. ks # << >>
  BY <1>2, ShapeStarts
<1>4. ASSUME Begins(gs, ks, es)
      PROVE  id \in DOMAIN streams' /\ streams'[id] = t
  <2>1. PICK kf, ke \in BOOLEAN : ~(kf /\ ke) /\ Shape(gs, ks, es, kf, ke)
    BY <1>4 DEF Begins
  <2>2. ~(hf /\ ee)
    BY <1>2, <1>3, <2>1, ShapeFlags
  <2>3. SetStream(id, t)
    BY <1>1, <2>2 DEF Continue
  <2> QED
    BY <2>3 DEF SetStream
<1>5. ASSUME Exchange(gs, ks, es)
      PROVE  IsHanded(handed', id)
  <2>1. Len(ks) \in DOMAIN ks
    BY <1>3, SequenceFacts, SequenceEmpty
  <2>2. hf
    BY <1>2, <1>5, <2>1, Zenon DEF Exchange, Shape
  <2>3. es = << >>
    <3> SUFFICES ASSUME es # << >> PROVE FALSE
      OBVIOUS
    <3>1. Len(es) \in DOMAIN es
      BY SequenceFacts, SequenceEmpty
    <3> QED
      BY <1>2, <1>5, <3>1, Zenon DEF Exchange, Shape
  <2>4. ee
    BY <1>2, <1>5, <2>3, Zenon DEF Exchange, Shape
  <2>5. Finish(id, t)
    BY <1>1, <2>2, <2>4 DEF Continue
  <2> QED
    BY <2>5, FinishServes
<1> QED
  BY <1>4, <1>5 DEF Serves, IsHanded

\* The parts of the frames of a stream before and after the frame f.
PartsAfter(f, hs, ds, ks, es) ==
    IF f.type = "DATA" THEN ks = hs /\ es = Append(ds, f) ELSE ks = Append(hs, f) /\ es = ds

LEMMA PartsGrow ==
  ASSUME NEW fs, IsSequence(fs), NEW f, NEW gs, gs = Append(fs, f), f.type \in MessageTypes,
         NEW hs, NEW ds, PartsOf(fs, hs, ds), NEW ks, NEW es, PartsOf(gs, ks, es)
  PROVE  /\ IsSequence(hs) /\ IsSequence(ds) /\ IsSequence(ks) /\ IsSequence(es)
         /\ gs # << >> /\ PartsAfter(f, hs, ds, ks, es)
<1>2. IsSequence(hs) /\ IsSequence(ds)
  BY PartIsSequence DEF PartsOf
<1>3. IsSequence(gs) /\ Len(gs) = Len(fs) + 1 /\ Len(fs) \in Nat
  BY AppendFacts, SequenceFacts
<1>4. IsSequence(ks) /\ IsSequence(es)
  BY <1>3, PartIsSequence DEF PartsOf
<1>5. gs # << >>
  BY <1>3
<1>6. f.type = "DATA" => f.type \notin HeaderTypes /\ f.type \in {"DATA"}
  BY DEF HeaderTypes
<1>7. f.type # "DATA" => f.type \in HeaderTypes /\ f.type \notin {"DATA"}
  BY DEF MessageTypes
<1>8. f.type = "DATA" => ks = hs /\ es = Append(ds, f)
  BY <1>6, PartNext DEF PartsOf
<1>9. f.type # "DATA" => ks = Append(hs, f) /\ es = ds
  BY <1>7, PartNext DEF PartsOf
<1> QED
  BY <1>2, <1>4, <1>5, <1>8, <1>9 DEF PartsAfter

\* An open stream holds the frames before f, which goes on with them.
IsHeld(f, id, fs, hs, ds) ==
    /\ id \in DOMAIN streams /\ streams[id].state = "Open"
    /\ Holds(streams[id], fs, hs, ds) /\ hs # << >>
    /\ \/ f.type = "CONTINUATION" /\ ~streams[id].headers_finished
       \/ f.type = "DATA" /\ streams[id].headers_finished /\ ~streams[id].end_stream

\* What the invariant says of the stream before f completes or continues gs.
LEMMA HeldBefore ==
  ASSUME NEW id, StreamServed(streams, received, handed, id),
         NEW fs, fs = FramesOf(received, id), IsSequence(fs), NEW f, f.type \in MessageTypes,
         NEW gs, gs = Append(fs, f), NEW ks, NEW es, PartsOf(gs, ks, es), Simple(gs),
         Begins(gs, ks, es) \/ Exchange(gs, ks, es), NEW hs, NEW ds, PartsOf(fs, hs, ds)
  PROVE  \/ f.type = "HEADERS" /\ fs = << >> /\ id \notin DOMAIN streams
         \/ IsHeld(f, id, fs, hs, ds)
<1>1. Serves(streams, handed, id, fs, hs, ds)
  BY DEF StreamServed
<1>2. CASE fs = << >>
  <2>1. f.type = "HEADERS"
    BY <1>2, FirstFrame DEF PartsOf
  <2> QED
    BY <1>1, <1>2, <2>1 DEF Serves
<1>3. CASE fs # << >>
  <2>1. /\ Simple(fs)
        /\ \/ f.type = "CONTINUATION" /\ MoreHeaders(fs, hs, ds)
           \/ f.type = "DATA" /\ MoreData(fs, hs, ds)
    BY <1>3, PrefixBegins
  <2>2. PICK hf, ee \in BOOLEAN :
          /\ Shape(fs, hs, ds, hf, ee)
          /\ (f.type = "CONTINUATION" /\ ~hf) \/ (f.type = "DATA" /\ hf /\ ~ee)
    BY <2>1 DEF MoreHeaders, MoreData
  <2>3. Begins(fs, hs, ds)
    BY <2>2 DEF Begins
  <2>4. id \in DOMAIN streams /\ streams[id].state = "Open" /\ Holds(streams[id], fs, hs, ds)
    BY <1>1, <1>3, <2>1, <2>3 DEF Serves
  <2>5. hs # << >> /\ IsSequence(hs)
    BY <1>3, <2>2, ShapeStarts, PartIsSequence DEF PartsOf
  <2>6. PICK kf, ke : kf = streams[id].headers_finished /\ ke = streams[id].end_stream
    OBVIOUS
  <2>7. Shape(fs, hs, ds, kf, ke)
    BY <2>4, <2>6, HoldsShape
  <2>8. (hf <=> kf) /\ (ee <=> ke)
    BY <2>2, <2>5, <2>7, ShapeFlags
  <2> QED
    BY <2>2, <2>4, <2>5, <2>6, <2>8 DEF IsHeld
<1> QED
  BY <1>2, <1>3

LEMMA HeaderServed ==
  ASSUME IInv, NEW f, f.payload \in Seq(Nat), ParseError(f) = "NO_ERROR",
         NEW id, id = f.id, StreamServed(streams, received, handed, id), phase' # "done",
         HeadersFrame(f) \/ ContinuationFrame(f),
         NEW fs, NEW gs, NEW ks, NEW es, fs = FramesOf(received, id), gs = Append(fs, f),
         PartsOf(gs, ks, es), Simple(gs), Begins(gs, ks, es) \/ Exchange(gs, ks, es)
  PROVE  Serves(streams', handed', id, gs, ks, es)
<1>1. f.type \in {"HEADERS", "CONTINUATION"} /\ f.type \in MessageTypes /\ f.type # "DATA"
  BY DEF HeadersFrame, ContinuationFrame, MessageTypes, HeaderTypes
<1>2. IsSequence(received) /\ IsSequence(handed)
  BY InvFacts DEF ReceivedOK
<1>3. IsSequence(fs)
  BY <1>2, FramesGrow
<1>a. PICK hs, ds : PartsOf(fs, hs, ds)
  BY DEF PartsOf
<1>b. /\ IsSequence(hs) /\ IsSequence(ds) /\ IsSequence(ks) /\ IsSequence(es)
      /\ gs # << >> /\ PartsAfter(f, hs, ds, ks, es)
  BY <1>1, <1>3, <1>a, PartsGrow
<1>4. /\ IsSequence(hs) /\ IsSequence(ds) /\ IsSequence(ks) /\ IsSequence(es)
      /\ gs # << >> /\ ks = Append(hs, f) /\ es = ds
  BY <1>1, <1>b DEF PartsAfter
<1>5. \/ f.type = "HEADERS" /\ fs = << >> /\ id \notin DOMAIN streams
      \/ /\ id \in DOMAIN streams /\ streams[id].state = "Open"
         /\ Holds(streams[id], fs, hs, ds) /\ hs # << >>
         /\ f.type = "CONTINUATION" /\ ~streams[id].headers_finished
  <2>1. (f.type = "HEADERS" /\ fs = << >> /\ id \notin DOMAIN streams) \/ IsHeld(f, id, fs, hs, ds)
    BY <1>1, <1>3, <1>a, HeldBefore
  <2> QED
    BY <1>1, <2>1 DEF IsHeld
<1>6. Content(f) = Carried(f)
  BY <1>1, ContentIsCarried
<1>7. CASE f.type = "HEADERS"
  <2>1. fs = << >> /\ id \notin DOMAIN streams
    BY <1>5, <1>7
  <2>2. PICK b, s, t : /\ b = Stream("Open", FALSE) /\ s = Stream("Open", "END_STREAM" \in f.flags)
                       /\ t = AddHeaderBlock(s, f)
    OBVIOUS
  <2>3. ~s.headers_finished /\ StateOf(id) = "Idle"
    BY <2>1, <2>2 DEF Stream, StateOf
  <2>4. Continue(id, t)
    BY <1>7, <2>1, <2>2, <2>3 DEF HeadersFrame, ContinuationFrame
  <2>5. IsStream(s)
    BY <2>2, OpenStream
  <2>6. /\ t.header_blocks = Append(s.header_blocks, Carried(f))
        /\ t.data_blocks = s.data_blocks /\ t.end_stream = s.end_stream
        /\ t.headers_finished <=> EndsHeaders(f)
        /\ t.state = s.state
    BY <1>6, <2>2, <2>5 DEF AddHeaderBlock, IsStream, EndsHeaders
  <2>7. /\ s.header_blocks = b.header_blocks /\ s.data_blocks = b.data_blocks
        /\ ~b.headers_finished /\ s.state = "Open"
        /\ s.end_stream <=> b.end_stream \/ Ends(f)
    BY <2>2 DEF Stream, Ends
  <2>8. hs = << >> /\ ds = << >>
    BY <1>a, <2>1, PartNone DEF PartsOf
  <2>9. Holds(b, fs, hs, ds)
    BY <2>1, <2>2, <2>8, NewHolds
  <2>10. Holds(t, gs, ks, es) /\ t.state = "Open"
    BY <1>4, <1>7, <2>6, <2>7, <2>9, HoldsHeader
  <2> QED
    BY <1>2, <1>4, <2>4, <2>10, ContinueServes
<1>8. CASE f.type = "CONTINUATION"
  <2>1. PICK b, t : b = streams[id] /\ t = AddHeaderBlock(b, f)
    OBVIOUS
  <2>2. /\ id \in DOMAIN streams /\ b.state = "Open" /\ Holds(b, fs, hs, ds) /\ hs # << >>
        /\ ~b.headers_finished
    BY <1>5, <1>8, <2>1
  <2>3. IsStream(b) /\ StateOf(id) = "Open"
    BY <2>1, <2>2, StateOfStream
  <2>4. Content(f) # << >>
    <3>1. PICK n \in Nat : n = Len(fs)
      BY <1>3, SequenceFacts
    <3>2. n + 1 \in DOMAIN gs /\ gs[n + 1] = f
      BY <1>3, <3>1, AppendFacts
    <3>3. f.payload # << >>
      BY <1>8, <3>2 DEF Simple
    <3>4. ~BadFlags(f)
      BY <1>8 DEF ParseError, ContinuationError, Verdict
    <3>5. "PADDED" \notin f.flags /\ "PRIORITY" \notin f.flags
      BY <1>8, <3>4, FlagsAllowed DEF BadFlags
    <3> QED
      BY <3>3, <3>5 DEF Content, Unpadded
  <2>5. Continue(id, t)
    BY <1>8, <2>1, <2>2, <2>3, <2>4 DEF HeadersFrame, ContinuationFrame
  <2>6. /\ t.header_blocks = Append(b.header_blocks, Carried(f))
        /\ t.data_blocks = b.data_blocks /\ t.end_stream = b.end_stream
        /\ t.headers_finished <=> EndsHeaders(f)
        /\ t.state = "Open"
    BY <1>6, <2>1, <2>2, <2>3 DEF AddHeaderBlock, IsStream, EndsHeaders
  <2>7. ~Ends(f)
    BY <1>1, <1>8, ContentIsCarried
  <2>8. Holds(t, gs, ks, es)
    BY <1>4, <2>2, <2>6, <2>7, HoldsHeader
  <2> QED
    BY <1>2, <1>4, <2>5, <2>6, <2>8, ContinueServes
<1> QED
  BY <1>1, <1>7, <1>8

LEMMA DataServed ==
  ASSUME IInv, NEW f, f.payload \in Seq(Nat), ParseError(f) = "NO_ERROR",
         NEW id, id = f.id, StreamServed(streams, received, handed, id), phase' # "done",
         DataFrame(f),
         NEW fs, NEW gs, NEW ks, NEW es, fs = FramesOf(received, id), gs = Append(fs, f),
         PartsOf(gs, ks, es), Simple(gs), Begins(gs, ks, es) \/ Exchange(gs, ks, es)
  PROVE  Serves(streams', handed', id, gs, ks, es)
<1>1. f.type = "DATA" /\ f.type \in MessageTypes
  BY DEF DataFrame, MessageTypes, HeaderTypes
<1>2. IsSequence(received) /\ IsSequence(handed)
  BY InvFacts DEF ReceivedOK
<1>3. IsSequence(fs)
  BY <1>2, FramesGrow
<1>a. PICK hs, ds : PartsOf(fs, hs, ds)
  BY DEF PartsOf
<1>b. /\ IsSequence(hs) /\ IsSequence(ds) /\ IsSequence(ks) /\ IsSequence(es)
      /\ gs # << >> /\ PartsAfter(f, hs, ds, ks, es)
  BY <1>1, <1>3, <1>a, PartsGrow
<1>4. /\ IsSequence(hs) /\ IsSequence(ds) /\ IsSequence(ks) /\ IsSequence(es)
      /\ gs # << >> /\ ks = hs /\ es = Append(ds, f)
  BY <1>1, <1>b DEF PartsAfter
<1>5. /\ id \in DOMAIN streams /\ streams[id].state = "Open"
      /\ Holds(streams[id], fs, hs, ds)
      /\ streams[id].headers_finished /\ ~streams[id].end_stream
  <2>1. IsHeld(f, id, fs, hs, ds)
    BY <1>1, <1>3, <1>a, HeldBefore
  <2> QED
    BY <1>1, <2>1 DEF IsHeld
<1>6. Content(f) = Carried(f)
  BY <1>1, ContentIsCarried
<1>7. PICK b, t : b = streams[id] /\ t = AddContentBlock(b, f)
  OBVIOUS
<1>8. IsStream(b) /\ StateOf(id) = "Open"
  BY <1>5, <1>7, StateOfStream
<1>9. IF t.end_stream THEN Finish(id, t) ELSE SetStream(id, t)
  BY <1>1, <1>5, <1>7, <1>8 DEF DataFrame
<1>10. /\ t.header_blocks = b.header_blocks /\ t.state = "Open"
       /\ t.data_blocks = Append(b.data_blocks, Carried(f))
       /\ t.headers_finished = b.headers_finished
       /\ t.end_stream <=> Ends(f)
  BY <1>5, <1>6, <1>7, <1>8 DEF AddContentBlock, IsStream, Ends
<1>11. ~Ends(f) => Holds(t, gs, ks, es)
  BY <1>4, <1>5, <1>7, <1>10, HoldsData
<1>12. PICK n \in DOMAIN es : n = Len(es) /\ es[n] = f
  <2>1. Len(es) = Len(ds) + 1 /\ Len(ds) \in Nat /\ DOMAIN es = 1..(Len(ds) + 1)
        /\ es[Len(ds) + 1] = f
    BY <1>4, AppendFacts, SequenceFacts
  <2> QED
    BY <2>1
<1>13. ASSUME Begins(gs, ks, es)
       PROVE  id \in DOMAIN streams' /\ streams'[id] = t /\ ~Ends(f)
  <2>1. ~Ends(f)
    BY <1>12, <1>13 DEF Begins, Shape
  <2>2. SetStream(id, t)
    BY <1>9, <1>10, <2>1
  <2> QED
    BY <2>1, <2>2 DEF SetStream
<1>14. ASSUME Exchange(gs, ks, es)
       PROVE  IsHanded(handed', id)
  <2>1. Ends(f)
    BY <1>12, <1>14, Zenon DEF Exchange
  <2>2. Finish(id, t)
    BY <1>9, <1>10, <2>1
  <2> QED
    BY <1>2, <2>2, FinishServes
<1> QED
  BY <1>4, <1>10, <1>11, <1>13, <1>14 DEF Serves, IsHanded

\* A step that leaves the stream i alone and takes back no request.
Elsewhere(i) ==
    /\ i \in DOMAIN streams' <=> i \in DOMAIN streams
    /\ i \in DOMAIN streams => streams'[i] = streams[i]
    /\ IsHanded(handed, i) => IsHanded(handed', i)

LEMMA HandedStays ==
  ASSUME IsSequence(handed), NEW i, IsHanded(handed, i),
         UNCHANGED handed \/ \E id, headers, body : Hand(id, headers, body)
  PROVE  IsHanded(handed', i)
<1>1. CASE UNCHANGED handed
  BY <1>1
<1>2. CASE \E id, headers, body : Hand(id, headers, body)
  <2>1. PICK h : handed' = Append(handed, h)
    BY <1>2 DEF Hand
  <2>2. PICK k \in DOMAIN handed : handed[k].id = i
    BY DEF IsHanded
  <2>3. PICK n \in Nat : n = Len(handed) /\ DOMAIN handed = 1..n
    BY SequenceFacts
  <2>4. k \in 1..n /\ k \in 1..(n + 1)
    BY <2>2, <2>3
  <2>5. k \in DOMAIN handed' /\ handed'[k] = handed[k]
    BY <2>1, <2>3, <2>4, AppendFacts
  <2> QED
    BY <2>2, <2>5 DEF IsHanded
<1> QED
  BY <1>1, <1>2

LEMMA SetElsewhere ==
  ASSUME NEW id, NEW s, SetStream(id, s), NEW i, i # id
  PROVE  /\ i \in DOMAIN streams' <=> i \in DOMAIN streams
         /\ i \in DOMAIN streams => streams'[i] = streams[i]
BY DEF SetStream

LEMMA ErrorElsewhere ==
  ASSUME NEW id, NEW code, StreamError(id, code), NEW i, i # id
  PROVE  /\ i \in DOMAIN streams' <=> i \in DOMAIN streams
         /\ i \in DOMAIN streams => streams'[i] = streams[i]
         /\ UNCHANGED handed
BY DEF StreamError, Stays

LEMMA FinishElsewhere ==
  ASSUME NEW id, NEW t, Finish(id, t), NEW i, i # id
  PROVE  /\ i \in DOMAIN streams' <=> i \in DOMAIN streams
         /\ i \in DOMAIN streams => streams'[i] = streams[i]
         /\ UNCHANGED handed \/ \E a, headers, body : Hand(a, headers, body)
<1>1. PICK s : SetStream(id, s)
  BY DEF Finish
<1>2. UNCHANGED handed \/ \E a, headers, body : Hand(a, headers, body)
  BY DEF Finish
<1> QED
  BY <1>1, <1>2, SetElsewhere

LEMMA ContinueElsewhere ==
  ASSUME NEW id, NEW t, Continue(id, t), NEW i, i # id
  PROVE  /\ i \in DOMAIN streams' <=> i \in DOMAIN streams
         /\ i \in DOMAIN streams => streams'[i] = streams[i]
         /\ UNCHANGED handed \/ \E a, headers, body : Hand(a, headers, body)
<1>1. CASE Finish(id, t)
  BY <1>1, FinishElsewhere
<1>2. CASE SetStream(id, t) /\ Stays
  BY <1>2, SetElsewhere DEF Stays
<1> QED
  BY <1>1, <1>2 DEF Continue

\* No frame changes anything of another stream.
LEMMA FrameElsewhere ==
  ASSUME IInv, NEW f, SettingsFrame(f) \/ FrameInLoop(f), NEW i, i # 0, ~(upgrade /\ i = 1),
         i # f.id \/ f.type = "WINDOW_UPDATE", phase' # "done"
  PROVE  Elsewhere(i)
<1> SUFFICES /\ i \in DOMAIN streams' <=> i \in DOMAIN streams
             /\ i \in DOMAIN streams => streams'[i] = streams[i]
             /\ UNCHANGED handed \/ \E a, headers, body : Hand(a, headers, body)
  BY InvFacts, HandedStays DEF Elsewhere
<1>1. CASE UNCHANGED <<streams, handed>>
  BY <1>1
<1>2. CASE SettingsFrame(f)
  <2>1. CASE phase = "preface" /\ upgrade
    <3>1. PICK s : SetStream(1, s) /\ Hand(1, << >>, << >>)
      BY <1>2, <2>1 DEF SettingsFrame
    <3>2. i # 1
      BY <2>1
    <3> QED
      BY <3>1, <3>2, SetElsewhere
  <2>2. CASE ~(phase = "preface" /\ upgrade)
    BY <1>1, <1>2, <2>2 DEF SettingsFrame
  <2> QED
    BY <2>1, <2>2
<1>3. CASE PingFrame(f) \/ WindowUpdateFrame(f)
  BY <1>1, <1>3 DEF PingFrame, WindowUpdateFrame, Stays
<1>4. CASE GoawayFrame(f)
  BY <1>4 DEF GoawayFrame, Leave
<1>5. CASE PushPromiseFrame(f)
  BY <1>5, ErrorElsewhere DEF PushPromiseFrame
<1>6. CASE PriorityFrame(f)
  <2>1. i # f.id
    BY <1>6 DEF PriorityFrame
  <2>2. CASE UNCHANGED streams
    BY <1>1, <1>6, <2>2 DEF PriorityFrame, Stays
  <2>3. CASE SetStream(f.id, Stream("Idle", FALSE))
    <3>1. PICK id, s : SetStream(id, s) /\ id = f.id
      BY <2>3
    <3> QED
      BY <1>6, <2>1, <3>1, SetElsewhere DEF PriorityFrame, Stays
  <2> QED
    BY <1>6, <2>2, <2>3 DEF PriorityFrame
<1>7. ASSUME NEW id, id = f.id, i # id, NEW code, StreamError(id, code)
      PROVE  /\ i \in DOMAIN streams' <=> i \in DOMAIN streams
             /\ i \in DOMAIN streams => streams'[i] = streams[i]
             /\ UNCHANGED handed
  BY <1>7, ErrorElsewhere
<1>8. CASE RstStreamFrame(f)
  <2>1. PICK id : id = f.id /\ i # id
    BY <1>8 DEF RstStreamFrame
  <2>2. CASE StreamError(id, "PROTOCOL_ERROR")
    BY <1>7, <2>1, <2>2
  <2>3. CASE ~StreamError(id, "PROTOCOL_ERROR")
    <3>1. PICK s : SetStream(id, s) /\ Stays
      BY <1>8, <2>1, <2>3 DEF RstStreamFrame
    <3> QED
      BY <2>1, <3>1, SetElsewhere DEF Stays
  <2> QED
    BY <2>2, <2>3
<1>9. CASE HeadersFrame(f)
  <2>1. PICK id : id = f.id /\ i # id
    BY <1>9 DEF HeadersFrame
  <2>2. CASE StreamError(id, "PROTOCOL_ERROR")
    BY <1>7, <2>1, <2>2
  <2>3. CASE ~StreamError(id, "PROTOCOL_ERROR")
    <3>1. \/ \E s : SetStream(id, s) /\ Stays
          \/ \E t : Continue(id, t)
      BY <1>9, <2>1, <2>3 DEF HeadersFrame
    <3>2. CASE \E s : SetStream(id, s) /\ Stays
      BY <2>1, <3>2, SetElsewhere DEF Stays
    <3>3. CASE \E t : Continue(id, t)
      BY <2>1, <3>3, ContinueElsewhere
    <3> QED
      BY <3>1, <3>2, <3>3
  <2> QED
    BY <2>2, <2>3
<1>10. CASE ContinuationFrame(f)
  <2>1. PICK id : id = f.id /\ i # id
    BY <1>10 DEF ContinuationFrame
  <2>2. CASE StreamError(id, "PROTOCOL_ERROR")
    BY <1>7, <2>1, <2>2
  <2>3. CASE ~StreamError(id, "PROTOCOL_ERROR")
    <3>1. PICK t : Continue(id, t)
      BY <1>10, <2>1, <2>3 DEF ContinuationFrame
    <3> QED
      BY <2>1, <3>1, ContinueElsewhere
  <2> QED
    BY <2>2, <2>3
<1>11. CASE DataFrame(f)
  <2>1. PICK id : id = f.id /\ i # id
    BY <1>11 DEF DataFrame
  <2>2. CASE \E code : StreamError(id, code)
    BY <1>7, <2>1, <2>2
  <2>3. CASE ~\E code : StreamError(id, code)
    <3>1. \/ \E s : SetStream(id, s) /\ Stays
          \/ \E t : Finish(id, t)
      BY <1>11, <2>1, <2>3 DEF DataFrame
    <3>2. CASE \E s : SetStream(id, s) /\ Stays
      BY <2>1, <3>2, SetElsewhere DEF Stays
    <3>3. CASE \E t : Finish(id, t)
      BY <2>1, <3>3, FinishElsewhere
    <3> QED
      BY <3>1, <3>2, <3>3
  <2> QED
    BY <2>2, <2>3
<1> QED
  BY <1>2, <1>3, <1>4, <1>5, <1>6, <1>8, <1>9, <1>10, <1>11 DEF FrameInLoop

LEMMA ReceiveServed ==
  ASSUME IInv, ServeInv, Receive, phase' # "done", NEW i, i # 0, ~(upgrade /\ i = 1)
  PROVE  StreamServed(streams', received', handed', i)
<1>1. phase \in {"preface", "frames"} /\ Len(received) < MaxFrames
  BY DEF Receive
<1>2. PICK f \in Frames[Len(received) + 1] :
        /\ received' = Append(received, f)
        /\ Refuse(f) \/ RefuseFirst(f) \/ SettingsFrame(f) \/ FrameInLoop(f)
  BY DEF Receive
<1>3. f.payload \in Seq(Nat)
  BY <1>1, <1>2, InvFacts, ArrivalKeeps
<1>4. SettingsFrame(f) \/ FrameInLoop(f)
  BY <1>2 DEF Refuse, RefuseFirst, Leave
<1>5. StreamServed(streams, received, handed, i) /\ IsSequence(received)
  BY <1>1, InvFacts DEF ServeInv, ReceivedOK
<1>6. PICK r, st, ts, h, g : /\ r = received /\ st = streams /\ ts = streams'
                             /\ h = handed /\ g = handed'
  OBVIOUS
<1>7. IsSequence(r) /\ StreamServed(st, r, h, i) /\ received' = Append(r, f)
  BY <1>2, <1>5, <1>6
<1>8. CASE i # f.id \/ f.type = "WINDOW_UPDATE"
  <2>1. Elsewhere(i)
    BY <1>4, <1>8, FrameElsewhere
  <2>2. StreamServed(ts, Append(r, f), g, i)
    BY <1>6, <1>7, <1>8, <2>1, OtherServed DEF Elsewhere
  <2> QED
    BY <1>6, <1>7, <2>2
<1>9. CASE i = f.id /\ f.type # "WINDOW_UPDATE" /\ f.type \notin MessageTypes
  <2>1. StreamServed(ts, Append(r, f), g, i)
    BY <1>7, <1>9, ForeignServed
  <2> QED
    BY <1>6, <1>7, <2>1
<1>10. CASE i = f.id /\ f.type \in MessageTypes
  <2>1. ParseError(f) = "NO_ERROR" /\ (HeadersFrame(f) \/ ContinuationFrame(f) \/ DataFrame(f))
    BY <1>4, <1>10 DEF SettingsFrame, FrameInLoop, PingFrame, GoawayFrame, WindowUpdateFrame,
       PushPromiseFrame, PriorityFrame, RstStreamFrame, MessageTypes, HeaderTypes
  <2>2. ASSUME NEW fs, NEW gs, NEW ks, NEW es, fs = FramesOf(r, i), gs = Append(fs, f),
               PartsOf(gs, ks, es), Simple(gs), Begins(gs, ks, es) \/ Exchange(gs, ks, es)
        PROVE  Serves(ts, g, i, gs, ks, es)
    <3>1. fs = FramesOf(received, i)
      BY <1>6, <2>2
    <3>2. Serves(streams', handed', i, gs, ks, es)
      BY <1>3, <1>5, <1>10, <2>1, <2>2, <3>1, HeaderServed, DataServed
    <3> QED
      BY <1>6, <3>2
  <2>3. f.type # "WINDOW_UPDATE"
    BY <1>10 DEF MessageTypes, HeaderTypes
  <2>4. StreamServed(ts, Append(r, f), g, i)
    BY <1>7, <1>10, <2>2, <2>3, GrownServed
  <2> QED
    BY <1>6, <1>7, <2>4
<1> QED
  BY <1>8, <1>9, <1>10

LEMMA ServeInitially == Init => ServeInv
<1> SUFFICES ASSUME Init, NEW id PROVE StreamServed(streams, received, handed, id)
  BY DEF ServeInv
<1>1. streams = << >> /\ received = << >>
  BY DEF Init
<1>2. DOMAIN << >> = {} /\ Len(<< >>) = 0
  OBVIOUS
<1>3. FramesOf(<< >>, id) = << >>
  BY <1>2, SelectedZero, Zenon DEF FramesOf
<1>4. Part(<< >>, {"HEADERS"}) = << >>
  BY PartNone
<1>5. ~Simple(<< >>)
  BY <1>2, <1>4 DEF Simple
<1> QED
  BY <1>1, <1>2, <1>3, <1>5 DEF StreamServed, Serves

LEMMA ServeNext == IInv /\ ServeInv /\ [Next]_vars => ServeInv'
<1> SUFFICES ASSUME IInv, ServeInv, [Next]_vars, phase' # "done", NEW id,
                    id # 0, ~(upgrade' /\ id = 1)
             PROVE  StreamServed(streams', received', handed', id)
  BY DEF ServeInv
<1>1. UNCHANGED upgrade /\ phase # "done"
  BY ZenonT(60) DEF Next, vars, StartDirect, StartUpgrade, Magic, MagicFails, ReadFails, Leave, Receive,
     Refuse, RefuseFirst, SettingsFrame, FrameInLoop, PingFrame, GoawayFrame, WindowUpdateFrame,
     PushPromiseFrame, PriorityFrame, RstStreamFrame, HeadersFrame, ContinuationFrame, DataFrame,
     Stays, StreamError, Continue, Finish, Respond, RespondNot, PeerLeaves
<1>2. CASE Receive
  BY <1>1, <1>2, ReceiveServed
<1>3. CASE ~Receive
  <2>1. UNCHANGED <<received, streams, handed>>
    BY <1>3 DEF Next, vars, context, StartDirect, StartUpgrade, Magic, MagicFails, ReadFails,
       Leave, Respond, RespondNot, PeerLeaves
  <2> QED
    BY <1>1, <2>1 DEF ServeInv
<1> QED
  BY <1>2, <1>3

-----------------------------------------------------------------------------
(* The chunks of a response are its bytes, in order.                       *)

\* Where the kth chunk of n bytes ends, and the bytes 1 to n.
Edge(n, size, k) == IF k * size < n THEN k * size ELSE n
Bytes(n) == [j \in 1..n |-> j]

\* n bytes are m chunks, and the chunks are c.
IsCount(m, n, size) ==
    /\ m \in Nat /\ (m = 0 <=> n = 0)
    /\ \A k \in 1..m : (k - 1) * size < n
    /\ n <= m * size

AreChunks(c, n, size) ==
    /\ IsSequence(c) /\ (Len(c) = 0 <=> n = 0)
    /\ Edge(n, size, 0) = 0 /\ Edge(n, size, Len(c)) = n
    /\ \A k \in 1..Len(c) :
          /\ Edge(n, size, k - 1) \in Nat /\ Edge(n, size, k) \in Nat
          /\ Edge(n, size, k - 1) <= Edge(n, size, k)
          /\ c[k] = [i \in 1..(Edge(n, size, k) - Edge(n, size, k - 1)) |->
                       Edge(n, size, k - 1) + i]

LEMMA ChunkCount ==
  ASSUME NEW n \in Nat, NEW size \in Nat \ {0}
  PROVE  IsCount((n + size - 1) \div size, n, size)
<1> SUFFICES ASSUME NEW m, m = (n + size - 1) \div size PROVE IsCount(m, n, size)
  OBVIOUS
<1>1. m \in Nat /\ size * m <= n + size - 1 /\ n + size - 1 < size * m + size
  OBVIOUS
<1>2. m * size = size * m /\ m * size \in Int
  BY <1>1
<1>3. n <= m * size
  BY <1>1, <1>2
<1>4. m = 0 => n = 0
  BY <1>3
<1>5. n = 0 => m = 0
  <2> SUFFICES ASSUME n = 0, m # 0 PROVE FALSE
    OBVIOUS
  <2>1. size * 1 <= size * m
    BY <1>1
  <2> QED
    BY <1>1, <1>2, <2>1
<1>6. ASSUME NEW k \in 1..m PROVE (k - 1) * size < n
  <2>1. k * size <= m * size /\ k * size \in Int
    BY <1>1
  <2>2. (k - 1) * size = k * size - size
    OBVIOUS
  <2> QED
    BY <1>1, <1>2, <2>1, <2>2
<1> QED
  BY <1>1, <1>3, <1>4, <1>5, <1>6 DEF IsCount

LEMMA ChunkIs ==
  ASSUME NEW n \in Nat, NEW size \in Nat \ {0}
  PROVE  AreChunks(Chunks(n, size), n, size)
<1> SUFFICES ASSUME NEW c, c = Chunks(n, size) PROVE AreChunks(c, n, size)
  OBVIOUS
<1>1. PICK m : m = (n + size - 1) \div size
  OBVIOUS
<1>2. /\ m \in Nat /\ (m = 0 <=> n = 0)
      /\ \A k \in 1..m : (k - 1) * size < n
      /\ n <= m * size
  <2>1. IsCount(m, n, size)
    BY <1>1, ChunkCount
  <2> QED
    BY <2>1 DEF IsCount
<1>3. c = [k \in 1..m |-> [i \in 1..Min({size, n - (k - 1) * size}) |-> (k - 1) * size + i]]
  BY <1>1 DEF Chunks
<1>4. IsSequence(c) /\ Len(c) = m
  <2>1. c = [k \in 1..m |-> c[k]]
    BY <1>3
  <2> QED
    BY <1>2, <2>1, FunctionIsSequence
<1>5. Edge(n, size, 0) = 0 /\ Edge(n, size, m) = n
  <2>1. 0 * size = 0 /\ m * size \in Int
    BY <1>2
  <2> QED
    BY <1>2, <2>1 DEF Edge
<1>6. ASSUME NEW k \in 1..m
      PROVE  /\ Edge(n, size, k - 1) \in Nat /\ Edge(n, size, k) \in Nat
             /\ Edge(n, size, k - 1) <= Edge(n, size, k)
             /\ c[k] = [i \in 1..(Edge(n, size, k) - Edge(n, size, k - 1)) |->
                           Edge(n, size, k - 1) + i]
  <2>1. PICK a \in Nat : a = (k - 1) * size
    OBVIOUS
  <2>2. a < n /\ k * size = a + size
    BY <1>2, <2>1
  <2>3. Edge(n, size, k - 1) = a
    BY <2>1, <2>2 DEF Edge
  <2>4. PICK e : e = Edge(n, size, k)
    OBVIOUS
  <2>5. e = IF a + size < n THEN a + size ELSE n
    BY <2>2, <2>4 DEF Edge
  <2>6. Min({size, n - a}) = e - a
    <3>1. CASE size <= n - a
      <4>1. Min({size, n - a}) = size
        BY <2>2, <3>1 DEF Min
      <4> QED
        BY <2>2, <2>5, <3>1, <4>1
    <3>2. CASE n - a < size
      <4>1. Min({size, n - a}) = n - a
        BY <2>2, <3>2 DEF Min
      <4> QED
        BY <2>2, <2>5, <3>2, <4>1
    <3> QED
      BY <3>1, <3>2
  <2>7. c[k] = [i \in 1..Min({size, n - a}) |-> a + i]
    BY <1>3, <2>1
  <2>8. PICK l : l = Min({size, n - a})
    OBVIOUS
  <2>9. c[k] = [i \in 1..(e - a) |-> a + i]
    BY <2>6, <2>7, <2>8
  <2> QED
    BY <2>2, <2>3, <2>4, <2>5, <2>9
<1> QED
  BY <1>2, <1>4, <1>5, <1>6 DEF AreChunks

LEMMA BytesJoin ==
  ASSUME NEW a \in Nat, NEW b \in Nat, a <= b
  PROVE  Bytes(a) \o [i \in 1..(b - a) |-> a + i] = Bytes(b)
<1>1. PICK s, t : s = Bytes(a) /\ t = [i \in 1..(b - a) |-> a + i]
  OBVIOUS
<1>2. IsSequence(s) /\ Len(s) = a /\ \A k \in 1..a : s[k] = k
  <2>1. s = [k \in 1..a |-> s[k]]
    BY <1>1 DEF Bytes
  <2> QED
    BY <1>1, <2>1, FunctionIsSequence DEF Bytes
<1>3. IsSequence(t) /\ Len(t) = b - a /\ \A k \in 1..(b - a) : t[k] = a + k
  <2>1. t = [k \in 1..(b - a) |-> t[k]] /\ b - a \in Nat
    BY <1>1
  <2> QED
    BY <1>1, <2>1, FunctionIsSequence
<1>4. /\ IsSequence(s \o t) /\ DOMAIN (s \o t) = 1..(Len(s) + Len(t))
      /\ \A k \in 1..Len(s) : (s \o t)[k] = s[k]
      /\ \A k \in (Len(s) + 1)..(Len(s) + Len(t)) : (s \o t)[k] = t[k - Len(s)]
  BY <1>2, <1>3, ConcatFacts
<1>5. PICK u :
      /\ u = s \o t
      /\ IsSequence(u) /\ DOMAIN u = 1..(Len(s) + Len(t))
      /\ \A k \in 1..Len(s) : u[k] = s[k]
      /\ \A k \in (Len(s) + 1)..(Len(s) + Len(t)) : u[k] = t[k - Len(s)]
  BY <1>4, Zenon
<1>6. DOMAIN u = 1..b
  BY <1>2, <1>3, <1>5
<1>7. ASSUME NEW k \in 1..b PROVE u[k] = k
  <2>1. CASE k <= a
    BY <1>2, <1>5, <2>1
  <2>2. CASE a < k
    <3>1. k - a \in 1..(b - a) /\ k \in (Len(s) + 1)..(Len(s) + Len(t)) /\ k - Len(s) = k - a
      BY <1>2, <1>3, <2>2
    <3>2. u[k] = t[k - Len(s)]
      BY <1>5, <3>1
    <3>3. u[k] = a + (k - a)
      BY <1>3, <3>1, <3>2
    <3> QED
      BY <3>3
  <2> QED
    BY <2>1, <2>2
<1>8. u = [k \in 1..b |-> u[k]]
  <2>1. IsSequence(u)
    BY <1>5
  <2> QED
    BY <1>6, <2>1 DEF IsSequence
<1>9. u = [k \in 1..b |-> k]
  BY <1>7, <1>8
<1> QED
  BY <1>1, <1>5, <1>9 DEF Bytes

LEMMA FlattenedChunks ==
  ASSUME NEW n \in Nat, NEW size \in Nat \ {0}
  PROVE  FlattenSeq(Chunks(n, size)) = Bytes(n)
<1>1. PICK c : c = Chunks(n, size)
  OBVIOUS
<1>2. /\ IsSequence(c) /\ (Len(c) = 0 <=> n = 0)
      /\ Edge(n, size, 0) = 0 /\ Edge(n, size, Len(c)) = n
      /\ \A k \in 1..Len(c) :
           /\ Edge(n, size, k - 1) \in Nat /\ Edge(n, size, k) \in Nat
           /\ Edge(n, size, k - 1) <= Edge(n, size, k)
           /\ c[k] = [i \in 1..(Edge(n, size, k) - Edge(n, size, k - 1)) |->
                        Edge(n, size, k - 1) + i]
  <2>1. AreChunks(c, n, size)
    BY <1>1, ChunkIs
  <2> QED
    BY <2>1 DEF AreChunks
<1>3. Len(c) \in Nat /\ DOMAIN c = 1..Len(c)
  BY <1>2, SequenceFacts
<1>4. CASE n = 0
  <2>1. c = Bytes(0)
    BY <1>2, <1>3, <1>4 DEF Bytes, IsSequence
  <2> QED
    BY <1>1, <1>2, <1>4, <2>1 DEF FlattenSeq
<1>5. CASE n # 0
  <2> DEFINE N == Len(c)
             Is(g) == g = [i \in 1..N |-> IF i = 1 THEN c[i] ELSE g[i - 1] \o c[i]]
             G == [i \in 1..N |-> Bytes(Edge(n, size, i))]
  <2>1. N \in Nat \ {0}
    BY <1>2, <1>3, <1>5
  <2>2. \A i \in 1..N : Bytes(Edge(n, size, i - 1)) \o c[i] = Bytes(Edge(n, size, i))
    <3> TAKE i \in 1..N
    <3>1. PICK a, b : a = Edge(n, size, i - 1) /\ b = Edge(n, size, i)
      OBVIOUS
    <3>2. a \in Nat /\ b \in Nat /\ a <= b /\ c[i] = [j \in 1..(b - a) |-> a + j]
      BY <1>2, <3>1
    <3> QED
      BY <3>1, <3>2, BytesJoin
  <2>3. c[1] = Bytes(Edge(n, size, 1))
    <3>1. 1 \in 1..N /\ 1 - 1 = 0
      BY <2>1
    <3>2. PICK b : b = Edge(n, size, 1)
      OBVIOUS
    <3>3. b \in Nat /\ c[1] = [j \in 1..(b - 0) |-> 0 + j]
      BY <1>2, <3>1, <3>2
    <3>4. c[1] = [j \in 1..b |-> j]
      BY <3>3
    <3> QED
      BY <3>2, <3>4 DEF Bytes
  <2>4. Is(G)
    <3>1. ASSUME NEW i \in 1..N
          PROVE  G[i] = IF i = 1 THEN c[i] ELSE G[i - 1] \o c[i]
      <4>1. CASE i = 1
        BY <2>3, <4>1
      <4>2. CASE i # 1
        <5>1. i - 1 \in 1..N
          BY <4>2
        <5> QED
          BY <2>2, <4>2, <5>1
      <4> QED
        BY <4>1, <4>2
    <3>2. G = [i \in 1..N |-> G[i]]
      OBVIOUS
    <3> HIDE DEF G
    <3> QED
      BY <3>1, <3>2
  <2>5. FlattenSeq(c) = (CHOOSE g : Is(g))[N]
    BY <2>1 DEF FlattenSeq
  <2>6. PICK g : Is(g) /\ FlattenSeq(c) = g[N]
    <3> HIDE DEF Is, G
    <3> QED
      BY <2>4, <2>5
  <2> DEFINE A == {k \in 0..N : k = 0 \/ g[k] = Bytes(Edge(n, size, k))}
  <2>7. 0 \in A
    BY <2>1
  <2>8. ASSUME NEW k \in 0..(N - 1), k \in A PROVE k + 1 \in A
    <3>1. k + 1 \in 1..N /\ k + 1 \in 0..N /\ (k + 1) - 1 = k
      BY <2>1
    <3>2. g[k + 1] = IF k + 1 = 1 THEN c[k + 1] ELSE g[k] \o c[k + 1]
      BY <2>6, <3>1
    <3>3. CASE k = 0
      BY <2>3, <3>1, <3>2, <3>3
    <3>4. CASE k # 0
      <4>1. g[k] = Bytes(Edge(n, size, k))
        BY <2>8, <3>4
      <4>2. Bytes(Edge(n, size, k)) \o c[k + 1] = Bytes(Edge(n, size, k + 1))
        BY <2>2, <3>1
      <4> QED
        BY <3>1, <3>2, <3>4, <4>1, <4>2
    <3> QED
      BY <3>3, <3>4
  <2> HIDE DEF A
  <2>9. N \in A
    <3>1. \A k \in 0..N : k \in A
      BY <2>1, <2>7, <2>8, LoopInduction
    <3> QED
      BY <2>1, <3>1
  <2>10. g[N] = Bytes(Edge(n, size, N))
    BY <2>1, <2>9 DEF A
  <2> QED
    BY <1>1, <1>2, <2>6, <2>10
<1> QED
  BY <1>4, <1>5

\* One more element of a beginning.
LEMMA PrefixNext ==
  ASSUME NEW t, IsSequence(t), NEW k \in 0..(Len(t) - 1)
  PROVE  Append(SubSeq(t, 1, k), t[k + 1]) = SubSeq(t, 1, k + 1)
<1>1. PICK S : t \in Seq(S)
  BY DEF IsSequence
<1> QED
  BY <1>1

LEMMA PrefixWhole ==
  ASSUME NEW t, IsSequence(t)
  PROVE  SubSeq(t, 1, Len(t)) = t /\ SubSeq(t, 1, 0) = << >>
<1>1. PICK S : t \in Seq(S)
  BY DEF IsSequence
<1> QED
  BY <1>1

\* Places that are all there is after the first n.
TailSelected(n, P, v, t) ==
    /\ \A k \in 1..n : k \notin P
    /\ \A k \in 1..Len(t) : n + k \in P /\ v[n + k] = t[k]

LEMMA SelectedTail ==
  ASSUME NEW n \in Nat, NEW P, NEW v, NEW t, IsSequence(t), TailSelected(n, P, v, t)
  PROVE  Selected(n + Len(t), P, v) = t
<1>1. PICK m \in Nat : m = Len(t)
  BY SequenceFacts
<1> DEFINE A == {k \in 0..m : Selected(n + k, P, v) = SubSeq(t, 1, k)}
<1>2. 0 \in A
  <2>1. Selected(n, P, v) = Selected(0, P, v)
    <3>1. \A k \in (0 + 1)..n : k \notin P
      BY DEF TailSelected
    <3>2. 0 \in Nat /\ 0 <= n
      OBVIOUS
    <3> QED
      BY <3>1, <3>2, SelectedBeyond
  <2>2. Selected(n, P, v) = SubSeq(t, 1, 0)
    BY <2>1, SelectedZero, PrefixWhole
  <2>3. n + 0 = n /\ 0 \in 0..m
    OBVIOUS
  <2> QED
    BY <2>2, <2>3, Zenon
<1>3. ASSUME NEW k \in 0..(m - 1), k \in A PROVE k + 1 \in A
  <2>1. PICK j \in Nat : j = n + k
    OBVIOUS
  <2>2. j + 1 = n + (k + 1) /\ k + 1 \in 0..m /\ k + 1 \in 1..m
    BY <2>1
  <2>3. j + 1 \in P /\ v[j + 1] = t[k + 1]
    BY <1>1, <2>2 DEF TailSelected
  <2>4. Selected(j + 1, P, v) = Append(Selected(j, P, v), v[j + 1])
    BY <2>3, SelectedNext, Zenon
  <2>5. Selected(j, P, v) = SubSeq(t, 1, k)
    BY <1>3, <2>1
  <2>6. Append(SubSeq(t, 1, k), t[k + 1]) = SubSeq(t, 1, k + 1)
    BY <1>1, PrefixNext
  <2>7. Selected(n + (k + 1), P, v) = SubSeq(t, 1, k + 1)
    BY <2>2, <2>3, <2>4, <2>5, <2>6, Zenon
  <2> QED
    BY <2>2, <2>7
<1> HIDE DEF A
<1>4. m \in A
  <2>1. \A k \in 0..m : k \in A
    BY <1>2, <1>3, LoopInduction
  <2> QED
    BY <2>1
<1> QED
  BY <1>1, <1>4, PrefixWhole DEF A

-----------------------------------------------------------------------------
(* The frames of a response.                                               *)

\* h and d are the header and the data frames of the response r on stream id.
AreFrames(h, d, id, r) ==
    /\ IsSequence(h) /\ IsSequence(d)
    /\ h # << >> /\ h[1].type = "HEADERS"
    /\ \A k \in DOMAIN h :
          /\ h[k].type \in HeaderTypes /\ h[k].id = id
          /\ EndsHeaders(h[k]) <=> k = Len(h)
          /\ Ends(h[k]) <=> k = 1 /\ r.null
    /\ \A k \in DOMAIN d :
          /\ d[k].type = "DATA" /\ d[k].id = id
          /\ Ends(d[k]) <=> k = Len(d)
    /\ d = << >> <=> r.body = 0
    /\ FlattenSeq(Blocks(h)) = Bytes(r.headers)
    /\ FlattenSeq(Blocks(d)) = Bytes(r.body)

\* Without padding and priority a frame carries its payload.
LEMMA PayloadCarried ==
  ASSUME NEW f, IsSequence(f.payload), "PADDED" \notin f.flags, "PRIORITY" \notin f.flags
  PROVE  Carried(f) = f.payload
<1>1. Len(f.payload) \in Nat
  BY SequenceFacts
<1>2. Carried(f) = SubSeq(f.payload, 1, Len(f.payload))
  <2>1. Carried(f) = SubSeq(f.payload, (0 + 0) + 1, Len(f.payload) - 0)
    BY DEF Carried
  <2> QED
    BY <1>1, <2>1
<1> QED
  BY <1>2, PrefixWhole

\* The frames fs carry the chunks c.
CarriesChunks(fs, c) ==
    /\ DOMAIN fs = DOMAIN c
    /\ \A k \in DOMAIN c : /\ fs[k].payload = c[k]
                           /\ "PADDED" \notin fs[k].flags /\ "PRIORITY" \notin fs[k].flags

LEMMA ChunksCarried ==
  ASSUME NEW n \in Nat, NEW size \in Nat \ {0}, NEW fs, CarriesChunks(fs, Chunks(n, size))
  PROVE  /\ DOMAIN fs = 1..Len(Chunks(n, size)) /\ Len(Chunks(n, size)) \in Nat
         /\ (Len(Chunks(n, size)) = 0 <=> n = 0)
         /\ FlattenSeq(Blocks(fs)) = Bytes(n)
<1>1. PICK c : c = Chunks(n, size)
  OBVIOUS
<1>2. AreChunks(c, n, size)
  BY <1>1, ChunkIs
<1>3. IsSequence(c) /\ (Len(c) = 0 <=> n = 0)
  BY <1>2 DEF AreChunks
<1>4. Len(c) \in Nat /\ DOMAIN c = 1..Len(c) /\ c = [k \in 1..Len(c) |-> c[k]]
  BY <1>3 DEF IsSequence
<1>5. \A k \in 1..Len(c) : IsSequence(c[k])
  <2> TAKE k \in 1..Len(c)
  <2>1. PICK a, b : a = Edge(n, size, k - 1) /\ b = Edge(n, size, k)
    OBVIOUS
  <2>2. a \in Nat /\ b \in Nat /\ a <= b /\ c[k] = [i \in 1..(b - a) |-> a + i]
    BY <1>2, <2>1 DEF AreChunks
  <2>3. b - a \in Nat /\ c[k] = [i \in 1..(b - a) |-> c[k][i]]
    BY <2>2
  <2> QED
    BY <2>3, FunctionIsSequence
<1>6. /\ DOMAIN fs = 1..Len(c)
      /\ \A k \in 1..Len(c) : /\ fs[k].payload = c[k]
                              /\ "PADDED" \notin fs[k].flags /\ "PRIORITY" \notin fs[k].flags
  <2>1. CarriesChunks(fs, c)
    BY <1>1
  <2> QED
    BY <1>4, <2>1 DEF CarriesChunks
<1>7. \A k \in 1..Len(c) : Carried(fs[k]) = c[k]
  <2> TAKE k \in 1..Len(c)
  <2>1. PICK f : f = fs[k]
    OBVIOUS
  <2>2. f.payload = c[k] /\ "PADDED" \notin f.flags /\ "PRIORITY" \notin f.flags /\ IsSequence(f.payload)
    BY <1>5, <1>6, <2>1
  <2> QED
    BY <2>1, <2>2, PayloadCarried
<1>8. Blocks(fs) = c
  <2>1. Blocks(fs) = [k \in 1..Len(c) |-> Carried(fs[k])]
    BY <1>6 DEF Blocks
  <2> QED
    BY <1>4, <1>7, <2>1
<1> QED
  BY <1>1, <1>3, <1>4, <1>6, <1>8, FlattenedChunks

LEMMA FramesAre ==
  ASSUME SettingsOK(settings), NEW id, NEW r \in Responses
  PROVE  AreFrames(HeaderFrames(id, r), DataFrames(id, r), id, r)
<1> DEFINE hc == Chunks(r.headers, HeaderLimit(settings))
           dc == Chunks(r.body, DataLimit(settings))
<1>1. HeaderLimit(settings) \in Nat \ {0} /\ DataLimit(settings) \in Nat \ {0}
  BY Http2Assumption DEF SettingsOK, Limits, HeaderLimit, DataLimit,
     AdditionalHeadersDataSize
<1>2. r.headers \in Nat \ {0} /\ r.body \in Nat
  BY Http2Assumption
<1>3. PICK h, d : h = HeaderFrames(id, r) /\ d = DataFrames(id, r)
  OBVIOUS
<1>4. h = [k \in DOMAIN hc |->
            [type |-> IF k = 1 THEN "HEADERS" ELSE "CONTINUATION", id |-> id,
             flags |-> Flag("END_HEADERS", k = Len(hc)) \cup
                       Flag("END_STREAM", k = 1 /\ r.null),
             length |-> HeaderLength(Len(hc[k])), payload |-> hc[k]]]
  BY <1>3 DEF HeaderFrames
<1>5. d = [k \in DOMAIN dc |->
            [type |-> "DATA", id |-> id,
             flags |-> Flag("END_STREAM", k = Len(dc)),
             length |-> HeaderLength(Len(dc[k])), payload |-> dc[k]]]
  BY <1>3 DEF DataFrames
<1>6. IsSequence(h) /\ IsSequence(d)
  BY <1>3, ResponseFrames
<1> HIDE DEF hc, dc
<1>7. DOMAIN h = DOMAIN hc /\ \A k \in DOMAIN hc :
        /\ h[k].id = id /\ h[k].payload = hc[k]
        /\ h[k].type = IF k = 1 THEN "HEADERS" ELSE "CONTINUATION"
        /\ h[k].flags = Flag("END_HEADERS", k = Len(hc)) \cup
                        Flag("END_STREAM", k = 1 /\ r.null)
  BY <1>4
<1>8. DOMAIN d = DOMAIN dc /\ \A k \in DOMAIN dc :
        /\ d[k].id = id /\ d[k].payload = dc[k] /\ d[k].type = "DATA"
        /\ d[k].flags = Flag("END_STREAM", k = Len(dc))
  BY <1>5
<1>9. \A k \in DOMAIN hc :
        /\ "PADDED" \notin h[k].flags /\ "PRIORITY" \notin h[k].flags
        /\ EndsHeaders(h[k]) <=> k = Len(hc)
        /\ Ends(h[k]) <=> k = 1 /\ r.null
  BY <1>7 DEF Flag, Ends, EndsHeaders
<1>10. \A k \in DOMAIN dc :
        /\ "PADDED" \notin d[k].flags /\ "PRIORITY" \notin d[k].flags
        /\ Ends(d[k]) <=> k = Len(dc)
  BY <1>8 DEF Flag, Ends
<1>11. /\ DOMAIN h = 1..Len(hc) /\ Len(hc) \in Nat /\ Len(hc) # 0
       /\ FlattenSeq(Blocks(h)) = Bytes(r.headers)
  <2>1. CarriesChunks(h, hc)
    BY <1>7, <1>9 DEF CarriesChunks
  <2> QED
    BY <1>1, <1>2, <2>1, ChunksCarried DEF hc
<1>12. /\ DOMAIN d = 1..Len(dc) /\ Len(dc) \in Nat /\ (Len(dc) = 0 <=> r.body = 0)
       /\ FlattenSeq(Blocks(d)) = Bytes(r.body)
  <2>1. CarriesChunks(d, dc)
    BY <1>8, <1>10 DEF CarriesChunks
  <2> QED
    BY <1>1, <1>2, <2>1, ChunksCarried DEF dc
<1>13. Len(h) = Len(hc) /\ Len(d) = Len(dc)
  <2>1. Len(h) \in Nat /\ DOMAIN h = 1..Len(h) /\ Len(d) \in Nat /\ DOMAIN d = 1..Len(d)
    BY <1>6, SequenceFacts
  <2> QED
    BY <1>11, <1>12, <2>1
<1>14. h # << >> /\ 1 \in DOMAIN h /\ (d = << >> <=> r.body = 0)
  BY <1>6, <1>11, <1>12, <1>13, SequenceEmpty
<1>15. AreFrames(h, d, id, r)
  BY <1>6, <1>7, <1>8, <1>9, <1>10, <1>11, <1>12, <1>13, <1>14 DEF AreFrames, HeaderTypes
<1> QED
  BY <1>3, <1>15

\* Header frames and then data frames, by their types.
LEMMA PartsOfFrames ==
  ASSUME NEW h, NEW d, NEW id, NEW r, AreFrames(h, d, id, r)
  PROVE  Part(h \o d, HeaderTypes) = h /\ Part(h \o d, {"DATA"}) = d
<1>1. /\ IsSequence(h) /\ IsSequence(d)
      /\ \A k \in DOMAIN h : h[k].type \in HeaderTypes
      /\ \A k \in DOMAIN d : d[k].type = "DATA"
  BY DEF AreFrames
<1>2. PICK n \in Nat, m \in Nat : n = Len(h) /\ m = Len(d) /\ DOMAIN h = 1..n /\ DOMAIN d = 1..m
  BY <1>1, SequenceFacts
<1>3. /\ Len(h \o d) = n + m /\ DOMAIN (h \o d) = 1..(n + m)
      /\ \A k \in 1..n : (h \o d)[k] = h[k]
      /\ \A k \in (n + 1)..(n + m) : (h \o d)[k] = d[k - n]
  BY <1>1, <1>2, ConcatFacts
<1>4. PICK fs : /\ fs = h \o d /\ Len(fs) = n + m /\ DOMAIN fs = 1..(n + m)
                /\ \A k \in 1..n : fs[k] = h[k]
                /\ \A k \in (n + 1)..(n + m) : fs[k] = d[k - n]
  BY <1>3, Zenon
<1>5. \A k \in 1..m : fs[n + k] = d[k]
  <2> TAKE k \in 1..m
  <2>1. n + k \in (n + 1)..(n + m) /\ (n + k) - n = k
    OBVIOUS
  <2>2. fs[n + k] = d[(n + k) - n]
    BY <1>4, <2>1
  <2> QED
    BY <2>1, <2>2
<1> DEFINE P(types) == {k \in DOMAIN fs : fs[k].type \in types}
<1>6. \A types : Part(fs, types) = Selected(n + m, P(types), fs)
  BY <1>4 DEF Part
<1>7. \A k \in 1..n : k \in P(HeaderTypes) /\ k \notin P({"DATA"}) /\ fs[k] = h[k]
  BY <1>1, <1>2, <1>4 DEF HeaderTypes
<1>8. \A k \in 1..m : /\ n + k \in P({"DATA"}) /\ n + k \notin P(HeaderTypes)
                      /\ fs[n + k] = d[k]
  BY <1>1, <1>2, <1>4, <1>5 DEF HeaderTypes
<1> HIDE DEF P
<1>9. Selected(n + m, P({"DATA"}), fs) = d
  <2>1. TailSelected(n, P({"DATA"}), fs, d)
    BY <1>2, <1>7, <1>8 DEF TailSelected
  <2> QED
    BY <1>1, <1>2, <2>1, SelectedTail
<1>10. Selected(n + m, P(HeaderTypes), fs) = h
  <2>1. \A k \in (n + 1)..(n + m) : k \notin P(HeaderTypes)
    <3> TAKE k \in (n + 1)..(n + m)
    <3>1. k - n \in 1..m /\ n + (k - n) = k
      OBVIOUS
    <3>2. n + (k - n) \notin P(HeaderTypes)
      BY <1>8, <3>1
    <3> QED
      BY <3>1, <3>2
  <2>2. n + m \in Nat /\ n <= n + m
    OBVIOUS
  <2>3. Selected(n + m, P(HeaderTypes), fs) = Selected(n, P(HeaderTypes), fs)
    BY <2>1, <2>2, SelectedBeyond
  <2>4. TailSelected(0, P(HeaderTypes), fs, h)
    BY <1>2, <1>7 DEF TailSelected
  <2>5. Selected(0 + Len(h), P(HeaderTypes), fs) = h
    BY <1>1, <2>4, SelectedTail
  <2>6. 0 + Len(h) = n
    BY <1>2
  <2> QED
    BY <2>3, <2>5, <2>6
<1> QED
  BY <1>4, <1>6, <1>9, <1>10, Zenon

\* What is sent for a stream.
SentPlaces(s, id) == {j \in DOMAIN s : s[j].type \in MessageTypes /\ s[j].id = id}
SentOf(s, id) == Selected(Len(s), SentPlaces(s, id), s)

\* t is s and frames that are no message of the stream.
Beside(s, t, id) ==
    /\ IsSequence(s) /\ IsSequence(t)
    /\ \A k \in DOMAIN s : k \in DOMAIN t /\ t[k] = s[k]
    /\ \A k \in DOMAIN t : k \in DOMAIN s \/ t[k].type \notin MessageTypes \/ t[k].id # id

LEMMA SentKept ==
  ASSUME NEW s, NEW t, NEW id, Beside(s, t, id)
  PROVE  SentOf(t, id) = SentOf(s, id)
<1>1. PICK n \in Nat, m \in Nat : n = Len(s) /\ m = Len(t) /\ DOMAIN s = 1..n /\ DOMAIN t = 1..m
  BY SequenceFacts DEF Beside
<1>2. n <= m
  <2>1. n = 0 \/ n \in 1..n
    OBVIOUS
  <2>2. n \in 1..n => n \in 1..m
    BY <1>1 DEF Beside
  <2> QED
    BY <2>1, <2>2
<1>3. \A k \in 1..n : /\ k \in SentPlaces(t, id) <=> k \in SentPlaces(s, id)
                      /\ k \in SentPlaces(t, id) => t[k] = s[k]
  BY <1>1 DEF Beside, SentPlaces
<1>4. \A k \in (n + 1)..m : k \notin SentPlaces(t, id)
  BY <1>1 DEF Beside, SentPlaces
<1>5. Selected(m, SentPlaces(t, id), t) = Selected(n, SentPlaces(t, id), t)
  BY <1>2, <1>4, SelectedBeyond
<1>6. Selected(n, SentPlaces(t, id), t) = Selected(n, SentPlaces(s, id), s)
  BY <1>3, SelectedAgree
<1> QED
  BY <1>1, <1>5, <1>6 DEF SentOf

LEMMA SentNew ==
  ASSUME NEW s, NEW all, NEW id, IsSequence(s), IsSequence(all),
         \A k \in DOMAIN s : s[k].type \notin MessageTypes \/ s[k].id # id,
         \A k \in DOMAIN all : all[k].type \in MessageTypes /\ all[k].id = id
  PROVE  SentOf(s \o all, id) = all
<1>1. PICK n \in Nat, m \in Nat :
         n = Len(s) /\ m = Len(all) /\ DOMAIN s = 1..n /\ DOMAIN all = 1..m
  BY SequenceFacts
<1>2. /\ Len(s \o all) = n + m /\ DOMAIN (s \o all) = 1..(n + m)
      /\ \A k \in 1..n : (s \o all)[k] = s[k]
      /\ \A k \in (n + 1)..(n + m) : (s \o all)[k] = all[k - n]
  BY <1>1, ConcatFacts
<1>3. PICK t : /\ t = s \o all /\ Len(t) = n + m /\ DOMAIN t = 1..(n + m)
               /\ \A k \in 1..n : t[k] = s[k]
               /\ \A k \in (n + 1)..(n + m) : t[k] = all[k - n]
  BY <1>2, Zenon
<1>4. \A k \in 1..m : n + k \in DOMAIN t /\ t[n + k] = all[k]
  <2> TAKE k \in 1..m
  <2>1. n + k \in (n + 1)..(n + m) /\ n + k \in 1..(n + m) /\ (n + k) - n = k
    OBVIOUS
  <2>2. t[n + k] = all[(n + k) - n]
    BY <1>3, <2>1
  <2> QED
    BY <1>3, <2>1, <2>2
<1>5. TailSelected(n, SentPlaces(t, id), t, all)
  <2>1. \A k \in 1..n : k \notin SentPlaces(t, id)
    BY <1>1, <1>3 DEF SentPlaces
  <2>2. \A k \in 1..m : n + k \in SentPlaces(t, id) /\ t[n + k] = all[k]
    BY <1>1, <1>4 DEF SentPlaces
  <2> QED
    BY <1>1, <2>1, <2>2 DEF TailSelected
<1>6. Selected(n + Len(all), SentPlaces(t, id), t) = all
  BY <1>5, SelectedTail
<1> QED
  BY <1>1, <1>3, <1>6 DEF SentOf

-----------------------------------------------------------------------------
(* A whole answer is what was sent for its stream.                         *)

AnswerSent(s, a) ==
    /\ a.response \in Responses
    /\ a.whole => \E h, d : AreFrames(h, d, a.id, a.response) /\ SentOf(s, a.id) = h \o d

ResInv == \A k \in DOMAIN answers : AnswerSent(sent, answers[k])

\* Only the frames of responses are messages.
LEMMA OnlyControl ==
  ASSUME IInv, [Next]_vars, ~Respond
  PROVE  UNCHANGED answers /\ SendsControl
<1> USE InvFacts
<1> DEFINE Done == UNCHANGED answers /\ SendsControl
<1>1. ASSUME UNCHANGED <<sent, answers>> PROVE Done
  BY <1>1, ControlFrames
<1>2. ASSUME UNCHANGED answers, Send(<<ServerPreface>>) PROVE Done
  BY <1>2, ControlFrames DEF ServerPreface
<1>3. ASSUME NEW code, NEW e \in AnyError, Leave(<<Goaway(code), e>>) PROVE Done
  <2>1. /\ phase' = "done" /\ UNCHANGED <<last_stream_id, answers>>
        /\ Send(<<Goaway(code), e>>)
    BY <1>3 DEF Leave, context
  <2> QED
    BY <2>1, ControlFrames
<1>4. ASSUME NEW code, Leave(<<ServerPreface, Goaway(code), ErrorPage>>) PROVE Done
  <2>1. /\ phase' = "done" /\ UNCHANGED <<last_stream_id, answers>>
        /\ Send(<<ServerPreface, Goaway(code), ErrorPage>>)
    BY <1>4 DEF Leave, context
  <2>2. ErrorPage \in AnyError
    BY DEF AnyError
  <2> QED
    BY <2>1, <2>2, ControlFrames
<1>5. ASSUME (\E e \in AnyError : Leave(<<e>>)) \/ Leave(<< >>) PROVE Done
  <2>1. /\ phase' = "done" /\ UNCHANGED <<last_stream_id, answers>>
        /\ (\E e \in AnyError : Send(<<e>>)) \/ Send(<< >>)
    BY <1>5 DEF Leave, context
  <2> QED
    BY <2>1, ControlFrames
<1>6. ASSUME Stays, UNCHANGED sent \/ \E id, code : Send(<<Rst(id, code)>>) PROVE Done
  BY <1>6, ControlFrames DEF Stays, Rst
<1>7. ASSUME NEW id, NEW code, StreamError(id, code) PROVE Done
  BY <1>6, <1>7 DEF StreamError
<1>8. ASSUME NEW id, NEW s, Finish(id, s) PROVE Done
  BY <1>8, ControlFrames DEF Finish
<1>9. ASSUME NEW id, NEW s, Continue(id, s) PROVE Done
  BY <1>6, <1>8, <1>9 DEF Continue
<1> SUFFICES Done
  OBVIOUS
<1> HIDE DEF Done
<1>10. CASE StartDirect \/ StartUpgrade
  BY <1>2, <1>4, <1>10 DEF StartDirect, StartUpgrade
<1>11. CASE Magic \/ RespondNot \/ PeerLeaves \/ UNCHANGED vars
  BY <1>1, <1>11 DEF Magic, RespondNot, PeerLeaves, vars
<1>12. CASE MagicFails \/ ReadFails
  <2>1. \/ \E e \in AnyError : Leave(<<e>>)
        \/ \E e \in AnyError : Leave(<<Goaway("INTERNAL_ERROR"), e>>)
    BY <1>12, ErrorsAre DEF MagicFails, ReadFails
  <2> QED
    BY <1>3, <1>5, <2>1
<1>13. CASE Receive
  <2>1. PICK f : Refuse(f) \/ RefuseFirst(f) \/ SettingsFrame(f) \/ FrameInLoop(f)
    BY <1>13 DEF Receive
  <2>2. CASE Refuse(f) \/ RefuseFirst(f)
    <3>1. \/ \E e \in AnyError : Leave(<<e>>)
          \/ \E e \in AnyError : Leave(<<Goaway(ParseError(f)), e>>)
      BY <2>2, ErrorsAre DEF Refuse, RefuseFirst
    <3> QED
      BY <1>3, <1>5, <3>1
  <2>3. CASE SettingsFrame(f)
    <3>1. UNCHANGED answers /\ (UNCHANGED sent \/ Send(<<ControlFrame("SETTINGS", 0, << >>)>>))
      BY <2>3 DEF SettingsFrame, SettingsAck
    <3> QED
      BY <3>1, ControlFrames DEF Done
  <2>4. CASE PingFrame(f)
    <3>1. UNCHANGED answers /\ (Send(<< >>) \/ Send(<<ControlFrame("PING", 0, f.payload)>>))
      BY <2>4 DEF PingFrame, Stays
    <3> QED
      BY <3>1, ControlFrames DEF Done
  <2>5. CASE GoawayFrame(f)
    BY <1>5, <2>5 DEF GoawayFrame
  <2>6. CASE WindowUpdateFrame(f) \/ PriorityFrame(f)
    BY <1>6, <2>6 DEF WindowUpdateFrame, PriorityFrame
  <2>7. CASE PushPromiseFrame(f) \/ RstStreamFrame(f)
    BY <1>6, <1>7, <2>7 DEF PushPromiseFrame, RstStreamFrame
  <2>8. CASE HeadersFrame(f)
    BY <1>6, <1>7, <1>9, <2>8 DEF HeadersFrame
  <2>9. CASE ContinuationFrame(f)
    BY <1>7, <1>9, <2>9 DEF ContinuationFrame
  <2>10. CASE DataFrame(f)
    BY <1>6, <1>7, <1>8, <2>10 DEF DataFrame
  <2> QED
    BY <2>1, <2>2, <2>3, <2>4, <2>5, <2>6, <2>7, <2>8, <2>9, <2>10 DEF FrameInLoop
<1> QED
  BY <1>10, <1>11, <1>12, <1>13 DEF Next

\* What is being answered has no answer.
LEMMA NoAnswerYet ==
  ASSUME IInv, phase = "respond"
  PROVE  \A k \in DOMAIN answers : answers[k].id # request
<1>1. PICK n : n = Len(handed)
  OBVIOUS
<1>2. n \in Nat /\ DOMAIN handed = 1..n
  BY <1>1, InvFacts
<1>3. n > 0 /\ request = handed[n].id
  BY <1>1 DEF IInv, AnswersInv
<1>4. \A k \in DOMAIN answers : \E j \in 1..(n - 1) : answers[k].id = handed[j].id
  BY <1>1 DEF IInv, AnswersInv, Served
<1>5. \A j \in 1..(n - 1) : j \in 1..n /\ j # n
  BY <1>2
<1>6. n \in 1..n
  BY <1>2, <1>3
<1>7. \A i, j \in 1..n : handed[i].id = handed[j].id => i = j
  BY <1>2 DEF IInv, StreamsInv, OneRequestPerStream
<1> QED
  BY <1>3, <1>4, <1>5, <1>6, <1>7, Zenon

LEMMA RespondSent ==
  ASSUME IInv, ResInv, Respond
  PROVE  ResInv'
<1> USE InvFacts
<1>1. PICK r \in Responses :
        LET all == HeaderFrames(request, r) \o DataFrames(request, r) IN
        \E n \in 0..Len(all) :
          /\ sent' = sent \o SubSeq(all, 1, n)
          /\ answers' = Append(answers,
                [id |-> request, response |-> r, whole |-> n = Len(all),
                 limit |-> settings.max_frame_size])
  BY DEF Respond
<1>2. PICK h, d, id : h = HeaderFrames(request, r) /\ d = DataFrames(request, r) /\ id = request
  OBVIOUS
<1>3. PICK all : all = h \o d
  OBVIOUS
<1>4. PICK n \in 0..Len(all) :
          /\ sent' = sent \o SubSeq(all, 1, n)
          /\ answers' = Append(answers,
                [id |-> id, response |-> r, whole |-> n = Len(all),
                 limit |-> settings.max_frame_size])
  BY <1>1, <1>2, <1>3
<1>5. PICK a : /\ answers' = Append(answers, a)
               /\ a.id = id /\ a.response = r /\ a.whole = (n = Len(all))
  <2>1. PICK a : /\ answers' = Append(answers, a)
                 /\ a = [id |-> id, response |-> r, whole |-> n = Len(all),
                         limit |-> settings.max_frame_size]
    BY <1>4, Zenon
  <2>2. a.id = id /\ a.response = r
    BY <2>1
  <2>3. a.whole = (n = Len(all))
    BY <2>1, Zenon
  <2> QED
    BY <2>1, <2>2, <2>3, Zenon
<1>6. AreFrames(h, d, id, r)
  BY <1>2, FramesAre
<1>7. IsSequence(all) /\ \A k \in DOMAIN all : all[k].type \in MessageTypes /\ all[k].id = id
  <2>1. /\ IsSequence(h) /\ IsSequence(d)
        /\ \A k \in DOMAIN h : h[k].type \in MessageTypes /\ h[k].id = id
        /\ \A k \in DOMAIN d : d[k].type \in MessageTypes /\ d[k].id = id
    BY <1>6 DEF AreFrames, MessageTypes
  <2>2. /\ Len(h) \in Nat /\ DOMAIN h = 1..Len(h)
        /\ Len(d) \in Nat /\ DOMAIN d = 1..Len(d)
    BY <2>1, SequenceFacts
  <2>3. /\ IsSequence(h \o d) /\ DOMAIN (h \o d) = 1..(Len(h) + Len(d))
        /\ \A k \in 1..Len(h) : (h \o d)[k] = h[k]
        /\ \A k \in (Len(h) + 1)..(Len(h) + Len(d)) : (h \o d)[k] = d[k - Len(h)]
    BY <2>1, ConcatFacts
  <2>4. ASSUME NEW k \in DOMAIN (h \o d)
        PROVE  (h \o d)[k].type \in MessageTypes /\ (h \o d)[k].id = id
    <3>1. k \in 1..Len(h) \/ (k \in (Len(h) + 1)..(Len(h) + Len(d)) /\ k - Len(h) \in 1..Len(d))
      BY <2>2, <2>3
    <3> QED
      BY <2>1, <2>2, <2>3, <3>1
  <2> QED
    BY <1>3, <2>3, <2>4
<1>8. \A k \in DOMAIN sent : sent[k].type \notin MessageTypes \/ sent[k].id # id
  <2> SUFFICES ASSUME NEW k \in DOMAIN sent, sent[k].type \in MessageTypes, sent[k].id = id
               PROVE  FALSE
    OBVIOUS
  <2>1. PICK j \in DOMAIN answers : answers[j].id = id
    BY DEF IInv, FramesInv
  <2>2. phase = "respond"
    BY DEF Respond
  <2> QED
    BY <1>2, <2>1, <2>2, NoAnswerYet
<1>9. /\ Len(answers') = Len(answers) + 1 /\ DOMAIN answers' = 1..(Len(answers) + 1)
      /\ \A k \in 1..Len(answers) : answers'[k] = answers[k]
      /\ answers'[Len(answers) + 1] = a
  BY <1>5, AppendFacts
<1>10. AnswerSent(sent', a)
  <2> SUFFICES ASSUME n = Len(all) PROVE SentOf(sent', id) = all
    BY <1>3, <1>5, <1>6 DEF AnswerSent
  <2>1. sent' = sent \o all
    BY <1>4, <1>7, PrefixWhole
  <2> QED
    BY <1>7, <1>8, <2>1, SentNew
<1>11. ASSUME NEW k \in 1..Len(answers) PROVE AnswerSent(sent', answers[k])
  <2>1. AnswerSent(sent, answers[k])
    BY DEF ResInv
  <2>2. answers[k].id # id
    BY <1>2, NoAnswerYet DEF Respond
  <2>3. PICK b : b = answers[k]
    OBVIOUS
  <2>4. PICK p : p = SubSeq(all, 1, n)
    OBVIOUS
  <2>5. IsSequence(p) /\ DOMAIN p = 1..n /\ \A i \in 1..n : p[i].id = id
    <3>1. /\ IsSequence(SubSeq(all, 1, n)) /\ DOMAIN SubSeq(all, 1, n) = 1..n
          /\ \A i \in 1..n : SubSeq(all, 1, n)[i] = all[i]
      BY <1>7, PrefixFacts
    <3>2. Len(all) \in Nat /\ DOMAIN all = 1..Len(all)
      BY <1>7, SequenceFacts
    <3>3. \A i \in 1..n : i \in DOMAIN all
      BY <3>2
    <3> QED
      BY <1>7, <2>4, <3>1, <3>3
  <2>6. Beside(sent, sent', b.id)
    <3>1. /\ IsSequence(sent \o p) /\ DOMAIN (sent \o p) = 1..(Len(sent) + Len(p))
          /\ \A i \in 1..Len(sent) : (sent \o p)[i] = sent[i]
          /\ \A i \in (Len(sent) + 1)..(Len(sent) + Len(p)) :
                (sent \o p)[i] = p[i - Len(sent)]
      BY <2>5, ConcatFacts
    <3>2. Len(p) = n
      BY <2>5, SequenceFacts
    <3>3. sent' = sent \o p
      BY <1>4, <2>4
    <3>4. /\ IsSequence(sent') /\ DOMAIN sent' = 1..(Len(sent) + n)
          /\ \A i \in 1..Len(sent) : sent'[i] = sent[i]
          /\ \A i \in (Len(sent) + 1)..(Len(sent) + n) : sent'[i] = p[i - Len(sent)]
      BY <3>1, <3>2, <3>3, Zenon
    <3>5. \A i \in DOMAIN sent' : i \in DOMAIN sent \/ sent'[i].id = id
      <4> SUFFICES ASSUME NEW i \in DOMAIN sent', i \notin DOMAIN sent PROVE sent'[i].id = id
        OBVIOUS
      <4>1. i \in (Len(sent) + 1)..(Len(sent) + n) /\ i - Len(sent) \in 1..n
        BY <3>4
      <4> QED
        BY <2>5, <3>4, <4>1
    <3>6. \A i \in DOMAIN sent : i \in DOMAIN sent' /\ sent'[i] = sent[i]
      BY <3>4
    <3> QED
      BY <2>2, <2>3, <3>4, <3>5, <3>6 DEF Beside
  <2>7. SentOf(sent', b.id) = SentOf(sent, b.id)
    BY <2>6, SentKept
  <2> QED
    BY <2>1, <2>3, <2>7 DEF AnswerSent
<1> QED
  <2> SUFFICES ASSUME NEW k \in DOMAIN answers' PROVE AnswerSent(sent', answers'[k])
    BY DEF ResInv
  <2>1. k \in 1..Len(answers) \/ k = Len(answers) + 1
    BY <1>9
  <2> QED
    BY <1>9, <1>10, <1>11, <2>1

LEMMA ResInitially == Init => ResInv
BY DEF Init, ResInv

LEMMA ResNext == IInv /\ ResInv /\ [Next]_vars => ResInv'
<1> SUFFICES ASSUME IInv, ResInv, [Next]_vars PROVE ResInv'
  OBVIOUS
<1>1. CASE Respond
  BY <1>1, RespondSent
<1>2. CASE ~Respond
  <2>1. UNCHANGED answers /\ SendsControl
    BY <1>2, OnlyControl
  <2>2. \A id : Beside(sent, sent', id)
    BY <2>1, InvFacts DEF SendsControl, Beside
  <2>3. \A id : SentOf(sent', id) = SentOf(sent, id)
    BY <2>2, SentKept
  <2> QED
    BY <2>1, <2>3 DEF ResInv, AnswerSent
<1> QED
  BY <1>1, <1>2

-----------------------------------------------------------------------------
(* What http2_send_raw_frame refuses.                                      *)

\* A body that fills a frame longer than a header can say.
Unsendable(limit, r) == limit > MaxMaxFrameSize /\ r.body >= limit

LEMMA HeaderLengthIs ==
  ASSUME NEW n \in Nat, n <= MaxMaxFrameSize
  PROVE  HeaderLength(n) = n
BY Http2Assumption DEF HeaderLength

LEMMA RefusedFrames ==
  ASSUME SettingsOK(settings), NEW id, NEW r \in Responses
  PROVE  /\ \A k \in DOMAIN HeaderFrames(id, r) : Goes(HeaderFrames(id, r)[k])
         /\ \A k \in DOMAIN DataFrames(id, r) :
               Goes(DataFrames(id, r)[k]) \/ Unsendable(settings.max_frame_size, r)
<1> DEFINE hc == Chunks(r.headers, HeaderLimit(settings))
           dc == Chunks(r.body, DataLimit(settings))
           max == settings.max_frame_size
<1>1. /\ max \in Nat /\ max <= MaxMaxFrameSize + 1 /\ MaxMaxFrameSize \in Nat
      /\ HeaderLimit(settings) \in Nat \ {0} /\ HeaderLimit(settings) <= MaxMaxFrameSize
      /\ DataLimit(settings) = max /\ max # 0
  BY Http2Assumption DEF SettingsOK, Limits, HeaderLimit, DataLimit,
     AdditionalHeadersDataSize
<1>2. r.headers \in Nat /\ r.body \in Nat
  BY Http2Assumption
<1>3. \A k \in DOMAIN hc : Len(hc[k]) \in Nat /\ Len(hc[k]) <= HeaderLimit(settings)
  BY <1>1, <1>2, ChunksFacts
<1>4. \A k \in DOMAIN dc : Len(dc[k]) \in Nat /\ Len(dc[k]) <= max /\ Len(dc[k]) <= r.body
  BY <1>1, <1>2, ChunksFacts
<1>5. PICK h, d : h = HeaderFrames(id, r) /\ d = DataFrames(id, r)
  OBVIOUS
<1>6. DOMAIN h = DOMAIN hc /\ \A k \in DOMAIN hc :
        h[k].payload = hc[k] /\ h[k].length = HeaderLength(Len(hc[k]))
  BY <1>5 DEF HeaderFrames
<1>7. DOMAIN d = DOMAIN dc /\ \A k \in DOMAIN dc :
        d[k].payload = dc[k] /\ d[k].length = HeaderLength(Len(dc[k]))
  BY <1>5 DEF DataFrames
<1> HIDE DEF hc, dc, max
<1>8. ASSUME NEW k \in DOMAIN h PROVE Goes(h[k])
  <2>1. PICK n \in Nat : n = Len(hc[k]) /\ n <= MaxMaxFrameSize
    BY <1>1, <1>3, <1>6
  <2>2. HeaderLength(n) = n
    BY <2>1, HeaderLengthIs
  <2> QED
    BY <1>6, <2>1, <2>2 DEF Goes
<1>9. ASSUME NEW k \in DOMAIN d, ~Unsendable(max, r) PROVE Goes(d[k])
  <2>1. PICK n \in Nat : n = Len(dc[k]) /\ n <= max /\ n <= r.body
    BY <1>4, <1>7
  <2>2. n <= MaxMaxFrameSize
    BY <1>1, <1>2, <1>9, <2>1 DEF Unsendable
  <2>3. HeaderLength(n) = n
    BY <2>1, <2>2, HeaderLengthIs
  <2> QED
    BY <1>7, <2>1, <2>3 DEF Goes
<1> QED
  BY <1>5, <1>8, <1>9, Zenon DEF max

\* As long as the peer is there a response is whole, or has such a body.
ThroughInv ==
    peer = "up" => \A k \in DOMAIN answers :
        answers[k].whole \/ Unsendable(answers[k].limit, answers[k].response)

LEMMA ThroughRespond ==
  ASSUME IInv, ThroughInv, Respond
  PROVE  ThroughInv'
<1> USE InvFacts
<1>1. PICK r \in Responses :
        LET all == HeaderFrames(request, r) \o DataFrames(request, r) IN
        \E n \in 0..Len(all) :
          /\ peer' = IF n < Len(all) /\ Goes(all[n + 1]) THEN "gone" ELSE peer
          /\ answers' = Append(answers,
                [id |-> request, response |-> r, whole |-> n = Len(all),
                 limit |-> settings.max_frame_size])
  BY DEF Respond
<1>2. PICK h, d : h = HeaderFrames(request, r) /\ d = DataFrames(request, r)
  OBVIOUS
<1>3. PICK all : all = h \o d
  OBVIOUS
<1>4. PICK n \in 0..Len(all) :
          /\ peer' = IF n < Len(all) /\ Goes(all[n + 1]) THEN "gone" ELSE peer
          /\ answers' = Append(answers,
                [id |-> request, response |-> r, whole |-> n = Len(all),
                 limit |-> settings.max_frame_size])
  BY <1>1, <1>2, <1>3
<1>5. PICK a : /\ answers' = Append(answers, a)
               /\ a.limit = settings.max_frame_size /\ a.response = r
               /\ a.whole = (n = Len(all))
  <2>1. PICK a : /\ answers' = Append(answers, a)
                 /\ a = [id |-> request, response |-> r, whole |-> n = Len(all),
                         limit |-> settings.max_frame_size]
    BY <1>4, Zenon
  <2>2. a.limit = settings.max_frame_size /\ a.response = r
    BY <2>1
  <2>3. a.whole = (n = Len(all))
    BY <2>1, Zenon
  <2> QED
    BY <2>1, <2>2, <2>3, Zenon
<1>6. /\ IsSequence(h) /\ IsSequence(d)
      /\ \A k \in DOMAIN h : Goes(h[k])
      /\ \A k \in DOMAIN d : Goes(d[k]) \/ Unsendable(settings.max_frame_size, r)
  BY <1>2, ResponseFrames, RefusedFrames
<1>7. Len(all) \in Nat /\ \A k \in 1..Len(all) : Goes(all[k]) \/ Unsendable(a.limit, r)
  <2>1. Len(h) \in Nat /\ DOMAIN h = 1..Len(h) /\ Len(d) \in Nat /\ DOMAIN d = 1..Len(d)
    BY <1>6, SequenceFacts
  <2>2. /\ Len(all) = Len(h) + Len(d)
        /\ \A k \in 1..Len(h) : all[k] = h[k]
        /\ \A k \in (Len(h) + 1)..(Len(h) + Len(d)) : all[k] = d[k - Len(h)]
    BY <1>3, <1>6, ConcatFacts
  <2>3. ASSUME NEW k \in 1..Len(all) PROVE Goes(all[k]) \/ Unsendable(a.limit, r)
    <3>1. CASE k \in 1..Len(h)
      BY <1>6, <2>1, <2>2, <3>1
    <3>2. CASE k \in (Len(h) + 1)..(Len(h) + Len(d))
      <4>1. PICK i : i = k - Len(h)
        OBVIOUS
      <4>2. i \in 1..Len(d) /\ all[k] = d[i]
        BY <2>1, <2>2, <3>2, <4>1
      <4> QED
        BY <1>5, <1>6, <2>1, <4>2
    <3> QED
      BY <2>1, <2>2, <3>1, <3>2
  <2> QED
    BY <2>1, <2>2, <2>3
<1>8. ASSUME peer' = "up" PROVE a.whole \/ Unsendable(a.limit, a.response)
  <2>1. ~(n < Len(all) /\ Goes(all[n + 1]))
    BY <1>4, <1>8
  <2>2. n = Len(all) \/ (n + 1 \in 1..Len(all) /\ ~Goes(all[n + 1]))
    BY <1>7, <2>1
  <2>3. n = Len(all) \/ Unsendable(a.limit, r)
    BY <1>7, <2>2
  <2> QED
    BY <1>5, <2>3
<1>9. /\ DOMAIN answers' = 1..(Len(answers) + 1)
      /\ \A k \in 1..Len(answers) : answers'[k] = answers[k]
      /\ answers'[Len(answers) + 1] = a
  BY <1>5, AppendFacts
<1>10. peer' = "up" => peer = "up"
  BY <1>4
<1> QED
  <2> SUFFICES ASSUME peer' = "up", NEW k \in DOMAIN answers'
               PROVE  answers'[k].whole \/ Unsendable(answers'[k].limit, answers'[k].response)
    BY DEF ThroughInv
  <2>1. CASE k \in 1..Len(answers)
    BY <1>9, <1>10, <2>1 DEF ThroughInv
  <2>2. CASE k = Len(answers) + 1
    BY <1>8, <1>9, <2>2
  <2> QED
    BY <1>9, <2>1, <2>2

LEMMA ThroughInitially == Init => ThroughInv
BY DEF Init, ThroughInv

LEMMA ThroughNext == IInv /\ ThroughInv /\ [Next]_vars => ThroughInv'
<1> SUFFICES ASSUME IInv, ThroughInv, [Next]_vars PROVE ThroughInv'
  OBVIOUS
<1>1. CASE Respond
  BY <1>1, ThroughRespond
<1>2. CASE ~Respond
  <2>1. UNCHANGED answers
    BY <1>2, OnlyControl
  <2>2. peer' = "up" => peer = "up"
    BY <1>2 DEF Next, vars, StartDirect, StartUpgrade, Magic, MagicFails, ReadFails,
       Leave, RespondNot, PeerLeaves, Receive
  <2> QED
    BY <2>1, <2>2 DEF ThroughInv
<1> QED
  BY <1>1, <1>2

\* What a selection is made of.
LEMMA SelectedElements ==
  ASSUME NEW n \in Nat, NEW P, NEW v
  PROVE  \A j \in DOMAIN Selected(n, P, v) :
            \E k \in 1..n : k \in P /\ Selected(n, P, v)[j] = v[k]
<1> DEFINE T == {v[k] : k \in {i \in 1..n : i \in P}}
           s == [k \in P |-> <<v[k]>>]
<1>1. PartsIn(n, P, s, T)
  <2> SUFFICES ASSUME NEW k \in 1..n, k \in P PROVE s[k] \in Seq(T)
    BY DEF PartsIn
  <2>1. s[k] = <<v[k]>> /\ v[k] \in T
    OBVIOUS
  <2> QED
    BY <2>1
<1>2. Joined(n, P, s) \in Seq(T)
  <2> HIDE DEF T, s
  <2>1. PICK f : JoinsBy(f, n, P, s, T) /\ Joined(n, P, s) = f[n]
    BY <1>1, JoinedLoop
  <2> QED
    BY <2>1 DEF JoinsBy
<1>3. PICK fs : fs = Selected(n, P, v) /\ fs \in Seq(T)
  <2> HIDE DEF T
  <2> QED
    BY <1>2 DEF Selected
<1>4. \A j \in DOMAIN fs : fs[j] \in T
  <2> HIDE DEF T
  <2> QED
    BY <1>3
<1> QED
  BY <1>3, <1>4

LEMMA WholeResponse ==
  ASSUME NEW h, NEW d, NEW id, NEW r \in Responses, AreFrames(h, d, id, r)
  PROVE  /\ r.null \/ r.body > 0 => IsExchange(h \o d)
         /\ AllCarried(Part(h \o d, HeaderTypes)) = [j \in 1..r.headers |-> j]
         /\ AllCarried(Part(h \o d, {"DATA"})) = [j \in 1..r.body |-> j]
<1>1. Part(h \o d, HeaderTypes) = h /\ Part(h \o d, {"DATA"}) = d
  BY PartsOfFrames
<1>2. /\ AllCarried(h) = [j \in 1..r.headers |-> j]
      /\ AllCarried(d) = [j \in 1..r.body |-> j]
  BY DEF AreFrames, AllCarried, Blocks, Bytes
<1>3. ASSUME r.null \/ r.body > 0 PROVE IsExchange(h \o d)
  <2>1. r.body \in Nat /\ (r.null => r.body = 0)
    BY Http2Assumption
  <2>2. 1 \in DOMAIN h
    BY SequenceEmpty, SequenceFacts DEF AreFrames
  <2>3. (d = << >>) <=> (\E k \in DOMAIN h : Ends(h[k]))
    BY <1>3, <2>1, <2>2 DEF AreFrames
  <2>4. PICK fs : fs = h \o d
    OBVIOUS
  <2>5. Exchange(fs, h, d)
    BY <2>3, <2>4 DEF AreFrames, Exchange
  <2> QED
    BY <1>1, <2>4, <2>5, ExchangeIs
<1> QED
  BY <1>1, <1>2, <1>3

-----------------------------------------------------------------------------
(* The theorems.                                                           *)

(* The state of a connection keeps its types for any frames of any length: *)
(* stream 0 never gets an entry, and the peer's maximum frame size stays   *)
(* within the limits however many SETTINGS frames, and however many values *)
(* of one setting in a frame, are applied (http2_apply_settings_frame).    *)
THEOREM ConnectionTypeCorrect == Spec => []TypeOK
<1>1. IInv => TypeOK
  BY DEF IInv
<1> QED
  BY <1>1, Invariance, PTL

(* The last stream id of a GOAWAY (http2_send_connection_error) is at      *)
(* least that of every request handed over, but for that of the upgrade:   *)
(* update_last_stream_id is called before a frame can complete a request.  *)
THEOREM GoawayCorrect == Spec => []GoawayCovers
<1>1. IInv => GoawayCovers
  BY DEF IInv, StreamsInv, GoawayInv, GoawayCovers
<1> QED
  BY <1>1, Invariance, PTL

(* parse_http2_request hands over at most one request of a stream, in any  *)
(* order of any frames.                                                    *)
THEOREM StreamsCarryOneRequest == Spec => []OneRequestPerStream
<1>1. IInv => OneRequestPerStream
  BY DEF IInv, StreamsInv
<1> QED
  BY <1>1, Invariance, PTL

(* The frames of every response fit the settings that the peer had when it *)
(* was sent, and each has the length its 24 bits say, for any length of    *)
(* headers and body and any maximum frame size the code accepts            *)
(* (http2_send_headers, http2_send_data, http2_send_raw_frame).            *)
THEOREM ResponsesFit == Spec => []ResponseFramesFit
<1>1. IInv => ResponseFramesFit
  <2> SUFFICES ASSUME IInv, NEW k \in DOMAIN answers, NEW j \in DOMAIN sent,
                      sent[j].type \in MessageTypes, sent[j].id = answers[k].id
               PROVE  Fits(sent[j], answers[k])
    BY DEF ResponseFramesFit
  <2>1. PICK i \in DOMAIN answers : answers[i].id = sent[j].id /\ Fits(sent[j], answers[i])
    BY DEF IInv, FramesInv
  <2>2. i = k
    BY <2>1 DEF IInv, AnswersInv
  <2> QED
    BY <2>1, <2>2
<1> QED
  BY <1>1, Invariance, PTL

(* Every SETTINGS and every PING frame that was taken is acknowledged,     *)
(* pings in order with their own data, for any frames and any number of    *)
(* them, however requests, responses and errors of streams come between    *)
(* (parse_http2_request); a peer that left has at most missed some.        *)
THEOREM AllAcknowledged == Spec => []AcknowledgesAll
<1>1. IInv /\ AckInv => AcknowledgesAll
  <2> SUFFICES ASSUME IInv, AckInv, phase # "done" PROVE AcknowledgesAll
    BY DEF AckInv
  <2>1. AckFacts
    BY AckFactsHold
  <2>2. received = << >> \/ received[1].type = "SETTINGS"
    BY DEF AckInv, IInv, TypeOK
  <2>3. Len(<< >>) = 0
    OBVIOUS
  <2>4. ~Refused
    BY <2>1, <2>2, <2>3 DEF Refused, AckFacts
  <2>5. Matches(peer = "up", received, Taken, sent)
    BY <2>4 DEF AckInv, Taken
  <2> QED
    BY <2>5, AcknowledgesIs
<1>2. Spec => []AckInv
  BY Invariance, AckInitially, AckNext, PTL DEF Spec
<1> QED
  BY <1>1, <1>2, Invariance, PTL

(* Every request that parse_http2_request hands over is exactly what its   *)
(* stream carried: a complete exchange whose header block and body are the *)
(* concatenation of its frames without padding and priority, for any       *)
(* frames of any streams in any order, also after errors and resets.       *)
THEOREM RequestsWhole == Spec => []RequestsInv
<1>1. IInv /\ ReqInv => RequestsInv
  BY WholeIs DEF IInv, ReqInv, RequestsInv
<1>2. Spec => []ReqInv
  BY Invariance, ReqInitially, ReqNext, PTL DEF Spec
<1> QED
  BY <1>1, <1>2, Invariance, PTL

(* Once a peer has sent a complete exchange on a stream, and nothing else  *)
(* but window updates, its request has been handed over, for any frames on *)
(* the other streams in any order: an error closes its own stream and no   *)
(* other one (parse_http2_request).                                        *)
THEOREM RequestsServed == Spec => []RequestsAreServed
<1>1. ServeInv => RequestsAreServed
  <2> SUFFICES ASSUME ServeInv, phase \in {"frames", "respond"}, NEW id, id # 0,
                      ~(upgrade /\ id = 1), NEW fs, fs = FramesOf(received, id),
                      Simple(fs), IsExchange(fs)
               PROVE  IsHanded(handed, id)
    BY Zenon DEF RequestsAreServed, FramesOf, Simple, IsHanded
  <2>1. PICK hs, ds : PartsOf(fs, hs, ds)
    BY DEF PartsOf
  <2>2. Exchange(fs, hs, ds)
    BY <2>1, ExchangeIs, Zenon DEF PartsOf
  <2>3. Serves(streams, handed, id, fs, hs, ds)
    BY <2>1 DEF ServeInv, StreamServed
  <2> QED
    BY <2>2, <2>3, Zenon DEF Serves, IsHanded
<1>2. Spec => []ServeInv
  BY Invariance, ServeInitially, ServeNext, PTL DEF Spec
<1> QED
  BY <1>1, <1>2, PTL

(* For any sizes of the frames the peer takes and any lengths of headers   *)
(* and body, however frames of the connection and other responses come     *)
(* between: the frames sent for an answered request are ones the peer      *)
(* takes, and as long as the peer is there the response is whole unless    *)
(* its body fills a frame one byte longer than 24 bits can say; a whole    *)
(* response is one complete exchange (unless its body is an empty buffer   *)
(* that is not NULL) and carries every byte of the header block and of the *)
(* body once and in order (http2_send_headers, http2_send_data,            *)
(* http2_send_raw_frame).                                                  *)
THEOREM ResponsesWhole == Spec => []ResponsesAreWhole
<1>1. IInv /\ ResInv /\ ThroughInv => ResponsesAreWhole
  <2> SUFFICES ASSUME IInv, ResInv, ThroughInv PROVE ResponsesAreWhole
    OBVIOUS
  <2> DEFINE Fine(a, fs) ==
               /\ \A j \in DOMAIN fs : Fits(fs[j], a)
               /\ \/ peer = "gone" \/ a.whole
                  \/ a.limit > MaxMaxFrameSize /\ a.response.body >= a.limit
               /\ a.whole /\ (a.response.null \/ a.response.body > 0) => IsExchange(fs)
               /\ a.whole =>
                    /\ AllCarried(Part(fs, HeaderTypes)) = [j \in 1..a.response.headers |-> j]
                    /\ AllCarried(Part(fs, {"DATA"})) = [j \in 1..a.response.body |-> j]
  <2>1. (\A k \in DOMAIN answers : Fine(answers[k], SentOf(sent, answers[k].id)))
           => ResponsesAreWhole
    BY DEF ResponsesAreWhole, Fits, SentOf, SentPlaces
  <2>2. ASSUME NEW k \in DOMAIN answers PROVE Fine(answers[k], SentOf(sent, answers[k].id))
    <3>1. PICK a, fs : a = answers[k] /\ fs = SentOf(sent, a.id)
      OBVIOUS
    <3>2. ASSUME NEW j \in DOMAIN fs PROVE Fits(fs[j], a)
      <4>1. PICK i \in DOMAIN sent : i \in SentPlaces(sent, a.id) /\ fs[j] = sent[i]
        BY <3>1, InvFacts, SelectedElements DEF SentOf
      <4>2. sent[i].type \in MessageTypes /\ sent[i].id = a.id
        BY <4>1 DEF SentPlaces
      <4>3. PICK l \in DOMAIN answers : answers[l].id = sent[i].id /\ Fits(sent[i], answers[l])
        BY <4>2 DEF IInv, FramesInv
      <4>4. l = k
        BY <3>1, <4>2, <4>3 DEF IInv, AnswersInv
      <4> QED
        BY <3>1, <4>1, <4>3, <4>4
    <3>3. AnswerSent(sent, a)
      BY <3>1 DEF ResInv
    <3>4. PICK id, r : id = a.id /\ r = a.response
      OBVIOUS
    <3>5. r \in Responses
      BY <3>3, <3>4 DEF AnswerSent
    <3>6. ASSUME a.whole
          PROVE  /\ r.null \/ r.body > 0 => IsExchange(fs)
                 /\ AllCarried(Part(fs, HeaderTypes)) = [j \in 1..r.headers |-> j]
                 /\ AllCarried(Part(fs, {"DATA"})) = [j \in 1..r.body |-> j]
      <4>1. PICK h, d : AreFrames(h, d, id, r) /\ fs = h \o d
        BY <3>1, <3>3, <3>4, <3>6 DEF AnswerSent
      <4> QED
        BY <3>5, <4>1, WholeResponse, Zenon
    <3>8. \/ peer = "gone" \/ a.whole
          \/ a.limit > MaxMaxFrameSize /\ a.response.body >= a.limit
      BY <3>1 DEF ThroughInv, Unsendable, IInv, TypeOK
    <3>7. Fine(a, fs)
      BY <3>2, <3>4, <3>6, <3>8, Zenon
    <3> QED
      BY <3>1, <3>7
  <2> HIDE DEF Fine
  <2> QED
    BY <2>1, <2>2
<1> QED
  BY <1>1, ResInitially, ResNext, ThroughInitially, ThroughNext, Invariance, InitInv, StepInv,
     PTL DEF Spec
=============================================================================
