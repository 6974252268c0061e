--------------------------- MODULE UnaryCallProofs ---------------------------
(***************************************************************************)
(* Proofs about UnaryCall: its types, that a call to the backend keeps its *)
(* deadline, that the backend gets the request that was sent, and that the *)
(* application gets the backend's answer, whole, or a failure for a cause. *)
(***************************************************************************)
EXTENDS UnaryCall, FramingProofs, HttpRuleProofs

-----------------------------------------------------------------------------
(* Sequences of at most one sequence, framed lengths and codes.            *)

LEMMA FlattenNone == FlattenSeq(<<>>) = <<>>
BY DEF FlattenSeq

LEMMA FlattenOne ==
  ASSUME NEW x
  PROVE  FlattenSeq(<<x>>) = x
<1> DEFINE s == <<x>>
           v == CHOOSE v : v = [i \in 1..Len(s) |-> IF i = 1 THEN s[i] ELSE v[i - 1] \o s[i]]
           f == [i \in 1..Len(s) |-> x]
<1>1. Len(s) = 1 /\ s[1] = x
  OBVIOUS
<1>2. FlattenSeq(s) = v[Len(s)]
  BY <1>1 DEF FlattenSeq
<1> HIDE DEF s
<1>3. f = [i \in 1..Len(s) |-> IF i = 1 THEN s[i] ELSE f[i - 1] \o s[i]]
  BY <1>1
<1> HIDE DEF f
<1>4. v = [i \in 1..Len(s) |-> IF i = 1 THEN s[i] ELSE v[i - 1] \o s[i]]
  BY <1>3
<1> HIDE DEF v
<1>5. v[1] = x
  BY <1>1, <1>4
<1> QED BY <1>1, <1>2, <1>5 DEF s

LEMMA LengthBytes ==
  ASSUME NEW n \in Nat
  PROVE  be(n) \in Bytes /\ Len(be(n)) = LenBytes
<1>1. LenBytes \in Nat
  BY FramingAssumption
<1>2. PICK f \in [0..LenBytes -> Nat] : be(n) = [k \in 1..LenBytes |-> f[LenBytes - k] % 256]
  BY BeIs
<1>3. ASSUME NEW k \in 1..LenBytes PROVE f[LenBytes - k] % 256 \in Byte
  <2>1. LenBytes - k \in 0..LenBytes
    BY <1>1
  <2>2. f[LenBytes - k] \in Nat
    BY <2>1
  <2>3. \A x \in Nat : x % 256 \in 0..255
    OBVIOUS
  <2> QED BY <2>2, <2>3 DEF Byte
<1>4. be(n) \in [1..LenBytes -> Byte]
  BY <1>2, <1>3
<1> QED BY <1>1, <1>4 DEF Bytes

\* A block is as long as its prefix and its bytes.
LEMMA BlockIs ==
  ASSUME NEW m \in Bytes
  PROVE  block(m) \in Bytes /\ Len(block(m)) = LenBytes + Len(m)
<1>1. Len(m) \in Nat /\ m \in Seq(Byte)
  BY DEF Bytes
<1>2. be(Len(m)) \in Seq(Byte) /\ Len(be(Len(m))) = LenBytes
  BY <1>1, LengthBytes DEF Bytes
<1>3. be(Len(m)) \o m \in Seq(Byte) /\ Len(be(Len(m)) \o m) = LenBytes + Len(m)
  BY <1>1, <1>2, JoinedIs
<1> QED BY <1>3 DEF block, Bytes

LEMMA BodyIs ==
  ASSUME NEW m \in Bytes, NEW code \in Byte
  PROVE  /\ Trailer(code) \in Bytes /\ encode_trailer_block(code) \in Bytes
         /\ encode_response_body(m, code) \in Bytes
<1>1. Trailer(code) \in Bytes
  BY DEF Trailer, Bytes
<1>2. encode_trailer_block(code) \in Bytes
  BY <1>1, BlockIs DEF encode_trailer_block
<1>3. block(m) \o encode_trailer_block(code) \in Seq(Byte)
  BY <1>2, BlockIs, JoinedIs DEF Bytes
<1> QED BY <1>1, <1>2, <1>3 DEF encode_response_body, Bytes

\* What a backend answers is nothing or one message, framed (unary_proto, unary_json).
LEMMA FramedIs ==
  ASSUME NEW r, ReplyOK(r)
  PROVE  LET answer == FlattenSeq([k \in DOMAIN r.messages |-> frame(r.messages[k])])
             message == FlattenSeq(r.messages)
         IN \/ r.messages = <<>> /\ answer = <<>> /\ message = <<>>
            \/ \E m \in Bytes : /\ r.messages = <<m>> /\ Fits(Len(m))
                                /\ answer = frame(m) /\ message = m
<1> DEFINE answer == FlattenSeq([k \in DOMAIN r.messages |-> frame(r.messages[k])])
           message == FlattenSeq(r.messages)
<1>1. CASE r.messages = <<>>
  <2>1. [k \in DOMAIN r.messages |-> frame(r.messages[k])] = <<>>
    BY <1>1
  <2> QED BY <1>1, <2>1, FlattenNone
<1>2. CASE r.messages # <<>>
  <2> DEFINE m == r.messages[1]
  <2>1. \A s \in Seq(Bytes) : s # <<>> => Len(s) >= 1 /\ Len(s) \in Nat /\ DOMAIN s = 1..Len(s)
    OBVIOUS
  <2>2. r.messages \in Seq(Bytes) /\ Len(r.messages) <= 1
    BY DEF ReplyOK
  <2>3. Len(r.messages) = 1 /\ DOMAIN r.messages = 1..1
    <3> DEFINE s == r.messages
    <3>1. s \in Seq(Bytes) /\ s # <<>> /\ Len(s) <= 1
      BY <1>2, <2>2
    <3> HIDE DEF s
    <3>2. Len(s) >= 1 /\ Len(s) \in Nat /\ DOMAIN s = 1..Len(s)
      BY <3>1, <2>1
    <3>3. Len(s) = 1
      BY <3>1, <3>2
    <3>4. DOMAIN s = 1..1
      BY <3>2, <3>3
    <3> QED BY <3>3, <3>4 DEF s
  <2>4. m \in Bytes
    <3>1. 1 \in 1..Len(r.messages)
      BY <2>3
    <3> QED BY <2>2, <3>1, ElementOfSeq
  <2>5. r.messages = <<m>> /\ Fits(Len(m))
    BY <2>2, <2>3 DEF ReplyOK
  <2>6. [k \in DOMAIN r.messages |-> frame(r.messages[k])] = <<frame(m)>>
    BY <2>3
  <2>7. answer = frame(m)
    BY <2>6, FlattenOne
  <2>8. message = m
    BY <2>5, FlattenOne
  <2>9. \E x \in Bytes : r.messages = <<x>> /\ Fits(Len(x)) /\ answer = frame(x) /\ message = x
    <3> HIDE DEF answer, message, m
    <3> QED BY <2>4, <2>5, <2>7, <2>8
  <2> QED BY <2>9
<1> QED BY <1>1, <1>2

LEMMA AnswerIs ==
  ASSUME ReplyOK(reply)
  PROVE  \/ reply.messages = <<>> /\ Answer = <<>> /\ AnswerMessage = <<>>
         \/ \E m \in Bytes : /\ reply.messages = <<m>> /\ Fits(Len(m))
                             /\ Answer = frame(m) /\ AnswerMessage = m
BY FramedIs DEF Answer, AnswerMessage

LEMMA FramedType ==
  ASSUME NEW r, ReplyOK(r)
  PROVE  LET answer == FlattenSeq([k \in DOMAIN r.messages |-> frame(r.messages[k])])
         IN answer \in Bytes /\ FlattenSeq(r.messages) \in Bytes /\ Len(answer) \in Nat
<1> DEFINE answer == FlattenSeq([k \in DOMAIN r.messages |-> frame(r.messages[k])])
           message == FlattenSeq(r.messages)
<1>1. \A m \in Bytes : frame(m) \in Bytes
  <2> TAKE m \in Bytes
  <2>1. <<0>> \in Seq(Byte) /\ block(m) \in Seq(Byte)
    BY BlockIs DEF Bytes, Byte
  <2> QED BY <2>1, JoinedIs DEF frame, Bytes
<1>2. <<>> \in Bytes
  BY DEF Bytes
<1>3. \/ answer = <<>> /\ message = <<>>
      \/ \E m \in Bytes : answer = frame(m) /\ message = m
  BY FramedIs
<1> HIDE DEF answer, message
<1>4. answer \in Bytes /\ message \in Bytes
  BY <1>1, <1>2, <1>3
<1> QED BY <1>4 DEF Bytes, answer, message

LEMMA AnswerType ==
  ASSUME ReplyOK(reply)
  PROVE  Answer \in Bytes /\ AnswerMessage \in Bytes /\ Len(Answer) \in Nat
BY FramedType DEF Answer, AnswerMessage

-----------------------------------------------------------------------------
(* Types                                                                   *)

LEMMA TypeInit == Init => TypeOK
<1> SUFFICES ASSUME Init PROVE TypeOK
  OBVIOUS
<1> USE DEF Init, ServerInit, ClientInit
<1>1. req \in Requests /\ req.bytes \in Bytes /\ req.timeout \in Nat
  BY RequestsAssumption
<1>2. got \in 0..Len(req.bytes)
  BY <1>1, BytesAreNats
<1>3. <<>> \in Bytes /\ <<>> \in Seq(Bytes) /\ Len(<<>>) = 0
  BY DEF Bytes
<1>4. reply \in [headers : Codes, messages : Seq(Bytes), trailers : Codes, sent : Nat] /\ ReplyOK(reply)
  BY <1>3 DEF NoReply, Codes, ReplyOK
<1>5. reply.sent <= Len(Answer)
  BY <1>4, AnswerType DEF NoReply
<1>6. response \in Responses
  BY <1>3 DEF NoResponse, Responses, Codes
<1>7. timers \in [client : Unset..req.timeout, call : Unset..req.timeout] /\ held \in 0..HeldBound
  BY <1>1 DEF Unset, HeldBound
<1>8. /\ DOMAIN call = DOMAIN NoCall /\ call.at \in CallStates /\ call.fed \in BOOLEAN
      /\ call.request \in Bytes /\ call.at = "none"
  BY <1>3 DEF NoCall, CallStates
<1>9. handler \in [at : HandlerStates, skip : {0, 1}, saw : BOOLEAN] /\ handler.at = "idle"
  BY DEF HandlerStates
<1>10. outcomes \in Seq(Outcomes) /\ Len(outcomes) <= 2
  OBVIOUS
<1>11. InPlace
  BY <1>8, <1>9 DEF InPlace, Before
<1> QED BY <1>1, <1>2, <1>4, <1>5, <1>6, <1>7, <1>8, <1>9, <1>10, <1>11 DEF TypeOK, Proto

\* Every answer of the handler's own is a response.
LEMMA ResponseTypes ==
  /\ \A http \in {400, 413, 415} : text_response(http) \in Responses
  /\ \A code \in Byte : webnext_error(code) \in Responses
  /\ \A code \in Byte, m \in Bytes : json_fetch_response(code, m) \in Responses
<1>1. <<>> \in Bytes
  BY DEF Bytes
<1>2. \A http \in {400, 413, 415} : text_response(http) \in Responses
  BY <1>1 DEF text_response, Whole, Responses, Codes
<1>3. \A code \in Byte, m \in Bytes : json_fetch_response(code, m) \in Responses
  BY <1>1 DEF json_fetch_response, Whole, Responses, Codes
<1>4. \A code \in Byte : fetch_status(code) \in Responses
  BY <1>1, BodyIs DEF fetch_status, Whole, Responses, Codes
<1> QED BY <1>1, <1>2, <1>3, <1>4 DEF webnext_error

\* The handler answers and is done.
LEMMA TypeOfFinish ==
  ASSUME TypeOK, NEW r \in Responses, NEW at \in CallStates \ {"called", "answered"},
         Finish(r, at), got' \in 0..Len(req.bytes), reply' = reply, UNCHANGED clientVars
  PROVE  TypeOK'
<1> USE DEF TypeOK, Finish, clientVars
<1>1. req' = req /\ Proto' = Proto /\ Answer' = Answer
  BY DEF Proto, Answer
<1>2. handler' \in [at : HandlerStates, skip : {0, 1}, saw : BOOLEAN] /\ handler'.at = "done"
  BY DEF HandlerStates
<1>3. /\ DOMAIN call' = DOMAIN NoCall /\ call'.at = at /\ call'.fed = call.fed
      /\ call'.request = call.request
  BY DEF NoCall
<1>4. timers' \in [client : Unset..req.timeout, call : Unset..req.timeout]
  <2>1. Unset \in Unset..req.timeout
    BY RequestsAssumption DEF Unset
  <2> QED BY <2>1
<1>5. held' \in 0..HeldBound'
  BY <1>1 DEF HeldBound
<1>6. ReplyOK(reply') /\ reply'.sent <= Len(Answer')
  BY <1>1
<1>7. InPlace'
  BY <1>2, <1>3 DEF InPlace, Before
<1> QED BY <1>1, <1>2, <1>3, <1>4, <1>5, <1>6, <1>7

\* The handler goes on to its next place, and may have read on.
LEMMA TypeOfStand ==
  ASSUME TypeOK, NEW at \in Before, handler.at \in Before, Stand(at),
         at = "lead" => Proto, at = "body" => ~Proto,
         got' \in 0..Len(req.bytes),
         UNCHANGED <<req, link, schema, call, reply, response, timers, held, clientVars>>
  PROVE  TypeOK'
<1> USE DEF TypeOK, Stand, clientVars
<1>1. req' = req /\ Proto' = Proto /\ Answer' = Answer
  BY DEF Proto, Answer
<1>2. handler' \in [at : HandlerStates, skip : {0, 1}, saw : BOOLEAN] /\ handler'.at = at
  BY DEF HandlerStates, Before
<1>3. held' \in 0..HeldBound'
  BY <1>1 DEF HeldBound
<1>4. ReplyOK(reply') /\ reply'.sent <= Len(Answer')
  BY <1>1
<1>5. InPlace'
  BY <1>1, <1>2 DEF InPlace, Before
<1> QED BY <1>1, <1>2, <1>3, <1>4, <1>5

LEMMA SliceIs ==
  ASSUME NEW b \in Bytes, NEW i \in Nat, NEW n \in 0..Len(b), i <= n
  PROVE  /\ SubSeq(b, i + 1, n) \in Bytes /\ Len(SubSeq(b, i + 1, n)) = n - i
         /\ \A k \in 1..(n - i) : SubSeq(b, i + 1, n)[k] = b[i + k]
<1>1. Len(b) \in Nat /\ b \in Seq(Byte)
  BY DEF Bytes
<1>2. /\ i + 1 \in Int /\ n \in Int
      /\ \A j \in (i + 1)..n : b[j] \in Byte
  BY <1>1
<1>3. /\ SubSeq(b, i + 1, n) \in Seq(Byte)
      /\ Len(SubSeq(b, i + 1, n)) = IF i + 1 <= n THEN n - (i + 1) + 1 ELSE 0
      /\ \A k \in 1..(n - (i + 1) + 1) : SubSeq(b, i + 1, n)[k] = b[i + 1 + k - 1]
  BY <1>2, SubSeqProperties
<1>4. Len(SubSeq(b, i + 1, n)) = n - i /\ n - (i + 1) + 1 = n - i
  BY <1>1, <1>3
<1>5. ASSUME NEW k \in 1..(n - i) PROVE SubSeq(b, i + 1, n)[k] = b[i + k]
  <2>1. i + 1 + k - 1 = i + k
    BY <1>1
  <2> QED BY <2>1, <1>3, <1>4
<1> QED BY <1>3, <1>4, <1>5 DEF Bytes

LEMMA PrefixIs ==
  ASSUME NEW b \in Bytes, NEW n \in 0..Len(b)
  PROVE  /\ SubSeq(b, 1, n) \in Bytes /\ Len(SubSeq(b, 1, n)) = n
         /\ \A k \in 1..n : SubSeq(b, 1, n)[k] = b[k]
<1>1. PICK i \in Nat : i = 0
  OBVIOUS
<1>2. Len(b) \in Nat /\ n \in Nat /\ i + 1 = 1 /\ n - i = n /\ i <= n
  BY <1>1 DEF Bytes
<1>3. /\ SubSeq(b, i + 1, n) \in Bytes /\ Len(SubSeq(b, i + 1, n)) = n - i
      /\ \A k \in 1..(n - i) : SubSeq(b, i + 1, n)[k] = b[i + k]
  BY <1>2, SliceIs
<1>4. \A k \in 1..n : i + k = k
  BY <1>1
<1> QED BY <1>2, <1>3, <1>4

\* The call to the backend is made.
LEMMA TypeOfDispatch ==
  ASSUME TypeOK, handler.at \in Before, got' \in 0..Len(req.bytes), UNCHANGED clientVars,
         NEW method, NEW request, NEW fed \in BOOLEAN, Proto => request \in Bytes,
         Dispatch(method, request, fed)
  PROVE  TypeOK'
<1> USE DEF TypeOK, Dispatch, Stand, clientVars
<1>1. req' = req /\ Proto' = Proto /\ Answer' = Answer
  BY DEF Proto, Answer
<1>2. handler' \in [at : HandlerStates, skip : {0, 1}, saw : BOOLEAN] /\ handler'.at = "called"
  BY DEF HandlerStates
<1>3. /\ DOMAIN call' = DOMAIN NoCall /\ call'.at = "called" /\ call'.fed \in BOOLEAN
      /\ call'.request = request
  BY DEF NoCall
<1>4. timers' \in [client : Unset..req.timeout, call : Unset..req.timeout]
  <2> DEFINE t == IF req.timeout = 0 THEN Unset ELSE req.timeout
             span == Unset..req.timeout
  <2>1. req \in Requests /\ timers \in [client : span, call : span]
    BY DEF TypeOK
  <2>2. req.timeout \in Nat
    BY <2>1, RequestsAssumption, Zenon
  <2>3. t \in span
    BY <2>2 DEF Unset
  <2>4. timers' = [timers EXCEPT !.call = t]
    BY DEF Dispatch
  <2> HIDE DEF t, span
  <2>5. timers' \in [client : span, call : span]
    BY ONLY <2>1, <2>3, <2>4
  <2> QED BY <2>5 DEF span
<1>5. held' \in 0..HeldBound'
  BY <1>1 DEF HeldBound
<1>6. ReplyOK(reply') /\ reply'.sent <= Len(Answer')
  BY <1>1
<1>7. call'.at \in CallStates
  BY <1>3 DEF CallStates
<1>8. InPlace'
  BY <1>2, <1>3 DEF InPlace, Before
<1> QED BY <1>1, <1>2, <1>3, <1>4, <1>5, <1>6, <1>7, <1>8

\* What Begin does: it refuses the call, or goes on to read the request.
LEMMA BeginIs ==
  ASSUME NEW loaded, NEW code \in Byte, Begin(loaded, code)
  PROVE  /\ UNCHANGED got
         /\ \/ /\ \E at \in {"lead", "body"} : Stand(at) /\ (at = "lead" <=> Proto)
               /\ UNCHANGED <<req, link, schema, call, reply, response, timers, held>>
            \/ Proto /\ Refuse(text_response(415))
            \/ ~Proto /\ ~loaded /\ Refuse(webnext_error(code))
BY DEF Begin, BeginProto

\* What reading the length of a protobuf request does: nothing yet, or it decides.
LEMMA FrameLeadIs ==
  ASSUME FrameLead
  PROVE  \/ UNCHANGED <<req, link, schema, handler, call, reply, response, timers, held>>
         \/ Refuse(text_response(413))
         \/ /\ ~(Len(SubSeq(req.bytes, 1, got')) < LenBytes)
            /\ ~(uint(SubSeq(SubSeq(req.bytes, 1, got'), 1, LenBytes)) > MaxMessage)
            /\ Dispatch(req.parts, <<0>> \o SubSeq(req.bytes, 1, got'), FALSE)
BY DEF FrameLead

\* The method and the message of a JSON request, as RouteIsDeclared has them.
Routed(method, request) ==
  IF Candidates(req.verb, req.parts) = {}
  THEN method = req.parts /\ request = req.json
  ELSE LET b == Chosen(req.verb, req.parts) IN
       /\ method = b.method
       /\ \A path \in DOMAIN Kinds :
            Get(request, path) = RouteMessage(b, req.parts, req.query, req.json)[path]

\* What json_fetch and the main path do: they refuse the call, or make the declared one.
LEMMA JsonFetchIs ==
  ASSUME TypeOK, json_fetch
  PROVE  /\ handler.at = "body" /\ UNCHANGED got
         /\ \/ \E code \in {INVALID_ARGUMENT, UNIMPLEMENTED} : Refuse(webnext_error(code))
            \/ Refuse(text_response(415))
            \/ \E method, request : Routed(method, request) /\ Dispatch(method, request, TRUE)
<1> DEFINE t == transcode(req.verb, req.parts, req.query, req.json)
           b == Chosen(req.verb, req.parts)
           message == deserialize_message(req.json, <<>>)
<1>1. /\ handler.at = "body" /\ UNCHANGED got
      /\ CASE t.is = "bad" -> Refuse(webnext_error(INVALID_ARGUMENT))
           [] t.is = "call" -> Dispatch(t.method, t.message, TRUE)
           [] t.is = "none" -> MainPath
  BY DEF json_fetch
<1>2. req.parts \in Names /\ req.query \in Pairs /\ (req.json = Bad \/ IsMessage(req.json))
  BY RequestsAssumption DEF TypeOK
<1>3. /\ t.is \in {"none", "bad", "call"}
      /\ t.is = "none" <=> Candidates(req.verb, req.parts) = {}
      /\ t.is = "call" =>
           /\ t.method = b.method
           /\ \A path \in DOMAIN Kinds :
                Get(t.message, path) = RouteMessage(b, req.parts, req.query, req.json)[path]
  <2>1. AsDeclared(t, req.verb, req.parts, req.query, req.json)
    BY <1>2, TranscodeIsDeclared, Zenon
  <2> HIDE DEF t
  <2> QED BY <2>1, Zenon DEF AsDeclared
<1> HIDE DEF t, b
<1>4. CASE t.is = "bad"
  BY <1>1, <1>4
<1>5. CASE t.is = "call"
  <2>1. Dispatch(t.method, t.message, TRUE)
    BY <1>1, <1>5
  <2>2. Routed(t.method, t.message)
    BY <1>3, <1>5 DEF Routed, b
  <2> QED BY <1>1, <2>1, <2>2, Zenon
<1>6. CASE t.is = "none"
  <2>1. MainPath
    BY <1>1, <1>6
  <2>2. message # Bad => Routed(req.parts, message)
    BY <1>2, <1>3, <1>6, WholeIs DEF Routed
  <2>3. \/ Refuse(text_response(415))
        \/ Refuse(webnext_error(UNIMPLEMENTED))
        \/ Refuse(webnext_error(INVALID_ARGUMENT))
        \/ message # Bad /\ Dispatch(req.parts, message, TRUE)
    BY <2>1 DEF MainPath
  <2> HIDE DEF message
  <2> QED BY <1>1, <2>2, <2>3
<1> QED BY <1>3, <1>4, <1>5, <1>6

-----------------------------------------------------------------------------
(* Reading a response body: whole, it gives its message and its code; cut  *)
(* anywhere inside its message, or right after it, it gives nothing.       *)

\* Three sequences in a row, and where each of them is.
LEMMA JoinedSlices ==
  ASSUME NEW x \in Bytes, NEW y \in Bytes, NEW z \in Bytes
  PROVE  /\ (x \o y) \o z \in Bytes /\ Len((x \o y) \o z) = Len(x) + Len(y) + Len(z)
         /\ SubSeq((x \o y) \o z, 1, Len(x)) = x
         /\ SubSeq((x \o y) \o z, Len(x) + 1, Len(x) + Len(y)) = y
         /\ SubSeq((x \o y) \o z, Len(x) + Len(y) + 1, Len((x \o y) \o z)) = z
<1> DEFINE b == (x \o y) \o z
           p == Len(x)
           q == Len(y)
           r == Len(z)
<1>1. /\ p \in Nat /\ q \in Nat /\ r \in Nat
      /\ x \in Seq(Byte) /\ y \in Seq(Byte) /\ z \in Seq(Byte)
  BY DEF Bytes
<1>2. /\ x \o y \in Seq(Byte) /\ Len(x \o y) = p + q
      /\ \A i \in 1..p : (x \o y)[i] = x[i]
      /\ \A i \in 1..q : (x \o y)[p + i] = y[i]
  BY <1>1, JoinedIs
<1>3. /\ b \in Seq(Byte) /\ Len(b) = Len(x \o y) + Len(z)
      /\ \A i \in 1..Len(x \o y) : b[i] = (x \o y)[i]
      /\ \A i \in 1..Len(z) : b[Len(x \o y) + i] = z[i]
  BY <1>1, <1>2, JoinedIs
<1>4. /\ Len(b) = p + q + r
      /\ \A i \in 1..(p + q) : b[i] = (x \o y)[i]
      /\ \A i \in 1..r : b[p + q + i] = z[i]
  BY <1>2, <1>3
<1>5. b \in Bytes
  BY <1>3 DEF Bytes
<1>6. DOMAIN x = 1..p /\ DOMAIN y = 1..q /\ DOMAIN z = 1..r
  BY <1>1
<1>7. \A s, t \in Seq(Byte) : Len(s) = Len(t) /\ (\A i \in 1..Len(t) : s[i] = t[i]) => s = t
  OBVIOUS
<1> HIDE DEF b, p, q, r
<1>8. SubSeq(b, 1, p) = x
  <2>1. p \in 0..Len(b)
    BY <1>1, <1>4
  <2>2. /\ SubSeq(b, 1, p) \in Seq(Byte) /\ Len(SubSeq(b, 1, p)) = p
        /\ \A k \in 1..p : SubSeq(b, 1, p)[k] = b[k]
    BY <2>1, <1>5, PrefixIs DEF Bytes
  <2>3. ASSUME NEW k \in 1..p PROVE b[k] = x[k]
    <3>1. k \in 1..(p + q)
      BY <1>1
    <3> QED BY <3>1, <1>2, <1>4
  <2> QED BY <2>2, <2>3, <1>1, <1>7 DEF p
<1>9. SubSeq(b, p + 1, p + q) = y
  <2>1. p + q \in 0..Len(b) /\ p <= p + q /\ p + q - p = q
    BY <1>1, <1>4
  <2>2. /\ SubSeq(b, p + 1, p + q) \in Seq(Byte) /\ Len(SubSeq(b, p + 1, p + q)) = q
        /\ \A k \in 1..q : SubSeq(b, p + 1, p + q)[k] = b[p + k]
    BY <2>1, <1>1, <1>5, SliceIs DEF Bytes
  <2>3. ASSUME NEW k \in 1..q PROVE b[p + k] = y[k]
    <3>1. p + k \in 1..(p + q)
      BY <1>1
    <3> QED BY <3>1, <1>2, <1>4
  <2> QED BY <2>2, <2>3, <1>1, <1>7 DEF q
<1>10. SubSeq(b, p + q + 1, Len(b)) = z
  <2>1. p + q \in Nat /\ Len(b) \in 0..Len(b) /\ p + q <= Len(b) /\ Len(b) - (p + q) = r
    BY <1>1, <1>4
  <2>2. /\ SubSeq(b, p + q + 1, Len(b)) \in Seq(Byte) /\ Len(SubSeq(b, p + q + 1, Len(b))) = r
        /\ \A k \in 1..r : SubSeq(b, p + q + 1, Len(b))[k] = b[p + q + k]
    BY <2>1, <1>5, SliceIs DEF Bytes
  <2> QED BY <2>2, <1>1, <1>4, <1>7 DEF r
<1> QED BY <1>4, <1>5, <1>8, <1>9, <1>10 DEF b, p, q, r

\* A block is taken off the front of what it starts (take_block, takeBlock).
LEMMA TakeBlock ==
  ASSUME NEW m \in Bytes, Fits(Len(m)), NEW c \in Bytes
  PROVE  take_block(block(m) \o c) = [ok |-> TRUE, bytes |-> m, rest |-> c]
<1> DEFINE b == block(m) \o c
           x == be(Len(m))
<1>1. Len(m) \in Nat /\ Len(c) \in Nat /\ LenBytes \in Nat
  BY FramingAssumption DEF Bytes
<1>2. x \in Bytes /\ Len(x) = LenBytes /\ uint(x) = Len(m)
  BY <1>1, LengthRoundTrip
<1>3. b = (x \o m) \o c
  BY DEF block
<1> HIDE DEF b, x
<1>4. /\ Len(b) = LenBytes + Len(m) + Len(c)
      /\ SubSeq(b, 1, LenBytes) = x
      /\ SubSeq(b, LenBytes + 1, LenBytes + Len(m)) = m
      /\ SubSeq(b, LenBytes + Len(m) + 1, Len(b)) = c
  <2>1. /\ Len(b) = Len(x) + Len(m) + Len(c)
        /\ SubSeq(b, 1, Len(x)) = x
        /\ SubSeq(b, Len(x) + 1, Len(x) + Len(m)) = m
        /\ SubSeq(b, Len(x) + Len(m) + 1, Len(b)) = c
    <3> HIDE DEF x
    <3>1. x \in Bytes /\ m \in Bytes /\ c \in Bytes
      BY <1>2
    <3>2. Len((x \o m) \o c) = Len(x) + Len(m) + Len(c)
      BY <3>1, JoinedSlices
    <3>3. SubSeq((x \o m) \o c, 1, Len(x)) = x
      BY <3>1, JoinedSlices
    <3>4. SubSeq((x \o m) \o c, Len(x) + 1, Len(x) + Len(m)) = m
      BY <3>1, JoinedSlices
    <3>5. SubSeq((x \o m) \o c, Len(x) + Len(m) + 1, Len((x \o m) \o c)) = c
      BY <3>1, JoinedSlices
    <3> QED BY <3>2, <3>3, <3>4, <3>5, <1>3, Zenon
  <2> QED BY <2>1, <1>2
<1>5. ~(Len(b) < LenBytes \/ Len(b) < LenBytes + uint(x))
  BY <1>1, <1>2, <1>4
<1>6. take_block(b) = [ok |-> TRUE, bytes |-> m, rest |-> c]
  BY <1>2, <1>4, <1>5 DEF take_block
<1> QED BY <1>6 DEF b

\* A byte, and no byte, fit any length prefix.
LEMMA SmallFits == Fits(0) /\ Fits(1)
<1>1. LenBytes \in Nat /\ LenBytes >= 1
  BY FramingAssumption
<1>2. ASSUME NEW n \in {0, 1} PROVE Fits(n)
  <2>1. PICK f \in [0..LenBytes -> Nat] :
           /\ f[0] = 1
           /\ \A k \in 1..LenBytes : f[k] = 256 * f[k - 1]
           /\ Fits(n) <=> n < f[LenBytes]
    BY FitsIs
  <2> DEFINE S == {k \in Nat : k < LenBytes => f[k + 1] > 1}
  <2>2. ASSUME NEW d \in Nat, \A j \in 0..(d - 1) : j \in S
        PROVE  d \in S
    <3> SUFFICES ASSUME d < LenBytes PROVE f[d + 1] > 1
      OBVIOUS
    <3>1. d \in 0..LenBytes /\ d + 1 \in 1..LenBytes /\ d + 1 - 1 = d
      BY <1>1
    <3>2. f[d + 1] = 256 * f[d] /\ f[d] \in Nat
      BY <2>1, <3>1
    <3>3. f[d] >= 1
      <4>1. CASE d = 0
        BY <4>1, <2>1
      <4>2. CASE d # 0
        <5>1. d - 1 \in 0..(d - 1) /\ d - 1 < LenBytes /\ d - 1 + 1 = d
          BY <4>2, <1>1
        <5>2. f[d - 1 + 1] > 1
          BY <5>1, <2>2
        <5> QED BY <5>1, <5>2, <3>2
      <4> QED BY <4>1, <4>2
    <3> QED BY <3>2, <3>3
  <2>3. \A d \in Nat : d \in S
    <3> HIDE DEF S
    <3> QED BY <2>2, Induction
  <2>4. LenBytes - 1 \in Nat /\ LenBytes - 1 < LenBytes /\ LenBytes - 1 + 1 = LenBytes
    BY <1>1
  <2>5. f[LenBytes - 1 + 1] > 1
    BY <2>3, <2>4
  <2> QED BY <2>1, <2>4, <2>5
<1> QED BY <1>2

\* A whole body is read for what it says (encode_response_body, decodeResponseBody).
LEMMA DecodeWhole ==
  ASSUME NEW m \in Bytes, Fits(Len(m)), NEW code \in Byte
  PROVE  decode_response_body(encode_response_body(m, code)) =
           [ok |-> TRUE, message |-> m, code |-> code]
<1> DEFINE t == encode_trailer_block(code)
<1>1. t \in Bytes /\ Trailer(code) \in Bytes
  BY BodyIs
<1>2. t \o <<>> = t /\ <<>> \in Bytes
  BY <1>1 DEF Bytes
<1>3. Fits(Len(Trailer(code)))
  BY SmallFits DEF Trailer
<1>4. take_block(t) = [ok |-> TRUE, bytes |-> Trailer(code), rest |-> <<>>]
  <2>1. take_block(block(Trailer(code)) \o <<>>) = [ok |-> TRUE, bytes |-> Trailer(code), rest |-> <<>>]
    BY <1>1, <1>2, <1>3, TakeBlock
  <2> QED BY <2>1, <1>2 DEF encode_trailer_block
<1>5. take_block(block(m) \o t) = [ok |-> TRUE, bytes |-> m, rest |-> t]
  BY <1>1, TakeBlock
<1>6. statusCode(Trailer(code)) = code
  BY DEF statusCode, Trailer
<1> HIDE DEF t
<1>7. decode_response_body(block(m) \o t) = [ok |-> TRUE, message |-> m, code |-> code]
  <2> DEFINE first == take_block(block(m) \o t)
             second == take_block(first.rest)
  <2>1. first.ok /\ first.bytes = m /\ first.rest = t
    BY <1>5
  <2>2. second.ok /\ second.bytes = Trailer(code)
    BY <2>1, <1>4
  <2>3. decode_response_body(block(m) \o t) =
          IF ~first.ok THEN Truncated
          ELSE IF ~second.ok THEN Truncated
          ELSE [ok |-> TRUE, message |-> first.bytes, code |-> statusCode(second.bytes)]
    BY DEF decode_response_body
  <2> HIDE DEF first, second
  <2> QED BY <2>1, <2>2, <2>3, <1>6
<1> QED BY <1>7 DEF t, encode_response_body

\* The start of a block, even all of it, is no body (takeBlock).
LEMMA DecodeCut ==
  ASSUME NEW m \in Bytes, Fits(Len(m)), NEW n \in 0..Len(block(m))
  PROVE  ~decode_response_body(SubSeq(block(m), 1, n)).ok
<1> DEFINE b == SubSeq(block(m), 1, n)
           x == be(Len(m))
<1>1. /\ Len(m) \in Nat /\ LenBytes \in Nat /\ LenBytes >= 1
      /\ block(m) \in Bytes /\ Len(block(m)) = LenBytes + Len(m)
  BY FramingAssumption, BlockIs DEF Bytes
<1>2. x \in Bytes /\ Len(x) = LenBytes /\ uint(x) = Len(m)
  BY <1>1, LengthRoundTrip
<1>3. n \in Nat /\ n <= LenBytes + Len(m)
  BY <1>1
<1>4. b \in Bytes /\ Len(b) = n /\ \A k \in 1..n : b[k] = block(m)[k]
  BY <1>1, PrefixIs
<1> HIDE DEF b
<1>5. ~Truncated.ok /\ decode_response_body(b) = IF ~take_block(b).ok THEN Truncated
         ELSE IF ~take_block(take_block(b).rest).ok THEN Truncated
         ELSE [ok |-> TRUE, message |-> take_block(b).bytes,
               code |-> statusCode(take_block(take_block(b).rest).bytes)]
  BY DEF Truncated, decode_response_body
<1>6. CASE n < LenBytes
  <2>1. take_block(b) = Truncated
    BY <1>4, <1>6 DEF take_block
  <2> QED BY <2>1, <1>5 DEF b
<1>7. CASE ~(n < LenBytes)
  <2>1. SubSeq(b, 1, LenBytes) = x
    <3>1. LenBytes \in 0..Len(b)
      BY <1>1, <1>3, <1>4, <1>7
    <3>2. /\ SubSeq(b, 1, LenBytes) \in Seq(Byte) /\ Len(SubSeq(b, 1, LenBytes)) = LenBytes
          /\ \A k \in 1..LenBytes : SubSeq(b, 1, LenBytes)[k] = b[k]
      BY <3>1, <1>4, PrefixIs DEF Bytes
    <3>3. \A k \in 1..Len(x) : (x \o m)[k] = x[k]
      BY <1>2, JoinedIs DEF Bytes
    <3>4. ASSUME NEW k \in 1..LenBytes PROVE b[k] = x[k]
      <4>1. k \in 1..n
        BY <1>1, <1>3, <1>7
      <4> QED BY <4>1, <3>3, <1>2, <1>4 DEF block
    <3>5. \A s, t \in Seq(Byte) : Len(s) = Len(t) /\ (\A i \in 1..Len(t) : s[i] = t[i]) => s = t
      OBVIOUS
    <3> HIDE DEF x
    <3>6. x \in Seq(Byte)
      BY <1>2 DEF Bytes
    <3> QED BY <3>2, <3>4, <3>5, <3>6, <1>2
  <2>2. CASE n < LenBytes + Len(m)
    <3>1. take_block(b) = Truncated
      BY <2>1, <2>2, <1>2, <1>4 DEF take_block
    <3> QED BY <3>1, <1>5 DEF b
  <2>3. CASE n = LenBytes + Len(m)
    <3>1. take_block(b) = [ok |-> TRUE, bytes |-> SubSeq(b, LenBytes + 1, LenBytes + Len(m)),
                           rest |-> SubSeq(b, LenBytes + Len(m) + 1, Len(b))]
      <4>1. ~(n < LenBytes + Len(m))
        BY <1>1, <2>3
      <4> QED BY <4>1, <2>1, <1>2, <1>4, <1>7 DEF take_block
    <3>2. After(b, Len(b)) \in Bytes /\ Len(After(b, Len(b))) = 0
      <4>1. Len(b) \in 0..Len(b) /\ Len(b) - Len(b) = 0
        BY <1>3, <1>4
      <4> QED BY <4>1, <1>4, AfterIs
    <3>3. After(b, Len(b)) = SubSeq(b, LenBytes + Len(m) + 1, Len(b))
      BY <2>3, <1>4 DEF After
    <3>4. take_block(take_block(b).rest) = Truncated
      <4>1. Len(After(b, Len(b))) < LenBytes
        BY <1>1, <3>2
      <4>2. take_block(After(b, Len(b))) = Truncated
        BY <4>1 DEF take_block
      <4> QED BY <4>2, <3>1, <3>3
    <3> QED BY <3>4, <1>5 DEF b, Truncated
  <2> QED BY <2>2, <2>3, <1>1, <1>3
<1> QED BY <1>6, <1>7

\* JSON text is read back to the message it was made of.
LEMMA JsonIsRead ==
  ASSUME NEW m \in Bytes
  PROVE  /\ Json(m) \in Bytes /\ Json(m) # <<>>
         /\ SubSeq(Json(m), 2, Len(Json(m)) - 1) = m
<1>1. <<123>> \in Bytes /\ <<125>> \in Bytes /\ Len(<<123>>) = 1 /\ Len(<<125>>) = 1
  BY DEF Bytes, Byte
<1>2. Len(m) \in Nat
  BY DEF Bytes
<1>3. /\ Json(m) \in Bytes /\ Len(Json(m)) = 1 + Len(m) + 1
      /\ SubSeq(Json(m), 1 + 1, 1 + Len(m)) = m
  <2> DEFINE x == <<123>>
             z == <<125>>
  <2> HIDE DEF x, z
  <2>1. Json(m) = (x \o m) \o z
    BY DEF Json, x, z
  <2>2. x \in Bytes /\ z \in Bytes /\ Len(x) = 1 /\ Len(z) = 1
    BY <1>1 DEF x, z
  <2>3. /\ Json(m) \in Bytes /\ Len(Json(m)) = Len(x) + Len(m) + Len(z)
        /\ SubSeq(Json(m), Len(x) + 1, Len(x) + Len(m)) = m
    <3>1. x \in Bytes /\ z \in Bytes
      BY <2>2
    <3>2. (x \o m) \o z \in Bytes
      BY <3>1, JoinedSlices
    <3>3. Len((x \o m) \o z) = Len(x) + Len(m) + Len(z)
      BY <3>1, JoinedSlices
    <3>4. SubSeq((x \o m) \o z, Len(x) + 1, Len(x) + Len(m)) = m
      BY <3>1, JoinedSlices
    <3> QED BY <2>1, <3>2, <3>3, <3>4, Zenon
  <2> QED BY <2>2, <2>3
<1>4. Len(Json(m)) - 1 = 1 + Len(m) /\ Len(Json(m)) # 0 /\ 1 + 1 = 2
  BY <1>2, <1>3
<1>5. Json(m) # <<>>
  BY <1>4
<1> QED BY <1>3, <1>4, <1>5

\* Whatever is in a body, what is taken off it are bytes.
LEMMA DecodeType ==
  ASSUME NEW b \in Bytes, decode_response_body(b).ok
  PROVE  decode_response_body(b).message \in Bytes /\ decode_response_body(b).code \in Byte
<1>1. ASSUME NEW c \in Bytes, take_block(c).ok
      PROVE  take_block(c).bytes \in Bytes /\ take_block(c).rest \in Bytes
  <2> DEFINE n == uint(SubSeq(c, 1, LenBytes))
  <2>1. LenBytes \in Nat /\ Len(c) \in Nat
    BY FramingAssumption DEF Bytes
  <2>2. /\ ~(Len(c) < LenBytes) /\ ~(Len(c) < LenBytes + n)
        /\ take_block(c).bytes = SubSeq(c, LenBytes + 1, LenBytes + n)
        /\ take_block(c).rest = SubSeq(c, LenBytes + n + 1, Len(c))
    BY <1>1 DEF take_block, Truncated
  <2>3. n \in Nat
    <3>1. LenBytes \in 0..Len(c)
      BY <2>1, <2>2
    <3>2. SubSeq(c, 1, LenBytes) \in Bytes
      BY <3>1, PrefixIs
    <3> QED BY <3>2, UintIsNat
  <2> HIDE DEF n
  <2>4. LenBytes + n \in 0..Len(c) /\ LenBytes <= LenBytes + n /\ LenBytes + n \in Nat
    BY <2>1, <2>2, <2>3
  <2>5. SubSeq(c, LenBytes + 1, LenBytes + n) \in Bytes
    BY <2>1, <2>4, SliceIs
  <2>6. Len(c) \in 0..Len(c) /\ LenBytes + n <= Len(c)
    BY <2>1, <2>4
  <2>7. SubSeq(c, LenBytes + n + 1, Len(c)) \in Bytes
    BY <2>4, <2>6, SliceIs
  <2> QED BY <2>2, <2>5, <2>7
<1> DEFINE message == take_block(b)
           trailer == take_block(message.rest)
<1>2. /\ message.ok /\ trailer.ok
      /\ decode_response_body(b).message = message.bytes
      /\ decode_response_body(b).code = statusCode(trailer.bytes)
  BY DEF decode_response_body, Truncated
<1>3. message.bytes \in Bytes /\ message.rest \in Bytes
  BY <1>1, <1>2
<1>4. trailer.bytes \in Bytes
  BY <1>1, <1>2, <1>3
<1>5. \A t \in Seq(Byte) : statusCode(t) \in Byte
  <2>1. \A t \in Seq(Byte) : t # <<>> => t[1] \in Byte
    OBVIOUS
  <2> QED BY <2>1 DEF statusCode, Byte
<1> QED BY <1>2, <1>3, <1>4, <1>5 DEF Bytes


\* The client's steps leave the server alone, but for its timer and the link.
LEMMA TypeOfClient ==
  ASSUME TypeOK, UNCHANGED <<req, got, schema, handler, call, reply, response, held>>,
         link' \in {"up", "down"},
         NEW t \in Unset..req.timeout, timers' = [timers EXCEPT !.client = t],
         fetching' \in {"new", "sent", "settled"}, signal' \in {"none", "deadline", "cancel"},
         outcomes' \in Seq(Outcomes), Len(outcomes') <= 2
  PROVE  TypeOK'
<1> USE DEF TypeOK
<1>1. req' = req /\ Proto' = Proto /\ Answer' = Answer
  BY DEF Proto, Answer
<1>2. timers' \in [client : Unset..req.timeout, call : Unset..req.timeout]
  OBVIOUS
<1>3. held' \in 0..HeldBound'
  BY <1>1 DEF HeldBound
<1> QED BY <1>1, <1>2, <1>3 DEF InPlace

\* What the application is called back with is a message or a code.
LEMMA OutcomeTypes ==
  ASSUME TypeOK
  PROVE  errorForFailure \in Outcomes /\ Outcome(response) \in Outcomes
<1>1. \A m \in Bytes : Value(m) \in Outcomes
  BY DEF Value, Outcomes
<1>2. \A code \in Byte : Fails(code) \in Outcomes
  BY DEF Fails, Outcomes
<1>3. errorForFailure \in Outcomes
  BY <1>2 DEF errorForFailure, statusForAbort, Byte, UNKNOWN, CANCELLED, DEADLINE_EXCEEDED
<1>4. \A m \in Bytes : Deserialized(m) \in Outcomes
  BY <1>1, <1>3 DEF Deserialized
<1>5. response.body \in Bytes /\ response.status \in Codes
  BY DEF TypeOK, Responses
<1>6. decodeFetchResponseBody(response.body) \in Outcomes
  <2> DEFINE d == decode_response_body(response.body)
  <2>1. d.ok => d.message \in Bytes /\ d.code \in Byte
    BY <1>5, DecodeType
  <2> HIDE DEF d
  <2>2. d.ok => Deserialized(d.message) \in Outcomes /\ Fails(d.code) \in Outcomes
    BY <2>1, <1>2, <1>4
  <2>3. decodeFetchResponseBody(response.body) =
          IF ~d.ok THEN errorForFailure ELSE ByStatus(d.code, Deserialized(d.message))
    BY DEF decodeFetchResponseBody, d
  <2> QED BY <2>2, <2>3, <1>3 DEF ByStatus
<1>7. FromJson(response.body) \in Outcomes
  <2> DEFINE text == response.body
  <2>1. CASE text = <<>>
    BY <2>1, <1>3 DEF FromJson
  <2>2. CASE text # <<>>
    <3>1. text \in Seq(Byte) /\ Len(text) \in Nat /\ Len(text) # 0
      BY <1>5, <2>2 DEF Bytes
    <3>2. CASE Len(text) = 1
      <4>1. Len(text) - 1 = 0 /\ SubSeq(text, 2, 0) = <<>>
        BY <3>1, <3>2
      <4>2. <<>> \in Bytes
        BY DEF Bytes
      <4> QED BY <4>1, <4>2, <2>2, <1>4 DEF FromJson
    <3>3. CASE Len(text) # 1
      <4>1. PICK i \in Nat : i = 1
        OBVIOUS
      <4>2. i <= Len(text) - 1 /\ Len(text) - 1 \in 0..Len(text) /\ i + 1 = 2
        <5> DEFINE l == Len(text)
        <5>1. l \in Nat /\ l # 0 /\ l # 1
          BY <3>1, <3>3
        <5> HIDE DEF l
        <5>2. i <= l - 1 /\ l - 1 \in 0..l /\ i + 1 = 2
          BY <5>1, <4>1
        <5> QED BY <5>2 DEF l
      <4>3. SubSeq(text, i + 1, Len(text) - 1) \in Bytes
        BY <4>2, <1>5, SliceIs
      <4> QED BY <4>2, <4>3, <2>2, <1>4 DEF FromJson
    <3> QED BY <3>2, <3>3
  <2> QED BY <2>1, <2>2
<1>8. ByStatus(IF response.status = Unset THEN OK ELSE response.status, FromJson(response.body)) \in Outcomes
  BY <1>2, <1>5, <1>7 DEF ByStatus, Codes, OK
<1>9. Fails(UNAVAILABLE) \in Outcomes
  BY <1>2 DEF Byte, UNAVAILABLE
<1> QED BY <1>3, <1>6, <1>8, <1>9 DEF Outcome

\* The requests of the call, typed: what every step needs to know of them.
LEMMA RequestIs ==
  ASSUME TypeOK
  PROVE  /\ req.bytes \in Bytes /\ req.timeout \in Nat /\ Len(req.bytes) \in Nat /\ got \in Nat
         /\ req.sdk \in BOOLEAN
<1>1. req \in Requests /\ got \in 0..Len(req.bytes)
  BY DEF TypeOK
<1>2. req.bytes \in Bytes /\ req.timeout \in Nat /\ req.sdk \in BOOLEAN
  BY <1>1, RequestsAssumption
<1>3. Len(req.bytes) \in Nat
  BY <1>2, BytesAreNats
<1> QED BY <1>1, <1>2, <1>3

LEMMA LeadIs ==
  ASSUME TypeOK, NEW n \in 1..Left, Lead(n)
  PROVE  got' \in 0..Len(req.bytes) /\ got' = got + n
BY RequestIs DEF Left, Lead, TypeOK

Turns == {INVALID_ARGUMENT, RESOURCE_EXHAUSTED, UNIMPLEMENTED, INTERNAL, UNAVAILABLE}

\* What each step of arriving and of reading the request comes to: the handler goes on
\* to read, turns the call away or fails it for a cause, or makes the call.
ReadingStep ==
  /\ handler.at \in Before /\ got' \in got..Len(req.bytes)
  /\ \/ \E at \in Before :
          /\ Stand(at) /\ (at = "lead" => Proto) /\ (at = "body" => ~Proto)
          /\ UNCHANGED <<req, link, schema, call, reply, response, timers, held>>
     \/ \E http \in {400, 413, 415} : Refuse(text_response(http))
     \/ \E code \in Turns :
          /\ Refuse(webnext_error(code))
          /\ code = RESOURCE_EXHAUSTED => Len(req.bytes) > MaxMessage
          /\ code \in {INVALID_ARGUMENT, UNIMPLEMENTED} => ~Proto
     \/ /\ ~Proto
        /\ \E method, request : Routed(method, request) /\ Dispatch(method, request, TRUE)
     \/ /\ Proto /\ LenBytes <= got' /\ uint(SubSeq(req.bytes, 1, LenBytes)) <= MaxMessage
        /\ Dispatch(req.parts, <<0>> \o SubSeq(req.bytes, 1, got'), FALSE)

LEMMA BeginStep ==
  ASSUME TypeOK, handler.at \in Before,
         NEW loaded, NEW code \in Byte, ~loaded => code \in {UNIMPLEMENTED, UNAVAILABLE},
         Begin(loaded, code)
  PROVE  ReadingStep
<1>1. got' \in got..Len(req.bytes)
  BY BeginIs, RequestIs DEF TypeOK
<1>2. 415 \in {400, 413, 415}
  OBVIOUS
<1>3. /\ code \in {UNIMPLEMENTED, UNAVAILABLE} => code \in Turns /\ code # RESOURCE_EXHAUSTED
  BY DEF Turns, UNIMPLEMENTED, UNAVAILABLE, RESOURCE_EXHAUSTED
<1>4. CASE /\ \E at \in {"lead", "body"} : Stand(at) /\ (at = "lead" <=> Proto)
           /\ UNCHANGED <<req, link, schema, call, reply, response, timers, held>>
  BY <1>1, <1>4 DEF ReadingStep, Before
<1>5. CASE Proto /\ Refuse(text_response(415))
  BY <1>1, <1>2, <1>5 DEF ReadingStep
<1>6. CASE ~Proto /\ ~loaded /\ Refuse(webnext_error(code))
  BY <1>1, <1>3, <1>6 DEF ReadingStep
<1> QED BY <1>4, <1>5, <1>6, BeginIs

LEMMA ReadingIs ==
  ASSUME TypeOK,
         Arrive \/ SchemaArrives \/ SchemaGivesUp \/ ReadLead \/ LeadEnds
           \/ ReadBody \/ BodyCut \/ json_fetch
  PROVE  ReadingStep
<1>1. got \in got..Len(req.bytes)
  BY RequestIs DEF TypeOK
<1>2. ASSUME NEW http \in {400, 413, 415}, handler.at \in Before,
             Refuse(text_response(http)), got' \in got..Len(req.bytes)
      PROVE  ReadingStep
  BY ZenonT(60), <1>2 DEF ReadingStep
<1>3. ASSUME handler.at \in Before, got' \in got..Len(req.bytes),
             UNCHANGED <<req, link, schema, handler, call, reply, response, timers, held>>
      PROVE  ReadingStep
  <2>1. Stand(handler.at) /\ (handler.at = "lead" => Proto) /\ (handler.at = "body" => ~Proto)
    BY <1>3 DEF Stand, TypeOK, InPlace
  <2>2. UNCHANGED <<req, link, schema, call, reply, response, timers, held>>
    BY <1>3
  <2> QED BY <2>1, <2>2, <1>3 DEF ReadingStep
<1>4. OK \in Byte /\ UNIMPLEMENTED \in Byte /\ UNAVAILABLE \in Byte
  BY DEF Byte, OK, UNIMPLEMENTED, UNAVAILABLE
<1>5. CASE Arrive
  <2>1. handler.at = "idle" /\ handler.at \in Before
    BY <1>5 DEF Arrive, Before
  <2>2. CASE req.ct = "other"
    <3>1. Refuse(text_response(415)) /\ got' = got
      BY <1>5, <2>2 DEF Arrive
    <3> QED BY <3>1, <2>1, <1>1, <1>2
  <2>3. CASE req.ct # "other" /\ schema = "loading"
    <3>1. Stand("schema") /\ "schema" \in Before /\ got' = got
          /\ UNCHANGED <<req, link, schema, call, reply, response, timers, held>>
      BY <1>5, <2>3 DEF Arrive, Before
    <3> QED BY <3>1, <2>1, <1>1 DEF ReadingStep
  <2>4. CASE req.ct # "other" /\ schema # "loading"
    <3>1. Begin(schema = "loaded", UNIMPLEMENTED)
      BY <1>5, <2>4 DEF Arrive
    <3> QED BY <3>1, <2>1, <1>4, BeginStep
  <2> QED BY <2>2, <2>3, <2>4
<1>6. CASE SchemaArrives
  BY <1>4, <1>6, BeginStep DEF SchemaArrives, Before
<1>7. CASE SchemaGivesUp
  BY <1>4, <1>7, BeginStep DEF SchemaGivesUp, Before
<1>8. CASE ReadLead
  <2>1. PICK n \in 1..Left : Lead(n) /\ FrameLead
    BY <1>8 DEF ReadLead
  <2>2. handler.at \in Before /\ Proto
    BY <1>8 DEF ReadLead, Before, TypeOK, InPlace
  <2>3. got' \in got..Len(req.bytes) /\ got' \in 0..Len(req.bytes)
    BY <2>1, LeadIs, RequestIs DEF TypeOK
  <2>4. CASE /\ ~(Len(SubSeq(req.bytes, 1, got')) < LenBytes)
             /\ ~(uint(SubSeq(SubSeq(req.bytes, 1, got'), 1, LenBytes)) > MaxMessage)
             /\ Dispatch(req.parts, <<0>> \o SubSeq(req.bytes, 1, got'), FALSE)
    <3> DEFINE lead == SubSeq(req.bytes, 1, got')
    <3>1. lead \in Bytes /\ Len(lead) = got' /\ \A k \in 1..got' : lead[k] = req.bytes[k]
      BY <2>3, RequestIs, PrefixIs
    <3>2. LenBytes \in Nat /\ LenBytes \in 0..got' /\ LenBytes \in 0..Len(req.bytes)
      <4>1. LenBytes \in Nat /\ got' \in Nat /\ Len(req.bytes) \in Nat /\ got' <= Len(req.bytes)
        BY <2>3, RequestIs, FramingAssumption
      <4>2. ~(got' < LenBytes)
        BY <2>4, <3>1
      <4> QED BY <4>1, <4>2
    <3> HIDE DEF lead
    <3>3. SubSeq(lead, 1, LenBytes) = SubSeq(req.bytes, 1, LenBytes)
      <4>1. LenBytes \in 0..Len(lead)
        BY <3>1, <3>2
      <4>2. /\ SubSeq(lead, 1, LenBytes) \in Bytes /\ Len(SubSeq(lead, 1, LenBytes)) = LenBytes
            /\ \A k \in 1..LenBytes : SubSeq(lead, 1, LenBytes)[k] = lead[k]
        BY <3>1, <4>1, PrefixIs
      <4>3. /\ SubSeq(req.bytes, 1, LenBytes) \in Bytes
            /\ Len(SubSeq(req.bytes, 1, LenBytes)) = LenBytes
            /\ \A k \in 1..LenBytes : SubSeq(req.bytes, 1, LenBytes)[k] = req.bytes[k]
        BY <3>2, RequestIs, PrefixIs
      <4>4. \A k \in 1..LenBytes : k \in 1..got'
        <5>1. LenBytes <= got' /\ got' \in Nat
          BY <3>2, <2>3, RequestIs
        <5> QED BY <5>1, <3>2
      <4>5. \A s, t \in Seq(Byte) :
              Len(s) = Len(t) /\ (\A i \in 1..Len(t) : s[i] = t[i]) => s = t
        OBVIOUS
      <4> DEFINE s == SubSeq(lead, 1, LenBytes)
                 t == SubSeq(req.bytes, 1, LenBytes)
      <4>6. s \in Seq(Byte) /\ t \in Seq(Byte) /\ Len(s) = Len(t)
            /\ \A i \in 1..Len(t) : s[i] = t[i]
        BY <4>2, <4>3, <4>4, <3>1 DEF Bytes
      <4> HIDE DEF s, t
      <4>7. s = t
        BY <4>5, <4>6
      <4> QED BY <4>7 DEF s, t
    <3>4. uint(SubSeq(req.bytes, 1, LenBytes)) \in Nat
      BY <3>2, RequestIs, PrefixIs, UintIsNat
    <3>5. uint(SubSeq(req.bytes, 1, LenBytes)) <= MaxMessage
      <4>1. ~(uint(SubSeq(lead, 1, LenBytes)) > MaxMessage)
        BY <2>4 DEF lead
      <4>2. ~(uint(SubSeq(req.bytes, 1, LenBytes)) > MaxMessage)
        BY <4>1, <3>3
      <4> DEFINE u == uint(SubSeq(req.bytes, 1, LenBytes))
      <4> HIDE DEF u
      <4>3. u <= MaxMessage
        BY <4>2, <3>4, MaxMessageAssumption DEF u
      <4> QED BY <4>3 DEF u
    <3>6. LenBytes <= got'
      BY <3>2
    <3> QED BY <3>5, <3>6, <2>2, <2>3, <2>4 DEF ReadingStep
  <2>5. CASE Refuse(text_response(413))
    BY <2>2, <2>3, <2>5, <1>2
  <2> QED BY <2>1, <2>2, <2>3, <2>4, <2>5, <1>3, FrameLeadIs
<1>9. CASE LeadEnds
  <2>1. handler.at \in Before /\ Refuse(text_response(400)) /\ got' = got
    BY <1>9 DEF LeadEnds, Before
  <2> QED BY <2>1, <1>1, <1>2
<1>10. CASE ReadBody
  <2>1. PICK n \in 1..Left :
          /\ Lead(n)
          /\ IF got' > MaxMessage THEN Refuse(webnext_error(RESOURCE_EXHAUSTED))
             ELSE UNCHANGED <<req, link, schema, handler, call, reply, response, timers, held>>
    BY <1>10 DEF ReadBody
  <2>2. handler.at \in Before
    BY <1>10 DEF ReadBody, Before
  <2>3. got' \in got..Len(req.bytes) /\ got' \in Nat
    BY <2>1, LeadIs, RequestIs DEF TypeOK
  <2>4. CASE got' > MaxMessage
    <3>1. Refuse(webnext_error(RESOURCE_EXHAUSTED))
      BY <2>1, <2>4
    <3>2. Len(req.bytes) > MaxMessage
      BY <2>3, <2>4, RequestIs, MaxMessageAssumption
    <3>3. RESOURCE_EXHAUSTED \in Turns /\ RESOURCE_EXHAUSTED \notin {INVALID_ARGUMENT, UNIMPLEMENTED}
      BY DEF Turns, RESOURCE_EXHAUSTED, INVALID_ARGUMENT, UNIMPLEMENTED
    <3> QED BY <3>1, <3>2, <3>3, <2>2, <2>3 DEF ReadingStep
  <2> QED BY <2>1, <2>2, <2>3, <2>4, <1>3
<1>11. CASE BodyCut
  <2>1. handler.at \in Before /\ Refuse(webnext_error(INTERNAL)) /\ got' = got
    BY <1>11 DEF BodyCut, Before
  <2>2. INTERNAL \in Turns /\ INTERNAL # RESOURCE_EXHAUSTED
        /\ INTERNAL \notin {INVALID_ARGUMENT, UNIMPLEMENTED}
    BY DEF Turns, INTERNAL, RESOURCE_EXHAUSTED, INVALID_ARGUMENT, UNIMPLEMENTED
  <2> QED BY <2>1, <2>2, <1>1 DEF ReadingStep
<1>12. CASE json_fetch
  <2>1. /\ handler.at = "body" /\ handler.at \in Before /\ got' = got /\ ~Proto
        /\ \/ \E code \in {INVALID_ARGUMENT, UNIMPLEMENTED} : Refuse(webnext_error(code))
           \/ Refuse(text_response(415))
           \/ \E method, request : Routed(method, request) /\ Dispatch(method, request, TRUE)
    BY <1>12, JsonFetchIs DEF Before, TypeOK, InPlace
  <2>2. ASSUME NEW code \in {INVALID_ARGUMENT, UNIMPLEMENTED}, Refuse(webnext_error(code))
        PROVE  ReadingStep
    <3>1. code \in Turns /\ code # RESOURCE_EXHAUSTED
      BY DEF Turns, RESOURCE_EXHAUSTED, INVALID_ARGUMENT, UNIMPLEMENTED
    <3> QED BY <3>1, <2>1, <2>2, <1>1 DEF ReadingStep
  <2>3. CASE \E method, request : Routed(method, request) /\ Dispatch(method, request, TRUE)
    BY <2>1, <2>3, <1>1 DEF ReadingStep
  <2> QED BY ZenonT(60), <2>1, <2>2, <2>3, <1>1, <1>2
<1> QED BY <1>5, <1>6, <1>7, <1>8, <1>9, <1>10, <1>11, <1>12

LEMMA TypeOfReading ==
  ASSUME TypeOK, UNCHANGED clientVars, ReadingStep
  PROVE  TypeOK'
<1>1. handler.at \in Before /\ got' \in 0..Len(req.bytes)
  BY RequestIs DEF ReadingStep
<1>2. ASSUME NEW r \in Responses, Refuse(r) PROVE TypeOK'
  BY <1>1, <1>2, TypeOfFinish DEF Refuse, CallStates
<1>3. CASE \E at \in Before :
             /\ Stand(at) /\ (at = "lead" => Proto) /\ (at = "body" => ~Proto)
             /\ UNCHANGED <<req, link, schema, call, reply, response, timers, held>>
  <2>1. PICK at \in Before :
             /\ Stand(at) /\ (at = "lead" => Proto) /\ (at = "body" => ~Proto)
             /\ UNCHANGED <<req, link, schema, call, reply, response, timers, held>>
    BY <1>3
  <2>2. UNCHANGED <<req, link, schema, call, reply, response, timers, held, clientVars>>
    BY <2>1
  <2> QED BY <2>1, <2>2, <1>1, TypeOfStand
<1>4. CASE \E http \in {400, 413, 415} : Refuse(text_response(http))
  BY <1>2, <1>4, ResponseTypes
<1>5. CASE \E code \in Turns : Refuse(webnext_error(code))
  <2>1. Turns \subseteq Byte
    BY DEF Turns, Byte, INVALID_ARGUMENT, RESOURCE_EXHAUSTED, UNIMPLEMENTED, INTERNAL, UNAVAILABLE
  <2> QED BY <2>1, <1>2, <1>5, ResponseTypes
<1>6. CASE ~Proto /\ \E method, request : Dispatch(method, request, TRUE)
  BY <1>1, <1>6, TypeOfDispatch
<1>7. CASE Proto /\ Dispatch(req.parts, <<0>> \o SubSeq(req.bytes, 1, got'), FALSE)
  <2>1. <<0>> \o SubSeq(req.bytes, 1, got') \in Bytes
    <3>1. SubSeq(req.bytes, 1, got') \in Seq(Byte) /\ <<0>> \in Seq(Byte)
      BY <1>1, RequestIs, PrefixIs DEF Bytes, Byte
    <3> QED BY <3>1, JoinedIs DEF Bytes
  <2> QED BY <2>1, <1>1, <1>7, TypeOfDispatch
<1> QED BY ZenonT(60), <1>3, <1>4, <1>5, <1>6, <1>7 DEF ReadingStep

\* What is passed on of a chunk: the bytes after the flag (BackendSends).
LEMMA ChunkIs ==
  ASSUME TypeOK, NEW n \in 1..(Len(Answer) - reply.sent)
  PROVE  /\ reply.sent \in Nat /\ n \in Nat /\ n >= 1 /\ Answer \in Bytes
         /\ reply.sent + n \in 0..Len(Answer)
         /\ SubSeq(Answer, reply.sent + 1, reply.sent + n) \in Bytes
         /\ Len(SubSeq(Answer, reply.sent + 1, reply.sent + n)) = n
         /\ SubSeq(SubSeq(Answer, reply.sent + 1, reply.sent + n), handler.skip + 1, n) \in Bytes
<1>1. reply.sent \in Nat /\ Answer \in Bytes /\ Len(Answer) \in Nat /\ handler.skip \in {0, 1}
  BY AnswerType DEF TypeOK
<1>2. n \in Nat /\ n >= 1 /\ reply.sent + n \in 0..Len(Answer) /\ reply.sent <= reply.sent + n
      /\ reply.sent + n - reply.sent = n
  BY <1>1
<1>3. /\ SubSeq(Answer, reply.sent + 1, reply.sent + n) \in Bytes
      /\ Len(SubSeq(Answer, reply.sent + 1, reply.sent + n)) = n
  BY SMTT(60), <1>1, <1>2, SliceIs
<1> DEFINE data == SubSeq(Answer, reply.sent + 1, reply.sent + n)
<1> HIDE DEF data
<1>4. SubSeq(data, handler.skip + 1, n) \in Bytes
  <2>1. data \in Bytes /\ Len(data) = n
    BY <1>3 DEF data
  <2>2. handler.skip \in Nat /\ handler.skip <= n /\ n \in 0..Len(data)
    BY <1>1, <1>2, <2>1
  <2> QED BY <2>1, <2>2, SliceIs
<1> QED BY <1>1, <1>2, <1>3, <1>4 DEF data

LEMMA ResponseEdits ==
  ASSUME NEW r \in Responses
  PROVE  /\ \A b \in Bytes : [r EXCEPT !.body = b] \in Responses
         /\ \A b \in Bytes : [r EXCEPT !.body = b, !.eof = "end"] \in Responses
         /\ \A e \in {"end", "error"} : [r EXCEPT !.eof = e] \in Responses
BY ZenonT(60) DEF Responses

\* How a protobuf response is closed, and how a JSON one is made.
LEMMA ClosingTypes ==
  ASSUME TypeOK
  PROVE  /\ \A code \in Byte : Closed(code) \in Responses
         /\ \A code \in Byte : Transcoded(code) \in Responses
         /\ read_status(reply.trailers, reply.headers) \in Byte
<1>1. response.body \in Seq(Byte) /\ <<>> \in Bytes /\ <<>> \in Seq(Byte)
  BY DEF TypeOK, Responses, Bytes
<1>2. ASSUME NEW code \in Byte PROVE Closed(code) \in Responses
  <2> DEFINE middle == IF handler.saw THEN <<>> ELSE block(<<>>)
  <2>1. middle \in Seq(Byte)
    BY <1>1, BlockIs DEF Bytes
  <2> HIDE DEF middle
  <2>2. response.body \o middle \in Seq(Byte)
    BY <2>1, <1>1, JoinedIs
  <2>3. encode_trailer_block(code) \in Seq(Byte)
    BY <1>1, BodyIs DEF Bytes
  <2>4. (response.body \o middle) \o encode_trailer_block(code) \in Bytes
    BY <2>2, <2>3, JoinedIs DEF Bytes
  <2>5. Closed(code) =
          [response EXCEPT !.body = (response.body \o middle) \o encode_trailer_block(code),
                           !.eof = "end"]
    BY DEF Closed, middle
  <2>6. response \in Responses
    BY DEF TypeOK
  <2> QED BY <2>4, <2>5, <2>6, ResponseEdits
<1>3. ASSUME NEW code \in Byte PROVE Transcoded(code) \in Responses
  <2> DEFINE messages == deframe_all(Answer)
             m == IF messages = <<>> THEN <<>> ELSE messages[1]
  <2>1. Answer \in Bytes
    BY AnswerType DEF TypeOK
  <2>2. messages \in Seq(Bytes)
    BY <2>1, DeframeType
  <2>3. m \in Bytes
    <3>1. \A s \in Seq(Bytes) : s # <<>> => s[1] \in Bytes
      OBVIOUS
    <3> QED BY <3>1, <2>2, <1>1
  <2>4. Json(m) \in Bytes
    BY <2>3, JsonIsRead
  <2>5. OK \in Byte /\ INTERNAL \in Byte
    BY DEF Byte, OK, INTERNAL
  <2>6. /\ webnext_error(INTERNAL) \in Responses
        /\ json_fetch_response(OK, Json(m)) \in Responses
        /\ json_fetch_response(code, <<>>) \in Responses
    BY <2>4, <2>5, <1>1, ResponseTypes
  <2>7. Transcoded(code) =
          CASE code = OK /\ m # <<>> /\ m \in Garbled -> webnext_error(INTERNAL)
            [] code = OK /\ m # <<>> /\ m \notin Garbled -> json_fetch_response(OK, Json(m))
            [] OTHER -> json_fetch_response(code, <<>>)
    BY DEF Transcoded
  <2> HIDE DEF m
  <2> QED BY <2>6, <2>7
<1>4. read_status(reply.trailers, reply.headers) \in Byte
  BY DEF TypeOK, ReplyOK, Codes, read_status, OK, Byte, Unset
<1> QED BY <1>2, <1>3, <1>4

LEMMA TypeOfBackend ==
  ASSUME TypeOK, UNCHANGED clientVars, Backend
  PROVE  TypeOK'
<1>1. got \in 0..Len(req.bytes)
  BY DEF TypeOK
<1>2. CASE Forward
  <2>1. PICK n \in 1..Left :
          Lead(n) /\ call' = [call EXCEPT !.request = @ \o SubSeq(req.bytes, got + 1, got + n)]
    BY <1>2 DEF Forward
  <2>2. got' \in 0..Len(req.bytes) /\ got' = got + n
    BY <2>1, LeadIs
  <2>3. SubSeq(req.bytes, got + 1, got + n) \in Bytes
    <3>1. n \in Nat /\ got <= got + n /\ got + n \in 0..Len(req.bytes)
      BY <2>2, RequestIs
    <3> QED BY <3>1, RequestIs, SliceIs
  <2>4. /\ DOMAIN call' = DOMAIN NoCall /\ call'.at = call.at /\ call'.fed = call.fed
        /\ call'.request = call.request \o SubSeq(req.bytes, got + 1, got + n)
    BY <2>1 DEF TypeOK, NoCall
  <2>5. Proto => call'.request \in Bytes
    BY <2>3, <2>4, JoinedIs DEF TypeOK, Bytes
  <2>6. UNCHANGED <<req, link, schema, handler, reply, response, timers, held, clientVars>>
    BY <1>2 DEF Forward
  <2> QED BY <2>2, <2>4, <2>5, <2>6 DEF TypeOK, InPlace, Proto, Answer, HeldBound, clientVars
<1>3. CASE ForwardEnds
  <2>1. /\ DOMAIN call' = DOMAIN NoCall /\ call'.at = call.at /\ call'.fed = TRUE
        /\ call'.request = call.request
    BY <1>3 DEF ForwardEnds, TypeOK, NoCall
  <2>2. UNCHANGED <<req, got, link, schema, handler, reply, response, timers, held, clientVars>>
    BY <1>3 DEF ForwardEnds
  <2> QED BY ZenonT(60), <2>1, <2>2 DEF TypeOK, InPlace, Proto, Answer, HeldBound, clientVars
<1>4. CASE BackendRefuses
  <2>1. webnext_error(UNAVAILABLE) \in Responses
    BY ResponseTypes DEF Byte, UNAVAILABLE
  <2> QED BY <2>1, <1>1, <1>4, TypeOfFinish DEF BackendRefuses, CallStates
<1>5. CASE BackendAnswers
  <2>1. PICK r \in Replies :
          reply' = [headers |-> r.headers, messages |-> r.messages, trailers |-> r.trailers, sent |-> 0]
    BY <1>5 DEF BackendAnswers
  <2>2. ReplyOK(r) /\ ReplyOK(reply')
    <3>1. ReplyOK(r)
      BY RepliesAssumption
    <3> QED BY <3>1, <2>1 DEF ReplyOK
  <2>3. reply' \in [headers : Codes, messages : Seq(Bytes), trailers : Codes, sent : Nat]
    BY <2>1, <2>2 DEF ReplyOK
  <2>4. reply'.sent <= Len(Answer')
    <3>1. Len(Answer') \in Nat
      BY <2>2, FramedType DEF Answer
    <3> QED BY <3>1, <2>1
  <2>5. /\ DOMAIN call' = DOMAIN NoCall /\ call'.at = "answered" /\ call'.fed = call.fed
        /\ call'.request = call.request
    BY <1>5 DEF BackendAnswers, TypeOK, NoCall
  <2>6. UNCHANGED <<req, got, link, schema, held, clientVars>>
    BY <1>5 DEF BackendAnswers
  <2>7. /\ handler' = [handler EXCEPT !.at = IF Proto THEN "pumping" ELSE "collecting"]
        /\ response' = IF Proto THEN [response EXCEPT !.http = 200] ELSE response
        /\ timers' = IF Proto THEN [timers EXCEPT !.call = BodyDeadline] ELSE timers
    BY <1>5 DEF BackendAnswers, Stand
  <2>8. BodyDeadline \in Unset..req.timeout
    BY RequestIs DEF BodyDeadline, Unset
  <2>9. /\ handler' \in [at : HandlerStates, skip : {0, 1}, saw : BOOLEAN]
        /\ handler'.at = IF Proto THEN "pumping" ELSE "collecting"
    BY <2>7 DEF TypeOK, HandlerStates
  <2>10. response' \in Responses
    BY SMTT(60), <2>7 DEF TypeOK, Responses
  <2>11. timers' \in [client : Unset..req.timeout, call : Unset..req.timeout]
    BY <2>7, <2>8 DEF TypeOK
  <2>12. call'.at \in CallStates
    BY <2>5 DEF CallStates
  <2>13. InPlace'
    BY <2>5, <2>6, <2>9 DEF InPlace, Before, Proto
  <2> QED BY <2>2, <2>3, <2>4, <2>5, <2>6, <2>9, <2>10, <2>11, <2>12, <2>13
          DEF TypeOK, InPlace, Proto, HeldBound, clientVars
<1>6. CASE BackendSends
  <2>1. PICK n \in 1..(Len(Answer) - reply.sent) :
          LET data == SubSeq(Answer, reply.sent + 1, reply.sent + n)
              rest == SubSeq(data, handler.skip + 1, n)
          IN /\ reply' = [reply EXCEPT !.sent = @ + n]
             /\ IF Proto
                THEN /\ handler' = [handler EXCEPT !.skip = 0, !.saw = @ \/ rest # <<>>]
                     /\ response' = [response EXCEPT !.body = @ \o rest]
                ELSE UNCHANGED <<handler, response>>
    BY <1>6 DEF BackendSends
  <2>2. /\ reply.sent \in Nat /\ reply.sent + n \in 0..Len(Answer)
        /\ SubSeq(SubSeq(Answer, reply.sent + 1, reply.sent + n), handler.skip + 1, n) \in Bytes
    BY ChunkIs
  <2> DEFINE rest == SubSeq(SubSeq(Answer, reply.sent + 1, reply.sent + n), handler.skip + 1, n)
  <2>3. /\ reply' = [reply EXCEPT !.sent = @ + n]
        /\ handler' = IF Proto THEN [handler EXCEPT !.skip = 0, !.saw = @ \/ rest # <<>>] ELSE handler
        /\ response' = IF Proto THEN [response EXCEPT !.body = @ \o rest] ELSE response
    BY <2>1
  <2>4. rest \in Bytes
    BY <2>2
  <2> HIDE DEF rest
  <2>5. /\ reply' \in [headers : Codes, messages : Seq(Bytes), trailers : Codes, sent : Nat]
        /\ reply'.sent = reply.sent + n /\ reply'.headers = reply.headers
        /\ reply'.messages = reply.messages /\ reply'.trailers = reply.trailers
    <3>1. reply \in [headers : Codes, messages : Seq(Bytes), trailers : Codes, sent : Nat]
      BY DEF TypeOK
    <3>2. reply.sent + n \in Nat
      BY <2>2
    <3>3. reply' = [reply EXCEPT !.sent = reply.sent + n]
      BY <2>3
    <3> QED BY <3>1, <3>2, <3>3
  <2>6. ReplyOK(reply') /\ Answer' = Answer
    BY <2>5 DEF TypeOK, ReplyOK, Answer
  <2>7. reply'.sent <= Len(Answer')
    BY <2>2, <2>5, <2>6
  <2>8. handler' \in [at : HandlerStates, skip : {0, 1}, saw : BOOLEAN] /\ handler'.at = handler.at
    BY <2>3 DEF TypeOK
  <2>9. response' \in Responses
    <3>1. response.body \o rest \in Bytes
      BY <2>4, JoinedIs DEF TypeOK, Responses, Bytes
    <3>2. response \in Responses
      BY DEF TypeOK
    <3>3. [response EXCEPT !.body = response.body \o rest] \in Responses
      BY <3>1, <3>2, ResponseEdits
    <3> QED BY <3>2, <3>3, <2>3
  <2>10. UNCHANGED <<req, got, link, schema, call, timers, held, clientVars>>
    BY <1>6 DEF BackendSends
  <2> QED BY <2>5, <2>6, <2>7, <2>8, <2>9, <2>10 DEF TypeOK, InPlace, Proto, HeldBound, clientVars
<1>7. CASE BackendEnds
  <2> DEFINE code == read_status(reply.trailers, reply.headers)
  <2>1. code \in Byte
    BY ClosingTypes
  <2>2. Closed(code) \in Responses /\ Transcoded(code) \in Responses
    BY <2>1, ClosingTypes
  <2>3. Finish(IF Proto THEN Closed(code) ELSE Transcoded(code), "ended") /\ UNCHANGED <<got, reply>>
    BY <1>7 DEF BackendEnds
  <2> HIDE DEF code
  <2> QED BY <2>2, <2>3, <1>1, TypeOfFinish DEF CallStates
<1>8. CASE BackendBreaks
  <2>1. webnext_error(UNAVAILABLE) \in Responses
    BY ResponseTypes DEF Byte, UNAVAILABLE
  <2>2. [response EXCEPT !.eof = "error"] \in Responses
    BY SMTT(60) DEF TypeOK, Responses
  <2> QED BY <2>1, <2>2, <1>1, <1>8, TypeOfFinish DEF BackendBreaks, CallStates
<1> QED BY <1>2, <1>3, <1>4, <1>5, <1>6, <1>7, <1>8 DEF Backend

LEMMA TypeOfEnding ==
  ASSUME TypeOK, UNCHANGED clientVars, CallTimeout \/ BodyTimeout \/ Dropped \/ Tick
  PROVE  TypeOK'
<1>1. got \in 0..Len(req.bytes) /\ DEADLINE_EXCEEDED \in Byte
  BY DEF TypeOK, DEADLINE_EXCEEDED, Byte
<1>2. CASE CallTimeout
  BY <1>1, <1>2, ResponseTypes, TypeOfFinish DEF CallTimeout, CallStates
<1>3. CASE BodyTimeout
  <2>1. [response EXCEPT !.eof = "end"] \in Responses
    BY SMTT(60) DEF TypeOK, Responses
  <2> QED BY <2>1, <1>1, <1>3, ClosingTypes, TypeOfFinish DEF BodyTimeout, CallStates
<1>4. CASE Dropped
  <2>1. /\ DOMAIN call' = DOMAIN NoCall /\ call'.fed = call.fed /\ call'.request = call.request
        /\ call'.at = IF Live THEN "dropped" ELSE call.at
    BY <1>4 DEF Dropped, TypeOK, NoCall
  <2>2. call'.at \in CallStates /\ call'.at # "called" /\ call'.at # "answered"
    BY <2>1 DEF TypeOK, Live, CallStates
  <2>3. handler' \in [at : HandlerStates, skip : {0, 1}, saw : BOOLEAN] /\ handler'.at = "dropped"
    BY <1>4 DEF Dropped, TypeOK, HandlerStates
  <2>4. response' \in Responses
    <3>1. response' = [response EXCEPT !.eof = "error"] /\ response \in Responses
      BY <1>4 DEF Dropped, TypeOK
    <3> QED BY <3>1, ResponseEdits
  <2>5. timers' \in [client : Unset..req.timeout, call : Unset..req.timeout]
    <3>1. Unset \in Unset..req.timeout
      BY RequestIs DEF Unset
    <3> QED BY <3>1, <1>4 DEF Dropped, TypeOK
  <2>6. UNCHANGED <<req, got, link, schema, reply, held, clientVars>>
    BY <1>4 DEF Dropped
  <2>7. InPlace'
    BY <2>2, <2>3, <2>6 DEF InPlace, Before
  <2> QED BY <2>1, <2>2, <2>3, <2>4, <2>5, <2>6, <2>7 DEF TypeOK, InPlace, Proto, Answer, HeldBound, clientVars
<1>5. CASE Tick
  <2>1. \A t \in Unset..req.timeout : (IF t > 0 THEN t - 1 ELSE t) \in Unset..req.timeout
    BY RequestIs DEF Unset
  <2>2. timers' \in [client : Unset..req.timeout, call : Unset..req.timeout]
    <3>1. DOMAIN timers = {"client", "call"}
          /\ timers.client \in Unset..req.timeout /\ timers.call \in Unset..req.timeout
      BY DEF TypeOK
    <3>2. timers' = [t \in {"client", "call"} |-> IF timers[t] > 0 THEN timers[t] - 1 ELSE timers[t]]
      BY <3>1, <1>5 DEF Tick
    <3> QED BY <3>1, <3>2, <2>1
  <2>3. held' \in 0..HeldBound
    BY <1>5, RequestIs DEF Tick, TypeOK, HeldBound
  <2>4. UNCHANGED <<req, got, link, schema, handler, call, reply, response, clientVars>>
    BY <1>5 DEF Tick
  <2> QED BY <2>2, <2>3, <2>4 DEF TypeOK, InPlace, Proto, Answer, HeldBound, clientVars
<1> QED BY <1>2, <1>3, <1>4, <1>5

LEMMA TypeOfClientStep ==
  ASSUME TypeOK, Client
  PROVE  TypeOK'
<1>1. Unset \in Unset..req.timeout /\ req.timeout \in Unset..req.timeout
  BY RequestIs DEF Unset
<1>2. \A o \in Outcomes : <<o>> \in Seq(Outcomes) /\ Len(<<o>>) <= 2
  OBVIOUS
<1>3. ASSUME NEW o \in Outcomes, Settle(o), outcomes \in Seq(Outcomes), Len(outcomes) <= 2
      PROVE  /\ outcomes' \in Seq(Outcomes) /\ Len(outcomes') <= 2 /\ fetching' = "settled"
             /\ timers' = [timers EXCEPT !.client = Unset]
  <2>1. <<o>> \in Seq(Outcomes) /\ <<o, errorForFailure>> \in Seq(Outcomes)
        /\ Len(<<o>>) = 1 /\ Len(<<o, errorForFailure>>) = 2
    BY OutcomeTypes
  <2>2. /\ fetching' = "settled" /\ timers' = [timers EXCEPT !.client = Unset]
        /\ \/ outcomes' = <<o>>
           \/ outcomes' = <<o, errorForFailure>>
           \/ outcomes' = outcomes
    BY <1>3 DEF Settle, CallBack
  <2> DEFINE one == <<o>>
             two == <<o, errorForFailure>>
  <2>3. one \in Seq(Outcomes) /\ two \in Seq(Outcomes) /\ Len(one) = 1 /\ Len(two) = 2
    BY <2>1
  <2>4. outcomes' \in {one, two, outcomes}
    BY <2>2
  <2> HIDE DEF one, two
  <2>5. outcomes' \in Seq(Outcomes) /\ Len(outcomes') <= 2
    <3>1. \A s \in {one, two, outcomes} : s \in Seq(Outcomes)
      BY <2>3, <1>3
    <3>2. Len(one) <= 2 /\ Len(two) <= 2
      BY <2>3
    <3>3. \A s \in {one, two, outcomes} : Len(s) <= 2
      BY <3>2, <1>3
    <3> QED BY <3>1, <3>3, <2>4
  <2> QED BY <2>2, <2>5
<1>4. outcomes \in Seq(Outcomes) /\ Len(outcomes) <= 2
      /\ fetching \in {"new", "sent", "settled"} /\ signal \in {"none", "deadline", "cancel"}
      /\ link \in {"up", "down"}
  BY DEF TypeOK
<1>5. CASE ClientSends
  BY <1>1, <1>4, <1>5, TypeOfClient DEF ClientSends
<1>6. CASE ClientReceives
  BY <1>1, <1>3, <1>4, <1>6, OutcomeTypes, TypeOfClient DEF ClientReceives
<1>7. CASE ClientFails
  BY <1>1, <1>3, <1>4, <1>7, OutcomeTypes, TypeOfClient DEF ClientFails
<1>8. ASSUME NEW reason \in {"deadline", "cancel"}, Abort(reason) PROVE TypeOK'
  <2>1. Fails(statusForAbort(reason)) \in Outcomes
    BY DEF Fails, statusForAbort, Outcomes, Byte, CANCELLED, DEADLINE_EXCEEDED
  <2>2. outcomes' \in Seq(Outcomes) /\ Len(outcomes') <= 2
    BY <2>1, <1>2, <1>8 DEF Abort
  <2> QED BY <2>2, <1>1, <1>8, TypeOfClient DEF Abort
<1> QED BY <1>5, <1>6, <1>7, <1>8 DEF Client, DeadlineFires, AppCancels

LEMMA TypeStep == TypeOK /\ [Next]_vars => TypeOK'
<1> SUFFICES ASSUME TypeOK, [Next]_vars PROVE TypeOK'
  OBVIOUS
<1>1. CASE Client
  BY <1>1, TypeOfClientStep
<1>2. CASE Server
  <2>1. UNCHANGED clientVars
    BY <1>2 DEF Server
  <2> QED BY <2>1, <1>2, ReadingIs, TypeOfReading, TypeOfBackend, TypeOfEnding DEF Server, Handler
<1>3. CASE LinkBreaks
  BY <1>3 DEF LinkBreaks, TypeOK, InPlace, Proto, Answer, HeldBound, clientVars
<1>4. CASE Terminated \/ UNCHANGED vars
  BY <1>4 DEF Terminated, vars, serverVars, clientVars, TypeOK, InPlace, Proto, Answer, HeldBound
<1> QED BY <1>1, <1>2, <1>3, <1>4 DEF Next

\* Every state of every unary call is well typed, and handler and call to the backend
\* are where they belong (fetch.rs, fetch-transport.ts), for every schema, request and
\* answer.
THEOREM UnaryTypeCorrect == Spec => []TypeOK
BY TypeInit, TypeStep, PTL DEF Spec


-----------------------------------------------------------------------------
(* The deadline. Held time and the time left add up to one deadline until  *)
(* the headers of a protobuf response are in, and to at most two then.     *)

DeadlineInv ==
  /\ call.at = "none" \/ req.timeout = 0 => held = 0
  /\ ~Live \/ req.timeout = 0 => timers.call = Unset
  /\ Live /\ req.timeout > 0 =>
       /\ timers.call \in Nat
       /\ IF handler.at = "pumping"
          THEN held + timers.call \in req.timeout..(2 * req.timeout)
          ELSE held + timers.call = req.timeout

LEMMA DeadlineInit == Init => DeadlineInv
BY DEF Init, ServerInit, NoCall, DeadlineInv, Live, Unset

\* The handler is done: the time it waited stays, and no timer is left.
LEMMA DeadlineOfFinish ==
  ASSUME TypeOK, DeadlineInv, NEW r, NEW at \in CallStates \ {"called", "answered"},
         Finish(r, at), at = "none" => call.at = "none"
  PROVE  DeadlineInv'
<1>1. call'.at = at /\ req' = req /\ held' = held
  BY DEF Finish, TypeOK, NoCall
<1>2. timers'.call = Unset
  BY DEF Finish, TypeOK
<1>3. ~Live'
  BY <1>1 DEF Live
<1> QED BY <1>1, <1>2, <1>3 DEF DeadlineInv

\* The call and what is left of its deadline stay as they are.
LEMMA DeadlineOfRest ==
  ASSUME DeadlineInv, req' = req, held' = held, timers'.call = timers.call, call'.at = call.at,
         Live => (handler'.at = "pumping" <=> handler.at = "pumping")
  PROVE  DeadlineInv'
BY DEF DeadlineInv, Live

LEMMA DeadlineOfServer ==
  ASSUME TypeOK, DeadlineInv, Server
  PROVE  DeadlineInv'
<1>1. /\ timers.call \in Unset..req.timeout /\ held \in Nat /\ req.timeout \in Nat
      /\ DOMAIN call = {"at", "method", "request", "fed"}
      /\ timers \in [client : Unset..req.timeout, call : Unset..req.timeout]
      /\ handler \in [at : HandlerStates, skip : {0, 1}, saw : BOOLEAN]
  BY RequestIs DEF TypeOK, NoCall, HeldBound
<1>2. CASE ReadingStep
  <2>1. handler.at \in Before /\ call.at = "none" /\ ~Live
    BY <1>2 DEF ReadingStep, TypeOK, InPlace, Live
  <2>2. CASE \E at \in Before : Stand(at) /\ UNCHANGED <<req, link, schema, call, reply, response, timers, held>>
    BY <2>1, <2>2, DeadlineOfRest
  <2>3. ASSUME NEW r, Refuse(r) PROVE DeadlineInv'
    BY <2>1, <2>3, DeadlineOfFinish DEF Refuse, CallStates
  <2>4. ASSUME NEW method, NEW request, NEW fed, Dispatch(method, request, fed) PROVE DeadlineInv'
    <3>1. handler'.at = "called" /\ call'.at = "called" /\ held' = held /\ req' = req
          /\ timers'.call = IF req.timeout = 0 THEN Unset ELSE req.timeout
      BY <2>4, <1>1 DEF Dispatch, Stand
    <3>2. held = 0
      BY <2>1 DEF DeadlineInv
    <3>3. Live'
      BY <3>1 DEF Live
    <3> QED BY <3>1, <3>2, <3>3, <1>1 DEF DeadlineInv
  <2> QED BY <1>2, <2>2, <2>3, <2>4 DEF ReadingStep
<1>3. CASE Forward \/ ForwardEnds \/ BackendSends
  <2>1. call'.at = call.at /\ handler'.at = handler.at /\ UNCHANGED <<req, held, timers>>
    BY <1>1, <1>3 DEF Forward, ForwardEnds, BackendSends
  <2> QED BY <2>1, DeadlineOfRest
<1>4. CASE BackendRefuses \/ BackendEnds \/ BackendBreaks \/ CallTimeout \/ BodyTimeout
  <2>1. ASSUME NEW r, NEW at \in {"refused", "ended", "broken", "dropped"}, Finish(r, at)
        PROVE  DeadlineInv'
    BY <2>1, DeadlineOfFinish DEF CallStates
  <2>2. CASE BackendRefuses
    BY <2>1, <2>2 DEF BackendRefuses
  <2>3. CASE BackendEnds
    BY <2>1, <2>3 DEF BackendEnds
  <2>4. CASE BackendBreaks
    BY <2>1, <2>4 DEF BackendBreaks
  <2>5. CASE CallTimeout \/ BodyTimeout
    BY <2>1, <2>5 DEF CallTimeout, BodyTimeout
  <2> QED BY <1>4, <2>2, <2>3, <2>4, <2>5
<1>5. CASE BackendAnswers
  <2>1. /\ call.at = "called" /\ call'.at = "answered" /\ held' = held /\ req' = req
        /\ handler'.at = IF Proto THEN "pumping" ELSE "collecting"
        /\ timers'.call = IF Proto THEN BodyDeadline ELSE timers.call
    BY <1>1, <1>5 DEF BackendAnswers, Stand
  <2>2. handler.at = "called" /\ Live /\ Live'
    BY <2>1 DEF TypeOK, InPlace, Live
  <2>3. CASE req.timeout = 0
    BY <2>1, <2>2, <2>3 DEF DeadlineInv, BodyDeadline
  <2>4. CASE req.timeout > 0
    <3>1. timers.call \in Nat /\ held + timers.call = req.timeout
      BY <2>2, <2>4 DEF DeadlineInv
    <3>2. CASE Proto
      <4>1. timers'.call = req.timeout
        BY <2>1, <2>4, <3>2 DEF BodyDeadline
      <4>2. held + req.timeout \in req.timeout..(2 * req.timeout)
        BY <3>1, <1>1
      <4> QED BY <4>1, <4>2, <3>2, <2>1, <2>2, <2>4, <1>1 DEF DeadlineInv
    <3>3. CASE ~Proto
      BY <3>1, <3>3, <2>1, <2>2, <2>4 DEF DeadlineInv
    <3> QED BY <3>2, <3>3
  <2> QED BY <2>3, <2>4, <1>1
<1>6. CASE Dropped
  <2>1. req' = req /\ held' = held /\ timers'.call = Unset
        /\ call'.at = IF Live THEN "dropped" ELSE call.at
    BY <1>1, <1>6 DEF Dropped
  <2>2. ~Live' /\ (call'.at = "none" => call.at = "none")
    BY <2>1 DEF Live
  <2> QED BY <2>1, <2>2 DEF DeadlineInv
<1>7. CASE Tick
  <2>1. /\ UNCHANGED <<req, call, handler>>
        /\ timers'.call = IF timers.call > 0 THEN timers.call - 1 ELSE timers.call
        /\ held' = IF Waited /\ held < HeldBound THEN held + 1 ELSE held
        /\ timers.call # 0
    BY <1>1, <1>7 DEF Tick
  <2>2. Live' = Live
    BY <2>1 DEF Live
  <2>3. CASE ~Live \/ req.timeout = 0
    <3>1. held' = held /\ timers'.call = timers.call
      <4>1. ~Waited
        BY <2>3, <1>1 DEF Waited
      <4>2. timers.call = Unset
        BY <2>3 DEF DeadlineInv
      <4> QED BY <2>1, <4>1, <4>2 DEF Unset
    <3> QED BY <3>1, <2>1, <2>2, <2>3 DEF DeadlineInv
  <2>4. CASE Live /\ req.timeout > 0
    <3>1. /\ timers.call \in Nat
          /\ IF handler.at = "pumping"
             THEN held + timers.call \in req.timeout..(2 * req.timeout)
             ELSE held + timers.call = req.timeout
      BY <2>4 DEF DeadlineInv
    <3>2. Waited /\ held < HeldBound
      BY <3>1, <2>4, <1>1 DEF Waited, HeldBound
    <3>3. timers'.call = timers.call - 1 /\ held' = held + 1 /\ timers.call > 0
      BY <3>1, <3>2, <2>1
    <3>4. timers'.call \in Nat /\ held' + timers'.call = held + timers.call
      BY <3>1, <3>3, <1>1
    <3> QED BY <3>1, <3>4, <2>1, <2>2, <2>4 DEF DeadlineInv, Live
  <2> QED BY <2>3, <2>4, <1>1
<1> QED BY <1>2, <1>3, <1>4, <1>5, <1>6, <1>7, ReadingIs DEF Server, Handler, Backend

LEMMA DeadlineStep == TypeOK /\ DeadlineInv /\ [Next]_vars => DeadlineInv'
<1> SUFFICES ASSUME TypeOK, DeadlineInv, [Next]_vars PROVE DeadlineInv'
  OBVIOUS
<1>1. CASE Client
  <2>1. UNCHANGED <<req, call, handler, held>>
    BY <1>1 DEF Client, ClientSends, ClientReceives, ClientFails, DeadlineFires, AppCancels, Abort
  <2>2. \E t : timers' = [timers EXCEPT !.client = t]
    BY <1>1 DEF Client, ClientSends, ClientReceives, ClientFails, DeadlineFires, AppCancels, Abort, Settle
  <2>3. timers'.call = timers.call
    BY <2>2 DEF TypeOK
  <2> QED BY <2>1, <2>3, DeadlineOfRest
<1>2. CASE Server
  BY <1>2, DeadlineOfServer
<1>3. CASE LinkBreaks \/ Terminated \/ UNCHANGED vars
  BY <1>3, DeadlineOfRest DEF LinkBreaks, Terminated, vars, serverVars, clientVars
<1> QED BY <1>1, <1>2, <1>3 DEF Next

LEMMA DeadlineCorrect == Spec => []DeadlineInv
BY TypeInit, TypeStep, DeadlineInit, DeadlineStep, PTL DEF Spec

LEMMA DeadlineInvIsKept == TypeOK /\ DeadlineInv => DeadlineKept
<1> SUFFICES ASSUME TypeOK, DeadlineInv, Live
             PROVE  held <= IF handler.at = "pumping" THEN 2 * req.timeout ELSE req.timeout
  BY DEF DeadlineKept
<1>1. held \in Nat /\ req.timeout \in Nat
  BY RequestIs DEF TypeOK, HeldBound
<1>2. CASE req.timeout = 0
  BY <1>1, <1>2 DEF DeadlineInv
<1>3. CASE req.timeout > 0
  BY <1>1, <1>3 DEF DeadlineInv
<1> QED BY <1>1, <1>2, <1>3

\* The server waits for the backend no longer than the call's deadline, and one more
\* for the body of a protobuf answer, whatever its backend, its client and the network
\* do (fetch.rs, deadline_at).
THEOREM DeadlineIsKept == Spec => []DeadlineKept
BY UnaryTypeCorrect, DeadlineCorrect, DeadlineInvIsKept, PTL


-----------------------------------------------------------------------------
(* The request. A protobuf call holds a flag byte and what was read of the *)
(* body so far, and the length it declares is under the limit.             *)

RequestInv ==
  Proto /\ call.at # "none" =>
    /\ LenBytes <= got
    /\ call.request = <<0>> \o SubSeq(req.bytes, 1, got)
    /\ uint(SubSeq(req.bytes, 1, LenBytes)) <= MaxMessage
    /\ call.fed => got = Len(req.bytes)

LEMMA RequestInit == Init => RequestInv
BY DEF Init, ServerInit, NoCall, RequestInv

LEMMA RequestOfRest ==
  ASSUME RequestInv, req' = req, got' = got,
         call'.at = "none" \/ (call.at # "none" /\ call'.request = call.request /\ call'.fed = call.fed)
  PROVE  RequestInv'
BY DEF RequestInv, Proto

\* A slice, and what comes next, are a longer slice.
LEMMA SliceGrows ==
  ASSUME NEW b \in Bytes, NEW i \in Nat, NEW g \in Nat, NEW h \in 0..Len(b), i <= g, g <= h
  PROVE  SubSeq(b, i + 1, g) \o SubSeq(b, g + 1, h) = SubSeq(b, i + 1, h)
<1> DEFINE x == SubSeq(b, i + 1, g)
           y == SubSeq(b, g + 1, h)
           z == SubSeq(b, i + 1, h)
<1>1. Len(b) \in Nat /\ h \in Nat /\ g \in 0..Len(b) /\ i <= h
  BY BytesAreNats
<1>2. x \in Seq(Byte) /\ Len(x) = g - i /\ \A k \in 1..(g - i) : x[k] = b[i + k]
  BY <1>1, SliceIs DEF Bytes
<1>3. y \in Seq(Byte) /\ Len(y) = h - g /\ \A k \in 1..(h - g) : y[k] = b[g + k]
  BY <1>1, SliceIs DEF Bytes
<1>4. z \in Seq(Byte) /\ Len(z) = h - i /\ \A k \in 1..(h - i) : z[k] = b[i + k]
  BY <1>1, SliceIs DEF Bytes
<1> HIDE DEF x, y, z
<1>5. /\ x \o y \in Seq(Byte) /\ Len(x \o y) = Len(x) + Len(y)
      /\ \A k \in 1..Len(x) : (x \o y)[k] = x[k]
      /\ \A k \in 1..Len(y) : (x \o y)[Len(x) + k] = y[k]
  <2>1. x \in Seq(Byte) /\ y \in Seq(Byte)
    BY <1>2, <1>3
  <2>2. x \o y \in Seq(Byte)
    BY <2>1, JoinedIs
  <2>3. Len(x \o y) = Len(x) + Len(y)
    BY <2>1, JoinedIs
  <2>4. \A k \in 1..Len(x) : (x \o y)[k] = x[k]
    BY <2>1, JoinedIs
  <2>5. \A k \in 1..Len(y) : (x \o y)[Len(x) + k] = y[k]
    BY <2>1, JoinedIs
  <2> QED BY <2>2, <2>3, <2>4, <2>5
<1>6. Len(x \o y) = h - i
  BY <1>1, <1>2, <1>3, <1>5
<1>7. ASSUME NEW k \in 1..(h - i) PROVE (x \o y)[k] = z[k]
  <2>1. CASE k \in 1..(g - i)
    BY <2>1, <1>2, <1>4, <1>5
  <2>2. CASE k \notin 1..(g - i)
    <3>1. /\ k - (g - i) \in 1..(h - g)
          /\ (g - i) + (k - (g - i)) = k /\ g + (k - (g - i)) = i + k
      BY <2>2, <1>1
    <3>2. (x \o y)[(g - i) + (k - (g - i))] = y[k - (g - i)]
          /\ y[k - (g - i)] = b[g + (k - (g - i))]
      BY <3>1, <1>2, <1>3, <1>5
    <3> QED BY <3>1, <3>2, <1>4
  <2> QED BY <2>1, <2>2
<1>8. \A s, t \in Seq(Byte) : Len(s) = Len(t) /\ (\A k \in 1..Len(t) : s[k] = t[k]) => s = t
  OBVIOUS
<1>9. x \o y = z
  BY <1>4, <1>5, <1>6, <1>7, <1>8
<1> QED BY <1>9 DEF x, y, z

LEMMA PrefixGrows ==
  ASSUME NEW b \in Bytes, NEW g \in Nat, NEW h \in 0..Len(b), g <= h
  PROVE  SubSeq(b, 1, g) \o SubSeq(b, g + 1, h) = SubSeq(b, 1, h)
<1>1. PICK i \in Nat : i = 0
  OBVIOUS
<1>2. i <= g /\ i + 1 = 1
  BY <1>1
<1>3. SubSeq(b, i + 1, g) \o SubSeq(b, g + 1, h) = SubSeq(b, i + 1, h)
  BY <1>2, SliceGrows
<1> QED BY <1>2, <1>3

LEMMA RequestOfServer ==
  ASSUME TypeOK, RequestInv, Server
  PROVE  RequestInv'
<1>1. DOMAIN call = {"at", "method", "request", "fed"}
  BY DEF TypeOK, NoCall
<1>2. CASE ReadingStep
  <2>1. call.at = "none" /\ handler.at \in Before
    BY <1>2 DEF ReadingStep, TypeOK, InPlace
  <2>2. CASE UNCHANGED <<req, call>>
    BY <2>1, <2>2 DEF RequestInv
  <2>3. ASSUME NEW r, Refuse(r) PROVE RequestInv'
    <3>1. call'.at = "none"
      BY <2>3, <1>1 DEF Refuse, Finish
    <3> QED BY <3>1 DEF RequestInv
  <2>4. ASSUME ~Proto, NEW method, NEW request, Dispatch(method, request, TRUE) PROVE RequestInv'
    BY <2>4 DEF Dispatch, RequestInv, Proto
  <2> DEFINE received == <<0>> \o SubSeq(req.bytes, 1, got')
  <2>5. ASSUME Proto, LenBytes <= got', uint(SubSeq(req.bytes, 1, LenBytes)) <= MaxMessage,
               Dispatch(req.parts, received, FALSE)
        PROVE  RequestInv'
    <3>1. req' = req /\ call'.request = received /\ ~call'.fed
      BY <2>5 DEF Dispatch
    <3> QED BY <3>1, <2>5 DEF RequestInv
  <2> QED BY <1>2, <2>2, <2>3, <2>4, <2>5 DEF ReadingStep
<1>3. CASE Forward
  <2>1. PICK n \in 1..Left :
          Lead(n) /\ call' = [call EXCEPT !.request = @ \o SubSeq(req.bytes, got + 1, got + n)]
    BY <1>3 DEF Forward
  <2>2. call.at \in {"called", "answered"} /\ ~call.fed /\ req' = req
    BY <1>3 DEF Forward, Live
  <2>3. /\ got' = got + n /\ got' \in 0..Len(req.bytes) /\ n \in Nat
        /\ got \in Nat /\ got <= got'
    BY <2>1, LeadIs, RequestIs DEF Lead
  <2>4. /\ call'.at = call.at /\ call'.fed = call.fed
        /\ call'.request = call.request \o SubSeq(req.bytes, got + 1, got')
    BY <2>1, <2>3, <1>1
  <2>5. CASE Proto
    <3>1. /\ LenBytes <= got /\ uint(SubSeq(req.bytes, 1, LenBytes)) <= MaxMessage
          /\ call.request = <<0>> \o SubSeq(req.bytes, 1, got)
      BY <2>2, <2>5 DEF RequestInv
    <3> DEFINE x == SubSeq(req.bytes, 1, got)
               y == SubSeq(req.bytes, got + 1, got')
    <3>2. x \in Seq(Byte) /\ y \in Seq(Byte) /\ <<0>> \in Seq(Byte)
      <4>1. got \in 0..Len(req.bytes)
        BY DEF TypeOK
      <4> QED BY <4>1, <2>3, RequestIs, PrefixIs, SliceIs DEF Bytes, Byte
    <3>3. x \o y = SubSeq(req.bytes, 1, got')
      BY <2>3, RequestIs, PrefixGrows
    <3> HIDE DEF x, y
    <3>4. (<<0>> \o x) \o y = <<0>> \o (x \o y)
      BY <3>2, ConcatAssociative
    <3>5. call'.request = <<0>> \o SubSeq(req.bytes, 1, got')
      BY <3>1, <3>3, <3>4, <2>4 DEF x, y
    <3>6. LenBytes <= got'
      BY <3>1, <2>3, FramingAssumption
    <3> QED BY <3>1, <3>5, <3>6, <2>2, <2>4 DEF RequestInv
  <2>6. CASE ~Proto
    BY <2>2, <2>6 DEF RequestInv, Proto
  <2> QED BY <2>5, <2>6
<1>4. CASE ForwardEnds
  <2>1. /\ call'.at = call.at /\ call'.request = call.request /\ call.at # "none"
        /\ req' = req /\ got' = got /\ Left = 0
    BY <1>1, <1>4 DEF ForwardEnds, Live
  <2>2. got = Len(req.bytes)
    BY <2>1, RequestIs DEF Left
  <2> QED BY <2>1, <2>2 DEF RequestInv, Proto
<1>5. CASE BackendRefuses \/ BackendEnds \/ BackendBreaks \/ CallTimeout \/ BodyTimeout
  <2>1. got' = got
    BY <1>5 DEF BackendRefuses, BackendEnds, BackendBreaks, CallTimeout, BodyTimeout
  <2>2. call.at # "none"
    <3>1. CASE BackendRefuses \/ BackendEnds \/ BackendBreaks
      BY <3>1 DEF BackendRefuses, BackendEnds, BackendBreaks
    <3>2. CASE CallTimeout \/ BodyTimeout
      <4>1. handler.at \in {"called", "pumping", "collecting"}
        BY <3>2 DEF CallTimeout, BodyTimeout
      <4> QED BY <4>1 DEF TypeOK, InPlace
    <3> QED BY <1>5, <3>1, <3>2
  <2>3. req' = req /\ call'.request = call.request /\ call'.fed = call.fed
    BY <1>1, <1>5 DEF BackendRefuses, BackendEnds, BackendBreaks, CallTimeout, BodyTimeout, Finish
  <2> QED BY <2>1, <2>2, <2>3, RequestOfRest
<1>6. CASE BackendAnswers \/ BackendSends \/ Dropped \/ Tick
  <2>1. req' = req /\ got' = got /\ call'.request = call.request /\ call'.fed = call.fed
    BY <1>1, <1>6 DEF BackendAnswers, BackendSends, Dropped, Tick
  <2>2. call.at = "none" => call'.at = "none"
    BY <1>1, <1>6 DEF BackendAnswers, BackendSends, Dropped, Tick, Live
  <2> QED BY <2>1, <2>2, RequestOfRest
<1> QED BY <1>2, <1>3, <1>4, <1>5, <1>6, ReadingIs DEF Server, Handler, Backend

LEMMA RequestStep == TypeOK /\ RequestInv /\ [Next]_vars => RequestInv'
<1> SUFFICES ASSUME TypeOK, RequestInv, [Next]_vars PROVE RequestInv'
  OBVIOUS
<1>1. CASE Client \/ LinkBreaks \/ Terminated \/ UNCHANGED vars
  <2>1. UNCHANGED <<req, got, call>>
    BY <1>1 DEF Client, ClientSends, ClientReceives, ClientFails, DeadlineFires, AppCancels, Abort,
                LinkBreaks, Terminated, vars, serverVars, clientVars
  <2> QED BY <2>1 DEF RequestInv, Proto
<1>2. CASE Server
  BY <1>2, RequestOfServer
<1> QED BY <1>1, <1>2 DEF Next

LEMMA RequestCorrect == Spec => []RequestInv
BY TypeInit, TypeStep, RequestInit, RequestStep, PTL DEF Spec

\* A message framed is what is read from the frame.
LEMMA FrameAlone ==
  ASSUME NEW m \in Bytes, Fits(Len(m))
  PROVE  deframe_all(frame(m)) = <<m>>
<1>1. frame(m) \in Bytes /\ frame(m) \o <<>> = frame(m) /\ <<>> \in Bytes
  <2>1. <<>> \in Bytes
    BY DEF Bytes
  <2>2. <<0>> \in Seq(Byte) /\ block(m) \in Seq(Byte)
    BY BlockIs DEF Bytes, Byte
  <2>3. frame(m) \in Seq(Byte)
    BY <2>2, JoinedIs DEF frame
  <2> QED BY <2>1, <2>3 DEF Bytes
<1>2. deframe_all(frame(m) \o <<>>) = <<m>> \o deframe_all(<<>>)
  BY <1>1, ParseFrame
<1>3. <<m>> \o <<>> = <<m>>
  OBVIOUS
<1> QED BY <1>1, <1>2, <1>3, ParseNothing

LEMMA RequestInvIsWhole == TypeOK /\ RequestInv => RequestIsWhole
<1> SUFFICES ASSUME TypeOK, RequestInv, call.at # "none", Proto, req.sdk
             PROVE  /\ call.fed => deframe_all(call.request) =
                                     <<SubSeq(req.bytes, LenBytes + 1, Len(req.bytes))>>
                    /\ Len(call.request) <= HeaderLen + MaxMessage
  BY DEF RequestIsWhole
<1> DEFINE m == SubSeq(req.bytes, LenBytes + 1, Len(req.bytes))
<1>1. req.bytes = block(m) /\ Fits(Len(m))
  BY RequestsAssumption DEF TypeOK, Proto
<1>2. /\ LenBytes <= got
      /\ call.request = <<0>> \o SubSeq(req.bytes, 1, got)
      /\ uint(SubSeq(req.bytes, 1, LenBytes)) <= MaxMessage
      /\ call.fed => got = Len(req.bytes)
  BY DEF RequestInv
<1>3. got \in 0..Len(req.bytes) /\ LenBytes \in Nat /\ MaxMessage \in Nat /\ got \in Nat
      /\ Len(req.bytes) \in Nat /\ req.bytes \in Bytes
  BY RequestIs, FramingAssumption, MaxMessageAssumption DEF TypeOK
<1>4. m \in Bytes
  <2>1. LenBytes <= Len(req.bytes) /\ Len(req.bytes) \in 0..Len(req.bytes)
    BY <1>2, <1>3
  <2> QED BY <2>1, <1>3, SliceIs
<1> HIDE DEF m
<1>5. Len(m) \in Nat /\ Len(req.bytes) = LenBytes + Len(m)
  BY <1>1, <1>4, BlockIs DEF Bytes
<1>6. uint(SubSeq(req.bytes, 1, LenBytes)) = Len(m)
  <2> DEFINE x == be(Len(m))
  <2>1. x \in Bytes /\ Len(x) = LenBytes /\ uint(x) = Len(m)
    BY <1>1, <1>5, LengthRoundTrip
  <2>2. <<>> \in Bytes /\ block(m) \o <<>> = block(m)
    BY <1>4, BlockIs DEF Bytes
  <2>3. block(m) = x \o m
    BY DEF block
  <2> HIDE DEF x
  <2>4. x \in Bytes
    BY <2>1
  <2>5. SubSeq((x \o m) \o <<>>, 1, Len(x)) = x
    BY <2>2, <2>4, <1>4, JoinedSlices
  <2> QED BY <2>1, <2>2, <2>3, <2>5, <1>1
<1>7. Len(call.request) <= HeaderLen + MaxMessage
  <2>1. SubSeq(req.bytes, 1, got) \in Seq(Byte) /\ Len(SubSeq(req.bytes, 1, got)) = got
    BY <1>3, PrefixIs DEF Bytes
  <2>2. <<0>> \in Seq(Byte) /\ Len(<<0>>) = 1
    BY DEF Byte
  <2>3. Len(call.request) = 1 + got
    BY <2>1, <2>2, <1>2, JoinedIs
  <2> QED BY <2>3, <1>2, <1>3, <1>5, <1>6 DEF HeaderLen
<1>8. ASSUME call.fed PROVE deframe_all(call.request) = <<m>>
  <2>1. SubSeq(req.bytes, 1, Len(req.bytes)) = req.bytes
    <3>1. req.bytes \in Seq(Byte)
      BY <1>3 DEF Bytes
    <3> QED BY <3>1
  <2>2. call.request = frame(m)
    BY <2>1, <1>1, <1>2, <1>8 DEF frame
  <2> QED BY <2>2, <1>1, <1>4, FrameAlone
<1> QED BY <1>7, <1>8 DEF m

\* What the backend is sent of a protobuf call is never over the limit, and once it has
\* been sent all of it, it is the one message of the client, in whatever pieces that
\* came (fetch.rs, frame_upstream_request).
THEOREM RequestGetsThrough == Spec => []RequestIsWhole
BY UnaryTypeCorrect, RequestCorrect, RequestInvIsWhole, PTL

-----------------------------------------------------------------------------
(* The route. A JSON call is made with all of its request.                 *)

RouteInv == call.at # "none" /\ ~Proto => call.fed /\ Routed(call.method, call.request)

LEMMA RouteInit == Init => RouteInv
BY DEF Init, ServerInit, NoCall, RouteInv

LEMMA RouteOfRest ==
  ASSUME RouteInv, req' = req,
         \/ call'.at = "none"
         \/ /\ call.at # "none" /\ call'.fed = call.fed
            /\ call'.method = call.method /\ call'.request = call.request
  PROVE  RouteInv'
BY DEF RouteInv, Proto, Routed

LEMMA RouteOfServer ==
  ASSUME TypeOK, RouteInv, Server
  PROVE  RouteInv'
<1>1. DOMAIN call = {"at", "method", "request", "fed"}
  BY DEF TypeOK, NoCall
<1>2. CASE ReadingStep
  <2>1. call.at = "none"
    BY <1>2 DEF ReadingStep, TypeOK, InPlace
  <2>2. CASE UNCHANGED <<req, call>>
    BY <2>1, <2>2 DEF RouteInv
  <2>3. ASSUME NEW r, Refuse(r) PROVE RouteInv'
    <3>1. call'.at = "none"
      BY <2>3, <1>1 DEF Refuse, Finish
    <3> QED BY <3>1 DEF RouteInv
  <2>4. ASSUME NEW method, NEW request, Routed(method, request), Dispatch(method, request, TRUE)
        PROVE  RouteInv'
    <3>1. req' = req /\ call'.method = method /\ call'.request = request /\ call'.fed
      BY <2>4 DEF Dispatch
    <3>2. Routed(call'.method, call'.request)
      BY <2>4, <3>1
    <3> QED BY <3>1, <3>2 DEF RouteInv, Routed
  <2>5. ASSUME Proto, NEW request, Dispatch(req.parts, request, FALSE) PROVE RouteInv'
    BY <2>5 DEF Dispatch, RouteInv, Proto
  <2> QED BY <1>2, <2>2, <2>3, <2>4, <2>5 DEF ReadingStep
<1>3. CASE Forward \/ ForwardEnds
  <2>1. call.at # "none" /\ ~call.fed /\ req' = req
    BY <1>3 DEF Forward, ForwardEnds, Live
  <2>2. Proto
    BY <2>1 DEF RouteInv
  <2> QED BY <2>1, <2>2 DEF RouteInv, Proto
<1>4. CASE BackendRefuses \/ BackendEnds \/ BackendBreaks \/ CallTimeout \/ BodyTimeout
  <2>1. call.at # "none"
    <3>1. CASE BackendRefuses \/ BackendEnds \/ BackendBreaks
      BY <3>1 DEF BackendRefuses, BackendEnds, BackendBreaks
    <3>2. CASE CallTimeout \/ BodyTimeout
      <4>1. handler.at \in {"called", "pumping", "collecting"}
        BY <3>2 DEF CallTimeout, BodyTimeout
      <4> QED BY <4>1 DEF TypeOK, InPlace
    <3> QED BY <1>4, <3>1, <3>2
  <2>2. /\ req' = req /\ call'.fed = call.fed
        /\ call'.method = call.method /\ call'.request = call.request
    BY <1>1, <1>4 DEF BackendRefuses, BackendEnds, BackendBreaks, CallTimeout, BodyTimeout, Finish
  <2> QED BY <2>1, <2>2, RouteOfRest
<1>5. CASE BackendAnswers \/ BackendSends \/ Dropped \/ Tick
  <2>1. /\ req' = req /\ call'.fed = call.fed
        /\ call'.method = call.method /\ call'.request = call.request
    BY <1>1, <1>5 DEF BackendAnswers, BackendSends, Dropped, Tick
  <2>2. call.at = "none" => call'.at = "none"
    BY <1>1, <1>5 DEF BackendAnswers, BackendSends, Dropped, Tick, Live
  <2> QED BY <2>1, <2>2, RouteOfRest
<1> QED BY <1>2, <1>3, <1>4, <1>5, ReadingIs DEF Server, Handler, Backend

LEMMA RouteStep == TypeOK /\ RouteInv /\ [Next]_vars => RouteInv'
<1> SUFFICES ASSUME TypeOK, RouteInv, [Next]_vars PROVE RouteInv'
  OBVIOUS
<1>1. CASE Client \/ LinkBreaks \/ Terminated \/ UNCHANGED vars
  <2>1. UNCHANGED <<req, call>>
    BY <1>1 DEF Client, ClientSends, ClientReceives, ClientFails, DeadlineFires, AppCancels, Abort,
                LinkBreaks, Terminated, vars, serverVars, clientVars
  <2> QED BY <2>1 DEF RouteInv, Proto, Routed
<1>2. CASE Server
  BY <1>2, RouteOfServer
<1> QED BY <1>1, <1>2 DEF Next

LEMMA RouteInvIsDeclared == RouteInv => RouteIsDeclared
BY DEF RouteInv, Routed, RouteIsDeclared

\* A JSON request reaches the method of the first binding that fits it, with the message
\* that path, query and body declare, or the method that its path names (httprule.rs,
\* match_request and build_message; fetch.rs, json_fetch).
THEOREM RoutesAreDeclared == Spec => []RouteIsDeclared
<1>1. Spec => []RouteInv
  BY TypeInit, TypeStep, RouteInit, RouteStep, PTL DEF Spec
<1> QED BY <1>1, RouteInvIsDeclared, PTL

-----------------------------------------------------------------------------
(* The response: what has been passed on of the answer; the answer as a    *)
(* whole; or a failure, for a cause.                                       *)

Passed == SubSeq(Answer, 2, reply.sent)

Pumped ==
  /\ response = [http |-> 200, status |-> Unset, body |-> Passed, eof |-> "open"]
  /\ handler.skip = IF reply.sent = 0 THEN 1 ELSE 0
  /\ handler.saw <=> reply.sent >= 2

Answered ==
  response = IF Proto THEN Whole(200, Unset, encode_response_body(AnswerMessage, AnswerCode))
             ELSE IF AnswerCode # OK \/ AnswerMessage = <<>>
             THEN json_fetch_response(AnswerCode, <<>>)
             ELSE IF AnswerMessage \in Garbled THEN webnext_error(INTERNAL)
             ELSE json_fetch_response(OK, Json(AnswerMessage))

Cause(c) ==
  /\ c = DEADLINE_EXCEEDED => req.timeout > 0 /\ held >= req.timeout
  /\ c = RESOURCE_EXHAUSTED => Len(req.bytes) > MaxMessage
  /\ c \in {INVALID_ARGUMENT, UNIMPLEMENTED} => call.at = "none" /\ ~Proto

Failures ==
  {INVALID_ARGUMENT, DEADLINE_EXCEEDED, RESOURCE_EXHAUSTED, UNIMPLEMENTED, INTERNAL, UNAVAILABLE}

TurnedAway == response.http \in {400, 413, 415}
Failed == \E c \in Failures : response = webnext_error(c) /\ Cause(c)
Cut ==
  /\ Proto /\ reply.sent >= 2
  /\ response = Whole(200, Unset, Passed)

ResponseInv ==
  /\ handler.at \in Before \cup {"called", "collecting"} => response = NoResponse
  /\ handler.at \in Before \cup {"called"} => handler.skip = 1 /\ ~handler.saw
  /\ handler.at = "pumping" => Pumped
  /\ call.at = "ended" => handler.at = "done" /\ Answered
  /\ response.eof = "end" /\ call.at # "ended" =>
       handler.at = "done" /\ (TurnedAway \/ Failed \/ Cut)

LEMMA ResponseInit == Init => ResponseInv
BY DEF Init, ServerInit, NoCall, NoResponse, ResponseInv, Before

\* The status of the answer, wherever the backend put it (read_status).
LEMMA CodeIs ==
  ASSUME ReplyOK(reply)
  PROVE  read_status(reply.trailers, reply.headers) = AnswerCode /\ AnswerCode \in Byte
<1>1. CASE reply.trailers = Unset /\ reply.headers = Unset
  BY <1>1 DEF AnswerCode, read_status, OK, Byte
<1>2. CASE reply.trailers # Unset
  <2>1. {reply.trailers, reply.headers} \ {Unset} = {reply.trailers}
    BY <1>2 DEF ReplyOK
  <2>2. AnswerCode = reply.trailers
    BY <2>1 DEF AnswerCode
  <2> QED BY <2>2, <1>2 DEF read_status, ReplyOK, Codes
<1>3. CASE reply.trailers = Unset /\ reply.headers # Unset
  <2>1. {reply.trailers, reply.headers} \ {Unset} = {reply.headers}
    BY <1>3
  <2>2. AnswerCode = reply.headers
    BY <2>1 DEF AnswerCode
  <2> QED BY <2>2, <1>3 DEF read_status, ReplyOK, Codes
<1> QED BY <1>1, <1>2, <1>3

\* The message of a JSON answer is what was framed (unary_json's deframe_all).
LEMMA MessagesAre ==
  ASSUME ReplyOK(reply)
  PROVE  (IF deframe_all(Answer) = <<>> THEN <<>> ELSE deframe_all(Answer)[1]) = AnswerMessage
<1>1. CASE reply.messages = <<>> /\ Answer = <<>> /\ AnswerMessage = <<>>
  BY <1>1, ParseNothing
<1>2. ASSUME NEW m \in Bytes, Fits(Len(m)), Answer = frame(m), AnswerMessage = m
      PROVE  (IF deframe_all(Answer) = <<>> THEN <<>> ELSE deframe_all(Answer)[1]) = AnswerMessage
  <2>1. deframe_all(frame(m)) = <<m>>
    BY <1>2, FrameAlone
  <2> QED BY <2>1, <1>2
<1> QED BY <1>1, <1>2, AnswerIs

\* Behind its flag byte a frame is a block.
LEMMA BlockInFrame ==
  ASSUME NEW m \in Bytes, NEW n \in Nat, n + 1 <= Len(frame(m))
  PROVE  /\ n \in 0..Len(block(m)) /\ Len(frame(m)) = 1 + Len(block(m))
         /\ SubSeq(frame(m), 2, n + 1) = SubSeq(block(m), 1, n)
<1> DEFINE z == <<0>>
           b == block(m)
           f == frame(m)
<1>1. z \in Seq(Byte) /\ b \in Seq(Byte) /\ f = z \o b /\ b \in Bytes
  BY BlockIs DEF frame, Bytes, Byte
<1>2. PICK i \in Nat : i = 1
  OBVIOUS
<1>3. Len(z) = i
  BY <1>2
<1> HIDE DEF z, b, f
<1>4. f \in Seq(Byte) /\ f \in Bytes
  BY <1>1, JoinedIs DEF Bytes
<1>5. Len(f) = Len(z) + Len(b)
  BY <1>1, JoinedIs
<1>6. \A k \in 1..Len(b) : f[Len(z) + k] = b[k]
  BY <1>1, JoinedIs
<1>7. Len(b) \in Nat
  BY <1>1
<1>8. n \in 0..Len(b) /\ i <= n + 1 /\ n + 1 \in 0..Len(f) /\ n + 1 - i = n /\ i + 1 = 2
  BY <1>2, <1>3, <1>5, <1>7 DEF f
<1> DEFINE s == SubSeq(f, i + 1, n + 1)
           t == SubSeq(b, 1, n)
<1>9. s \in Seq(Byte) /\ Len(s) = n /\ \A k \in 1..n : s[k] = f[i + k]
  BY <1>4, <1>8, SliceIs DEF Bytes
<1>10. t \in Seq(Byte) /\ Len(t) = n /\ \A k \in 1..n : t[k] = b[k]
  BY <1>1, <1>8, PrefixIs DEF Bytes
<1> HIDE DEF s, t
<1>11. ASSUME NEW k \in 1..n PROVE s[k] = t[k]
  <2>1. k \in 1..Len(b)
    BY <1>7, <1>8
  <2> QED BY <2>1, <1>3, <1>6, <1>9, <1>10
<1>12. \A x, y \in Seq(Byte) : Len(x) = Len(y) /\ (\A k \in 1..Len(y) : x[k] = y[k]) => x = y
  OBVIOUS
<1>13. s = t
  BY <1>9, <1>10, <1>11, <1>12
<1> QED BY <1>2, <1>3, <1>5, <1>8, <1>13 DEF s, t, b, f

\* What has been passed on: nothing before the second byte, then the start of the
\* message's block, and in the end all of it.
LEMMA PassedIs ==
  ASSUME TypeOK
  PROVE  /\ reply.sent < 2 => Passed = <<>>
         /\ reply.sent >= 2 =>
              \E m \in Bytes, n \in Nat :
                Fits(Len(m)) /\ n \in 0..Len(block(m)) /\ Passed = SubSeq(block(m), 1, n)
         /\ reply.sent = Len(Answer) =>
              IF reply.sent >= 2 THEN Passed = block(AnswerMessage) ELSE AnswerMessage = <<>>
         /\ Fits(Len(AnswerMessage)) /\ AnswerMessage \in Bytes
<1>1. reply.sent \in Nat /\ reply.sent <= Len(Answer) /\ ReplyOK(reply)
      /\ Answer \in Bytes /\ AnswerMessage \in Bytes /\ Len(Answer) \in Nat
  BY AnswerType DEF TypeOK
<1>2. reply.sent < 2 => Passed = <<>>
  <2> SUFFICES ASSUME reply.sent < 2 PROVE SubSeq(Answer, 2, reply.sent) = <<>>
    BY DEF Passed
  <2>1. Answer \in Seq(Byte)
    BY <1>1 DEF Bytes
  <2> QED BY <2>1, <1>1
<1>3. CASE Answer = <<>> /\ AnswerMessage = <<>>
  <2>1. Len(Answer) = 0 /\ Len(AnswerMessage) = 0
    BY <1>3
  <2> QED BY <2>1, <1>1, <1>2, <1>3, SmallFits
<1>4. ASSUME NEW m \in Bytes, Fits(Len(m)), Answer = frame(m), AnswerMessage = m
      PROVE  /\ Fits(Len(AnswerMessage))
             /\ reply.sent >= 2 =>
                  \E n \in Nat : n \in 0..Len(block(m)) /\ Passed = SubSeq(block(m), 1, n)
             /\ reply.sent = Len(Answer) => reply.sent >= 2 /\ Passed = block(m)
  <2>1. ASSUME reply.sent >= 2
        PROVE  /\ reply.sent - 1 \in Nat /\ reply.sent - 1 \in 0..Len(block(m))
               /\ Len(frame(m)) = 1 + Len(block(m)) /\ Passed = SubSeq(block(m), 1, reply.sent - 1)
    <3>1. PICK n \in Nat : n + 1 = reply.sent
      BY <2>1, <1>1
    <3>2. n + 1 <= Len(frame(m)) /\ n = reply.sent - 1
      BY <3>1, <1>1, <1>4
    <3>3. /\ n \in 0..Len(block(m)) /\ Len(frame(m)) = 1 + Len(block(m))
          /\ SubSeq(frame(m), 2, n + 1) = SubSeq(block(m), 1, n)
      BY <3>2, BlockInFrame
    <3> QED BY <3>1, <3>2, <3>3, <1>4 DEF Passed
  <2>2. ASSUME reply.sent = Len(Answer) PROVE reply.sent >= 2 /\ Passed = block(m)
    <3>1. block(m) \in Seq(Byte) /\ Len(block(m)) = LenBytes + Len(m) /\ Len(m) \in Nat
      BY BlockIs DEF Bytes
    <3>2. LenBytes \in Nat /\ LenBytes >= 1
      BY FramingAssumption
    <3>3. Len(frame(m)) = HeaderLen + Len(m) /\ HeaderLen = 1 + LenBytes
      <4>1. <<>> \in Bytes
        BY DEF Bytes
      <4> QED BY <4>1, <1>4, ParseFrame DEF HeaderLen
    <3>4. reply.sent >= 2 /\ reply.sent - 1 = Len(block(m))
      BY <2>2, <1>4, <3>1, <3>2, <3>3
    <3>5. Passed = SubSeq(block(m), 1, Len(block(m)))
      BY <2>1, <3>4
    <3>6. \A s \in Seq(Byte) : SubSeq(s, 1, Len(s)) = s
      OBVIOUS
    <3> QED BY <3>1, <3>4, <3>5, <3>6
  <2> QED BY <2>1, <2>2, <1>4
<1> QED BY <1>1, <1>2, <1>3, <1>4, AnswerIs

\* A response that is closed where it stands: the answer as a whole if all of it was
\* passed on, and the code alone if nothing was (fetch.rs, the trailer block).
LEMMA ClosedIs ==
  ASSUME TypeOK, Proto, Pumped, NEW code \in Byte
  PROVE  /\ reply.sent = Len(Answer) =>
              Closed(code) = Whole(200, Unset, encode_response_body(AnswerMessage, code))
         /\ reply.sent < 2 => Closed(code) = webnext_error(code)
<1> DEFINE middle == IF handler.saw THEN <<>> ELSE block(<<>>)
           t == encode_trailer_block(code)
<1>1. Closed(code) = Whole(200, Unset, (Passed \o middle) \o t)
  <2>1. \A b, c : [[http |-> 200, status |-> Unset, body |-> b, eof |-> "open"]
                     EXCEPT !.body = c, !.eof = "end"] = Whole(200, Unset, c)
    <3> TAKE b, c
    <3> DEFINE r == [http |-> 200, status |-> Unset, body |-> b, eof |-> "open"]
               s == [r EXCEPT !.body = c, !.eof = "end"]
    <3>1. DOMAIN s = {"http", "status", "body", "eof"}
          /\ s.http = 200 /\ s.status = Unset /\ s.body = c /\ s.eof = "end"
      OBVIOUS
    <3>2. s = [f \in DOMAIN s |-> s[f]]
      OBVIOUS
    <3> HIDE DEF s
    <3>3. s = [http |-> 200, status |-> Unset, body |-> c, eof |-> "end"]
      BY <3>1, <3>2
    <3> QED BY <3>3 DEF Whole, s
  <2>2. /\ response = [http |-> 200, status |-> Unset, body |-> Passed, eof |-> "open"]
        /\ response.body = Passed
    BY DEF Pumped
  <2>3. Closed(code) = [response EXCEPT !.body = (response.body \o middle) \o t, !.eof = "end"]
    BY DEF Closed
  <2> HIDE DEF middle, t
  <2> QED BY ZenonT(60), <2>1, <2>2, <2>3
<1>2. reply.sent \in Nat /\ (handler.saw <=> reply.sent >= 2)
  BY DEF TypeOK, Pumped
<1>3. <<>> \in Bytes /\ block(<<>>) \in Seq(Byte) /\ block(AnswerMessage) \in Seq(Byte)
  <2>1. <<>> \in Bytes
    BY DEF Bytes
  <2> QED BY <2>1, PassedIs, BlockIs DEF Bytes
<1>4. ASSUME reply.sent = Len(Answer) PROVE Passed \o middle = block(AnswerMessage)
  <2>1. CASE reply.sent >= 2
    <3>1. middle = <<>> /\ Passed = block(AnswerMessage)
      BY <2>1, <1>2, <1>4, PassedIs
    <3> QED BY <3>1, <1>3
  <2>2. CASE ~(reply.sent >= 2)
    <3>1. middle = block(<<>>) /\ Passed = <<>> /\ AnswerMessage = <<>>
      BY <2>2, <1>2, <1>4, PassedIs
    <3> QED BY <3>1, <1>3
  <2> QED BY <2>1, <2>2
<1>5. ASSUME reply.sent < 2 PROVE Passed \o middle = block(<<>>)
  <2>1. middle = block(<<>>) /\ Passed = <<>>
    BY <1>2, <1>5, PassedIs
  <2> QED BY <2>1, <1>3
<1> HIDE DEF middle, t
<1>6. \A m \in Bytes : encode_response_body(m, code) = block(m) \o t
  BY DEF encode_response_body, t
<1>7. reply.sent = Len(Answer) =>
        Closed(code) = Whole(200, Unset, encode_response_body(AnswerMessage, code))
  <2>1. encode_response_body(AnswerMessage, code) = block(AnswerMessage) \o t
    BY <1>6, PassedIs
  <2> QED BY <2>1, <1>1, <1>4
<1>8. reply.sent < 2 => Closed(code) = webnext_error(code)
  <2>1. encode_response_body(<<>>, code) = block(<<>>) \o t
    BY <1>3, <1>6
  <2> QED BY <2>1, <1>1, <1>5 DEF webnext_error, fetch_status
<1> QED BY <1>7, <1>8

\* The backend has ended: the response is its answer.
LEMMA EndedIs ==
  ASSUME TypeOK, ResponseInv, BackendEnds
  PROVE  Answered'
<1> DEFINE code == read_status(reply.trailers, reply.headers)
<1>1. /\ call.at = "answered" /\ reply.sent = Len(Answer) /\ req' = req /\ reply' = reply
      /\ response' = IF Proto THEN Closed(code) ELSE Transcoded(code)
  BY DEF BackendEnds, Finish
<1>2. code = AnswerCode /\ AnswerCode \in Byte
  BY CodeIs DEF TypeOK
<1>3. AnswerMessage' = AnswerMessage /\ AnswerCode' = AnswerCode /\ Proto' = Proto
  BY <1>1 DEF AnswerMessage, AnswerCode, Proto
<1> HIDE DEF code
<1>4. CASE Proto
  <2>1. handler.at = "pumping"
    BY <1>1, <1>4 DEF TypeOK, InPlace
  <2>2. Pumped
    BY <2>1 DEF ResponseInv
  <2>3. response' = Whole(200, Unset, encode_response_body(AnswerMessage, AnswerCode))
    BY <2>2, <1>1, <1>2, <1>4, ClosedIs
  <2> QED BY <2>3, <1>3, <1>4 DEF Answered
<1>5. CASE ~Proto
  <2> DEFINE m == IF deframe_all(Answer) = <<>> THEN <<>> ELSE deframe_all(Answer)[1]
  <2>1. Transcoded(AnswerCode) =
          CASE AnswerCode = OK /\ m # <<>> /\ m \in Garbled -> webnext_error(INTERNAL)
            [] AnswerCode = OK /\ m # <<>> /\ m \notin Garbled -> json_fetch_response(OK, Json(m))
            [] OTHER -> json_fetch_response(AnswerCode, <<>>)
    BY DEF Transcoded
  <2>2. m = AnswerMessage
    BY MessagesAre DEF TypeOK
  <2> HIDE DEF m
  <2>3. response' = IF AnswerCode # OK \/ AnswerMessage = <<>>
                    THEN json_fetch_response(AnswerCode, <<>>)
                    ELSE IF AnswerMessage \in Garbled THEN webnext_error(INTERNAL)
                    ELSE json_fetch_response(OK, Json(AnswerMessage))
    BY <2>1, <2>2, <1>1, <1>2, <1>5
  <2>4. webnext_error(INTERNAL)' = webnext_error(INTERNAL)
    BY <1>3 DEF webnext_error
  <2> QED BY <2>3, <2>4, <1>3, <1>5 DEF Answered
<1> QED BY <1>4, <1>5

\* A chunk is passed on, without the flag byte if that comes in it.
LEMMA PumpedOn ==
  ASSUME TypeOK, ResponseInv, BackendSends, Proto
  PROVE  Pumped'
<1>1. PICK n \in 1..(Len(Answer) - reply.sent) :
        LET data == SubSeq(Answer, reply.sent + 1, reply.sent + n)
            rest == SubSeq(data, handler.skip + 1, n)
        IN /\ reply' = [reply EXCEPT !.sent = @ + n]
           /\ handler' = [handler EXCEPT !.skip = 0, !.saw = @ \/ rest # <<>>]
           /\ response' = [response EXCEPT !.body = @ \o rest]
  BY DEF BackendSends
<1>2. Pumped
  <2>1. handler.at = "pumping"
    BY DEF BackendSends, TypeOK, InPlace
  <2> QED BY <2>1 DEF ResponseInv
<1> DEFINE data == SubSeq(Answer, reply.sent + 1, reply.sent + n)
           rest == SubSeq(data, handler.skip + 1, n)
<1>3. /\ reply.sent \in Nat /\ n \in Nat /\ n >= 1 /\ Answer \in Bytes /\ Answer \in Seq(Byte)
      /\ reply.sent + n \in 0..Len(Answer) /\ data \in Bytes /\ Len(data) = n
  BY ChunkIs DEF Bytes
<1>4. handler \in [at : HandlerStates, skip : {0, 1}, saw : BOOLEAN] /\ reply.sent + n \in Nat
      /\ reply \in [headers : Codes, messages : Seq(Bytes), trailers : Codes, sent : Nat]
  BY <1>3 DEF TypeOK
<1>5. reply'.sent = reply.sent + n /\ reply'.messages = reply.messages
  BY <1>1, <1>4
<1>6. Passed' = SubSeq(Answer, 2, reply.sent + n)
  BY <1>5 DEF Passed, Answer
<1>7. CASE reply.sent = 0
  <2>1. handler.skip + 1 = 2 /\ ~handler.saw /\ reply.sent + 1 = 1 /\ reply.sent + n = n
    BY <1>2, <1>3, <1>7 DEF Pumped
  <2>2. Passed = <<>>
    BY <1>7, PassedIs
  <2>3. rest = SubSeq(SubSeq(Answer, 1, n), 2, n)
    BY <2>1
  <2>4. rest = SubSeq(Answer, 2, n) /\ rest \in Seq(Byte) /\ (rest # <<>> <=> n >= 2)
    <3>1. PICK i \in Nat : i = 1
      OBVIOUS
    <3> DEFINE p == SubSeq(Answer, 1, n)
               s == SubSeq(p, i + 1, n)
               t == SubSeq(Answer, i + 1, n)
    <3>2. i <= n /\ n \in 0..Len(Answer) /\ i + 1 = 2
      BY <2>1, <3>1, <1>3
    <3>3. p \in Bytes /\ Len(p) = n /\ \A k \in 1..n : p[k] = Answer[k]
      BY <3>2, <1>3, PrefixIs
    <3>4. t \in Seq(Byte) /\ Len(t) = n - i /\ \A k \in 1..(n - i) : t[k] = Answer[i + k]
      BY <3>2, <1>3, SliceIs DEF Bytes
    <3> HIDE DEF p
    <3>5. s \in Seq(Byte) /\ Len(s) = n - i /\ \A k \in 1..(n - i) : s[k] = p[i + k]
      <4>1. n \in 0..Len(p)
        BY <3>3, <1>3
      <4> QED BY <4>1, <3>2, <3>3, SliceIs DEF Bytes
    <3> HIDE DEF s, t
    <3>6. ASSUME NEW k \in 1..(n - i) PROVE s[k] = t[k]
      <4>1. i + k \in 1..n
        BY <3>1, <1>3
      <4> QED BY <4>1, <3>3, <3>4, <3>5
    <3>7. \A x, y \in Seq(Byte) : Len(x) = Len(y) /\ (\A k \in 1..Len(y) : x[k] = y[k]) => x = y
      OBVIOUS
    <3>8. s = t
      BY <3>4, <3>5, <3>6, <3>7
    <3>9. \A x \in Seq(Byte) : x # <<>> <=> Len(x) >= 1
      OBVIOUS
    <3>10. n - i >= 1 <=> n >= 2
      BY <3>1, <1>3
    <3>11. s # <<>> <=> n >= 2
      BY <3>5, <3>9, <3>10
    <3> QED BY <2>3, <3>2, <3>5, <3>8, <3>11 DEF s, t, p
  <2> HIDE DEF rest
  <2>5. Passed \o rest = rest
    BY <2>2, <2>4
  <2>6. response' = [http |-> 200, status |-> Unset, body |-> rest, eof |-> "open"]
    BY <2>5, <1>1, <1>2 DEF Pumped, rest
  <2>7. handler'.skip = 0 /\ (handler'.saw <=> n >= 2)
    BY <2>1, <2>4, <1>1, <1>4 DEF rest
  <2>8. reply'.sent = n /\ n # 0
    BY <2>1, <1>3, <1>5
  <2>9. rest = Passed'
    <3>1. Passed' = SubSeq(Answer, 2, n)
      BY <2>1, <1>6
    <3> QED BY <3>1, <2>4
  <2> QED BY <2>6, <2>7, <2>8, <2>9 DEF Pumped
<1>8. CASE reply.sent # 0
  <2>1. handler.skip + 1 = 1 /\ reply.sent >= 1
    BY <1>2, <1>3, <1>8 DEF Pumped
  <2>2. rest = data /\ rest # <<>>
    <3>1. data \in Seq(Byte)
      BY <1>3 DEF Bytes
    <3> HIDE DEF data
    <3>2. SubSeq(data, 1, Len(data)) = data /\ data # <<>>
      BY <3>1, <1>3
    <3> QED BY <3>2, <2>1, <1>3
  <2>3. Passed \o data = SubSeq(Answer, 2, reply.sent + n)
    <3>1. PICK i \in Nat : i = 1
      OBVIOUS
    <3>2. i <= reply.sent /\ reply.sent <= reply.sent + n /\ i + 1 = 2
      BY <3>1, <2>1, <1>3
    <3>3. SubSeq(Answer, i + 1, reply.sent) \o data = SubSeq(Answer, i + 1, reply.sent + n)
      BY <3>2, <1>3, SliceGrows
    <3> QED BY <3>2, <3>3 DEF Passed
  <2> HIDE DEF rest, data
  <2>4. response' = [http |-> 200, status |-> Unset, body |-> Passed', eof |-> "open"]
    BY <2>2, <2>3, <1>1, <1>2, <1>6 DEF Pumped, rest, data
  <2>5. handler'.skip = 0 /\ handler'.saw
    BY <2>2, <1>1, <1>4 DEF rest, data
  <2> QED BY <2>1, <2>4, <2>5, <1>3, <1>5 DEF Pumped
<1> QED BY <1>7, <1>8

\* The handler has finished: with the answer of a call that ended, or with a failure.
LEMMA ResponseOfFinish ==
  ASSUME TypeOK, NEW r, NEW at \in {"none", "refused", "broken", "dropped"}, Finish(r, at),
         r.eof = "end" => (TurnedAway \/ Failed \/ Cut)'
  PROVE  ResponseInv'
<1>1. handler'.at = "done" /\ response' = r /\ call'.at = at
  BY DEF Finish, TypeOK, NoCall
<1> QED BY <1>1 DEF ResponseInv, Before

\* A failure that is answered has its cause.
LEMMA FailedIs ==
  ASSUME TypeOK, NEW c \in Failures, NEW at \in {"none", "refused", "broken", "dropped"},
         Finish(webnext_error(c), at),
         c = DEADLINE_EXCEEDED => req.timeout > 0 /\ held >= req.timeout,
         c = RESOURCE_EXHAUSTED => Len(req.bytes) > MaxMessage,
         c \in {INVALID_ARGUMENT, UNIMPLEMENTED} => at = "none" /\ ~Proto
  PROVE  ResponseInv'
<1>1. response' = webnext_error(c) /\ call'.at = at /\ req' = req /\ held' = held
  BY DEF Finish, TypeOK, NoCall
<1>2. Proto' = Proto
  BY <1>1 DEF Proto
<1>3. webnext_error(c)' = webnext_error(c)
  BY <1>2 DEF webnext_error
<1>4. Cause(c)'
  BY <1>1, <1>2 DEF Cause
<1>5. Failed'
  BY <1>1, <1>3, <1>4 DEF Failed
<1> QED BY <1>5, ResponseOfFinish

\* Codes are numbers, all different.
LEMMA CodesDiffer ==
  /\ DEADLINE_EXCEEDED \notin {INVALID_ARGUMENT, RESOURCE_EXHAUSTED, UNIMPLEMENTED}
  /\ UNAVAILABLE \notin {DEADLINE_EXCEEDED, INVALID_ARGUMENT, RESOURCE_EXHAUSTED, UNIMPLEMENTED}
  /\ DEADLINE_EXCEEDED \notin Turns /\ Turns \subseteq Failures
  /\ DEADLINE_EXCEEDED \in Failures /\ UNAVAILABLE \in Failures
BY DEF Turns, Failures, DEADLINE_EXCEEDED, INVALID_ARGUMENT, RESOURCE_EXHAUSTED, UNIMPLEMENTED,
       UNAVAILABLE, INTERNAL

LEMMA ResponseOfReading ==
  ASSUME TypeOK, ResponseInv, ReadingStep
  PROVE  ResponseInv'
<1>1. handler.at \in Before /\ call.at = "none" /\ response = NoResponse
      /\ handler.skip = 1 /\ ~handler.saw
  BY DEF ReadingStep, TypeOK, InPlace, ResponseInv
<1>2. ASSUME NEW at \in Before, Stand(at), call' = call, response' = response
      PROVE  ResponseInv'
  <2>1. Stand(at) /\ call' = call /\ response' = response
    BY <1>2
  <2>2. handler'.at = at /\ handler'.skip = 1 /\ ~handler'.saw /\ call'.at = "none"
        /\ response' = NoResponse
    BY <2>1, <1>1 DEF Stand, TypeOK
  <2> QED BY <2>2 DEF ResponseInv, Before, NoResponse
<1>3. ASSUME NEW http \in {400, 413, 415}, Refuse(text_response(http)) PROVE ResponseInv'
  <2>1. Finish(text_response(http), "none") /\ response' = text_response(http)
    BY <1>3 DEF Refuse, Finish
  <2>2. TurnedAway'
    BY <2>1 DEF TurnedAway, text_response, Whole
  <2> QED BY <2>1, <2>2, ResponseOfFinish
<1>4. ASSUME NEW code \in Turns, Refuse(webnext_error(code)),
             code = RESOURCE_EXHAUSTED => Len(req.bytes) > MaxMessage,
             code \in {INVALID_ARGUMENT, UNIMPLEMENTED} => ~Proto
      PROVE  ResponseInv'
  BY <1>4, CodesDiffer, FailedIs DEF Refuse
<1>5. ASSUME NEW method, NEW request, NEW fed, Dispatch(method, request, fed) PROVE ResponseInv'
  <2>1. handler'.at = "called" /\ handler'.skip = 1 /\ ~handler'.saw /\ call'.at = "called"
        /\ response' = NoResponse
    BY <1>5, <1>1 DEF Dispatch, Stand, TypeOK
  <2> QED BY <2>1 DEF ResponseInv, Before, NoResponse
<1>6. CASE \E at \in Before :
             /\ Stand(at) /\ (at = "lead" => Proto) /\ (at = "body" => ~Proto)
             /\ UNCHANGED <<req, link, schema, call, reply, response, timers, held>>
  <2>1. PICK at \in Before :
             Stand(at) /\ UNCHANGED <<req, link, schema, call, reply, response, timers, held>>
    BY <1>6
  <2> QED BY <2>1, <1>2
<1>7. CASE \E http \in {400, 413, 415} : Refuse(text_response(http))
  BY <1>7, <1>3
<1>8. CASE \E code \in Turns :
             /\ Refuse(webnext_error(code))
             /\ code = RESOURCE_EXHAUSTED => Len(req.bytes) > MaxMessage
             /\ code \in {INVALID_ARGUMENT, UNIMPLEMENTED} => ~Proto
  BY <1>8, <1>4
<1>9. CASE \E method, request, fed : Dispatch(method, request, fed)
  BY <1>9, <1>5
<1>10. \/ ~Proto /\ \E method, request : Dispatch(method, request, TRUE)
       \/ Proto /\ Dispatch(req.parts, <<0>> \o SubSeq(req.bytes, 1, got'), FALSE)
       => \E method, request, fed : Dispatch(method, request, fed)
  OBVIOUS
<1> QED BY ZenonT(60), <1>6, <1>7, <1>8, <1>9, <1>10 DEF ReadingStep

\* A deadline that is due has been waited for (deadline_at).
LEMMA DueIsWaited ==
  ASSUME TypeOK, DeadlineInv, Due, Live
  PROVE  req.timeout > 0 /\ held >= req.timeout
<1>1. req.timeout \in Nat /\ held \in Nat /\ timers.call = 0
  BY RequestIs DEF TypeOK, HeldBound, Due
<1>2. req.timeout > 0
  BY <1>1 DEF DeadlineInv, Unset
<1>3. held + 0 \in req.timeout..(2 * req.timeout) \/ held + 0 = req.timeout
  BY <1>1, <1>2 DEF DeadlineInv
<1> QED BY <1>1, <1>2, <1>3

LEMMA ResponseOfBackend ==
  ASSUME TypeOK, ResponseInv, Backend
  PROVE  ResponseInv'
<1>1. /\ DOMAIN call = {"at", "method", "request", "fed"}
      /\ handler \in [at : HandlerStates, skip : {0, 1}, saw : BOOLEAN]
      /\ reply \in [headers : Codes, messages : Seq(Bytes), trailers : Codes, sent : Nat]
  BY DEF TypeOK, NoCall
<1>2. CASE Forward \/ ForwardEnds
  <2>1. call'.at = call.at /\ call.at \in {"called", "answered"} /\ UNCHANGED <<req, handler, reply, response>>
    BY <1>1, <1>2 DEF Forward, ForwardEnds, Live
  <2>2. handler.at \in {"called", "pumping", "collecting"} /\ (Pumped => Pumped')
    BY <2>1 DEF TypeOK, InPlace, Pumped, Passed, Answer
  <2>3. response.eof # "end"
    BY <2>2 DEF ResponseInv, Pumped, NoResponse
  <2> QED BY <2>1, <2>2, <2>3 DEF ResponseInv
<1>3. CASE BackendRefuses
  BY <1>3, CodesDiffer, FailedIs DEF BackendRefuses
<1>4. CASE BackendAnswers
  <2>1. /\ handler.at = "called" /\ response = NoResponse /\ handler.skip = 1 /\ ~handler.saw
    BY <1>4 DEF BackendAnswers, TypeOK, InPlace, ResponseInv
  <2>2. /\ handler'.at = IF Proto THEN "pumping" ELSE "collecting"
        /\ handler'.skip = 1 /\ ~handler'.saw /\ call'.at = "answered" /\ reply'.sent = 0
        /\ response' = IF Proto THEN [NoResponse EXCEPT !.http = 200] ELSE NoResponse
    BY <2>1, <1>1, <1>4 DEF BackendAnswers, Stand
  <2>3. CASE Proto
    <3>1. ReplyOK(reply')
      <4>1. PICK r \in Replies : reply' = [headers |-> r.headers, messages |-> r.messages,
                                           trailers |-> r.trailers, sent |-> 0]
        BY <1>4 DEF BackendAnswers
      <4>2. ReplyOK(r)
        BY RepliesAssumption
      <4> QED BY <4>1, <4>2 DEF ReplyOK
    <3>2. Passed' = <<>>
      <4>1. Answer' \in Seq(Byte)
        BY <3>1, FramedType DEF Answer, Bytes
      <4> QED BY <4>1, <2>2 DEF Passed
    <3>3. Pumped'
      BY <3>2, <2>2, <2>3 DEF Pumped, NoResponse
    <3> QED BY <3>3, <2>2, <2>3 DEF ResponseInv, Pumped, Before
  <2>4. CASE ~Proto
    BY <2>2, <2>4 DEF ResponseInv, Before, NoResponse
  <2> QED BY <2>3, <2>4
<1>5. CASE BackendSends
  <2>1. /\ call.at = "answered" /\ call' = call /\ handler'.at = handler.at
        /\ handler.at \in {"pumping", "collecting"}
    BY <1>1, <1>5 DEF BackendSends, TypeOK, InPlace
  <2>2. CASE Proto
    <3>1. handler.at = "pumping"
      BY <2>1, <2>2 DEF TypeOK, InPlace
    <3>2. Pumped'
      BY <2>2, <1>5, PumpedOn
    <3> QED BY <3>1, <3>2, <2>1 DEF ResponseInv, Pumped, Before
  <2>3. CASE ~Proto
    <3>1. handler.at = "collecting" /\ UNCHANGED <<handler, response>>
      BY <2>1, <2>3, <1>5 DEF TypeOK, InPlace, BackendSends
    <3> QED BY <3>1, <2>1 DEF ResponseInv, NoResponse, Before
  <2> QED BY <2>2, <2>3
<1>6. CASE BackendEnds
  <2>1. handler'.at = "done" /\ call'.at = "ended"
    BY <1>1, <1>6 DEF BackendEnds, Finish
  <2> QED BY <2>1, <1>6, EndedIs DEF ResponseInv, Before
<1>7. CASE BackendBreaks
  <2>1. CASE Proto
    <3>1. Finish([response EXCEPT !.eof = "error"], "broken")
      BY <2>1, <1>7 DEF BackendBreaks
    <3>2. [response EXCEPT !.eof = "error"].eof # "end"
      BY DEF TypeOK, Responses
    <3> QED BY <3>1, <3>2, ResponseOfFinish
  <2>2. CASE ~Proto
    <3>1. Finish(webnext_error(UNAVAILABLE), "broken")
      BY <2>2, <1>7 DEF BackendBreaks
    <3> QED BY <3>1, CodesDiffer, FailedIs
  <2> QED BY <2>1, <2>2
<1> QED BY <1>2, <1>3, <1>4, <1>5, <1>6, <1>7 DEF Backend

\* The server's state stays as it is, while time may pass.
LEMMA ResponseOfRest ==
  ASSUME TypeOK, ResponseInv, UNCHANGED <<req, handler, call, reply, response>>,
         held' \in Nat, held' >= held
  PROVE  ResponseInv'
<1>1. /\ req' = req /\ handler' = handler /\ call' = call /\ reply' = reply
      /\ response' = response /\ Proto' = Proto
  BY DEF Proto
<1>2. Failed => Failed'
  <2>1. ASSUME NEW c \in Failures, response = webnext_error(c), Cause(c)
        PROVE  response' = webnext_error(c)' /\ Cause(c)'
    <3>1. webnext_error(c)' = webnext_error(c)
      BY <1>1 DEF webnext_error
    <3>2. Cause(c)'
      <4>1. held \in Nat /\ held' \in Int /\ req.timeout \in Nat
        BY RequestIs DEF TypeOK, HeldBound
      <4> QED BY <4>1, <2>1, <1>1 DEF Cause
    <3> QED BY <3>1, <3>2, <2>1, <1>1
  <2> QED BY <2>1 DEF Failed
<1>3. /\ Pumped' = Pumped /\ TurnedAway' = TurnedAway /\ Cut' = Cut
  BY <1>1 DEF Pumped, TurnedAway, Cut, Passed, Answer
<1>4. Answered' = Answered
  BY <1>1 DEF Answered, AnswerMessage, AnswerCode, webnext_error
<1> QED BY <1>1, <1>2, <1>3, <1>4 DEF ResponseInv

LEMMA ResponseOfEnding ==
  ASSUME TypeOK, DeadlineInv, ResponseInv, CallTimeout \/ BodyTimeout \/ Dropped \/ Tick
  PROVE  ResponseInv'
<1>1. CASE CallTimeout
  <2>1. Live
    BY <1>1 DEF CallTimeout, TypeOK, InPlace, Live
  <2>2. req.timeout > 0 /\ held >= req.timeout
    BY <2>1, <1>1, DueIsWaited DEF CallTimeout
  <2> QED BY <2>2, <1>1, CodesDiffer, FailedIs DEF CallTimeout
<1>2. CASE BodyTimeout
  <2>1. Live /\ Proto /\ Pumped /\ reply.sent \in Nat
    BY <1>2 DEF BodyTimeout, TypeOK, InPlace, Live, ResponseInv
  <2>2. req.timeout > 0 /\ held >= req.timeout
    BY <2>1, <1>2, DueIsWaited DEF BodyTimeout
  <2>3. CASE handler.saw
    <3>1. Finish([response EXCEPT !.eof = "end"], "dropped") /\ reply' = reply
      BY <2>3, <1>2 DEF BodyTimeout
    <3>2. [response EXCEPT !.eof = "end"] = Whole(200, Unset, Passed) /\ reply.sent >= 2
      BY <2>1, <2>3 DEF Pumped, Whole
    <3>3. response' = Whole(200, Unset, Passed) /\ req' = req
      BY <3>1, <3>2 DEF Finish
    <3>4. Cut'
      BY <3>1, <3>2, <3>3, <2>1 DEF Cut, Passed, Answer, Proto
    <3> QED BY <3>1, <3>4, ResponseOfFinish
  <2>4. CASE ~handler.saw
    <3>1. Finish(Closed(DEADLINE_EXCEEDED), "dropped")
      BY <2>4, <1>2 DEF BodyTimeout
    <3>2. DEADLINE_EXCEEDED \in Byte /\ reply.sent < 2
      BY <2>1, <2>4 DEF Pumped, DEADLINE_EXCEEDED, Byte
    <3>3. Closed(DEADLINE_EXCEEDED) = webnext_error(DEADLINE_EXCEEDED)
      BY <2>1, <3>2, ClosedIs
    <3> QED BY <3>1, <3>3, <2>2, CodesDiffer, FailedIs
  <2> QED BY <2>3, <2>4
<1>3. CASE Dropped
  <2>1. handler.at # "done" /\ handler'.at = "dropped" /\ response'.eof = "error"
    BY <1>3 DEF Dropped, TypeOK, Responses
  <2>2. call'.at # "ended"
    <3>1. call.at # "ended"
      BY <2>1 DEF ResponseInv
    <3> QED BY <3>1, <1>3 DEF Dropped, TypeOK, NoCall
  <2> QED BY <2>1, <2>2 DEF ResponseInv, Before
<1>4. CASE Tick
  <2>1. UNCHANGED <<req, handler, call, reply, response>> /\ held' \in Nat /\ held' >= held
    BY <1>4, RequestIs DEF Tick, TypeOK, HeldBound
  <2> QED BY <2>1, ResponseOfRest
<1> QED BY <1>1, <1>2, <1>3, <1>4

LEMMA ResponseStep == TypeOK /\ DeadlineInv /\ ResponseInv /\ [Next]_vars => ResponseInv'
<1> SUFFICES ASSUME TypeOK, DeadlineInv, ResponseInv, [Next]_vars PROVE ResponseInv'
  OBVIOUS
<1>1. CASE Client \/ LinkBreaks \/ Terminated \/ UNCHANGED vars
  <2>1. UNCHANGED <<req, handler, call, reply, response, held>>
    BY <1>1 DEF Client, ClientSends, ClientReceives, ClientFails, DeadlineFires, AppCancels, Abort,
                LinkBreaks, Terminated, vars, serverVars, clientVars
  <2>2. held' \in Nat /\ held' >= held
    BY <2>1, RequestIs DEF TypeOK, HeldBound
  <2> QED BY <2>1, <2>2, ResponseOfRest
<1>2. CASE Server
  BY <1>2, ReadingIs, ResponseOfReading, ResponseOfBackend, ResponseOfEnding DEF Server, Handler
<1> QED BY <1>1, <1>2 DEF Next

LEMMA ResponseCorrect == Spec => []ResponseInv
BY TypeInit, TypeStep, DeadlineInit, DeadlineStep, ResponseInit, ResponseStep, PTL DEF Spec

-----------------------------------------------------------------------------
(* The outcome: what the response says, or that the call failed.           *)

OutcomeInv ==
  /\ timers.client # Unset => req.timeout > 0
  /\ signal = "deadline" => req.timeout > 0
  /\ fetching # "settled" => signal = "none" /\ outcomes = <<>>
  /\ signal # "none" => link = "down"
  /\ outcomes # <<>> =>
       /\ req.sdk
       /\ \/ signal = "none" /\ response.eof = "end" /\ outcomes[1] = Outcome(response)
          \/ outcomes[1] = errorForFailure /\ (link = "down" \/ response.eof = "error")
       /\ Len(outcomes) = 2 => outcomes[2] = errorForFailure

LEMMA OutcomeInit == Init => OutcomeInv
BY DEF Init, ServerInit, ClientInit, OutcomeInv

\* Once its response has ended or broken off, the handler is over, and only time passes.
LEMMA OverIsOver ==
  ASSUME TypeOK, ResponseInv, Server
  PROVE  /\ response.eof # "open" => response' = response
         /\ UNCHANGED <<req, link>>
         /\ timers'.client # Unset => timers.client # Unset
<1>1. timers \in [client : Unset..req.timeout, call : Unset..req.timeout]
  BY DEF TypeOK
<1>2. ASSUME response.eof # "open" PROVE handler.at \in {"done", "dropped"}
  <2>1. handler.at \in HandlerStates
    BY DEF TypeOK
  <2>2. handler.at \in Before \cup {"called", "collecting"} => response.eof = "open"
    BY DEF ResponseInv, NoResponse
  <2>3. handler.at = "pumping" => response.eof = "open"
    BY DEF ResponseInv, Pumped
  <2> QED BY <2>1, <2>2, <2>3, <1>2 DEF HandlerStates, Before
<1>3. CASE ReadingStep
  <2>1. handler.at \in Before
    BY <1>3 DEF ReadingStep
  <2>2. response.eof = "open"
    BY <2>1, <1>2 DEF Before
  <2>3. UNCHANGED <<req, link>> /\ timers'.client = timers.client
    BY <1>1, <1>3 DEF ReadingStep, Refuse, Finish, Dispatch
  <2> QED BY <2>2, <2>3
<1>4. CASE Backend
  <2>1. Live
    BY <1>4 DEF Backend, Forward, ForwardEnds, BackendRefuses, BackendAnswers, BackendSends,
                BackendEnds, BackendBreaks, Live
  <2>2. response.eof = "open"
    BY <2>1, <1>2 DEF Live, TypeOK, InPlace
  <2>3. UNCHANGED <<req, link>> /\ timers'.client = timers.client
    <3>1. UNCHANGED <<req, link>>
      BY <1>4 DEF Backend, Forward, ForwardEnds, BackendRefuses, BackendAnswers, BackendSends,
                  BackendEnds, BackendBreaks, Finish
    <3>2. timers' = timers \/ \E t : timers' = [timers EXCEPT !.call = t]
      BY <1>4 DEF Backend, Forward, ForwardEnds, BackendRefuses, BackendAnswers, BackendSends,
                  BackendEnds, BackendBreaks, Finish
    <3> QED BY <3>1, <3>2, <1>1
  <2> QED BY <2>2, <2>3
<1>5. CASE CallTimeout \/ BodyTimeout \/ Dropped
  <2>1. handler.at \notin {"done", "dropped"}
    BY <1>5 DEF CallTimeout, BodyTimeout, Dropped
  <2>2. UNCHANGED <<req, link>> /\ timers'.client = timers.client
    BY <1>1, <1>5 DEF CallTimeout, BodyTimeout, Dropped, Finish
  <2> QED BY <2>1, <2>2, <1>2
<1>6. CASE Tick
  <2>1. UNCHANGED <<req, link, response>>
    BY <1>6 DEF Tick
  <2>2. timers'.client = IF timers.client > 0 THEN timers.client - 1 ELSE timers.client
    BY <1>1, <1>6 DEF Tick
  <2>3. timers.client = Unset => timers'.client = Unset
    BY <2>2 DEF Unset
  <2> QED BY <2>1, <2>3
<1> QED BY <1>3, <1>4, <1>5, <1>6, ReadingIs DEF Server, Handler

LEMMA OutcomeOfClient ==
  ASSUME TypeOK, OutcomeInv, Client
  PROVE  OutcomeInv'
<1>1. /\ req.sdk \in BOOLEAN /\ req.timeout \in Nat
      /\ timers \in [client : Unset..req.timeout, call : Unset..req.timeout]
  BY RequestIs DEF TypeOK
<1>2. CASE ClientSends
  <2>1. fetching = "new" /\ signal = "none" /\ outcomes = <<>>
    BY <1>2 DEF ClientSends, OutcomeInv
  <2>2. timers'.client # Unset => req.timeout > 0
    BY <1>1, <1>2 DEF ClientSends
  <2>3. UNCHANGED <<req, signal, outcomes>>
    BY <1>2 DEF ClientSends
  <2> QED BY <2>1, <2>2, <2>3 DEF OutcomeInv
<1>3. ASSUME NEW o, fetching = "sent", Settle(o), UNCHANGED <<req, link, response, signal>>,
             \/ response.eof = "end" /\ o = Outcome(response)
             \/ o = errorForFailure /\ (link = "down" \/ response.eof = "error")
      PROVE  OutcomeInv'
  <2>1. signal = "none" /\ signal' = "none" /\ outcomes = <<>> /\ fetching' = "settled" /\ timers'.client = Unset
    BY <1>1, <1>3 DEF Settle, OutcomeInv
  <2>2. /\ errorForFailure' = errorForFailure /\ Outcome(response)' = Outcome(response)
    BY <1>3 DEF errorForFailure, Outcome, decodeFetchResponseBody, Deserialized, FromJson
  <2>3. \/ ~req.sdk /\ outcomes' = <<>>
        \/ req.sdk /\ outcomes' = <<o>>
        \/ req.sdk /\ outcomes' = <<o, errorForFailure>>
    BY <2>1, <1>1, <1>3 DEF Settle, CallBack
  <2>4. outcomes' # <<>> =>
          /\ req.sdk /\ outcomes'[1] = o
          /\ Len(outcomes') = 2 => outcomes'[2] = errorForFailure
    BY <2>3
  <2>5. req' = req /\ link' = link /\ response' = response
    BY <1>3
  <2> QED BY <2>1, <2>2, <2>4, <2>5, <1>3 DEF OutcomeInv
<1>4. CASE ClientReceives
  BY <1>3, <1>4 DEF ClientReceives
<1>5. CASE ClientFails
  BY <1>3, <1>5 DEF ClientFails
<1>6. ASSUME NEW reason \in {"deadline", "cancel"}, Abort(reason),
             reason = "deadline" => req.timeout > 0
      PROVE  OutcomeInv'
  <2>1. /\ signal' = reason /\ link' = "down" /\ fetching' = "settled" /\ req' = req
        /\ timers'.client = Unset
        /\ outcomes' = IF req.sdk THEN <<Fails(statusForAbort(reason))>> ELSE <<>>
    BY <1>1, <1>6 DEF Abort
  <2>2. errorForFailure' = Fails(statusForAbort(reason))
    BY <2>1 DEF errorForFailure
  <2>3. outcomes' # <<>> => req.sdk /\ outcomes'[1] = errorForFailure' /\ Len(outcomes') = 1
    BY <2>1, <2>2
  <2> QED BY <2>1, <2>3, <1>6 DEF OutcomeInv
<1>7. CASE DeadlineFires
  <2>1. req.timeout > 0
    BY <1>7 DEF DeadlineFires, OutcomeInv, Unset
  <2> QED BY <2>1, <1>6, <1>7 DEF DeadlineFires
<1>8. CASE AppCancels
  BY <1>6, <1>8 DEF AppCancels
<1> QED BY <1>2, <1>4, <1>5, <1>7, <1>8 DEF Client

LEMMA OutcomeStep == TypeOK /\ ResponseInv /\ OutcomeInv /\ [Next]_vars => OutcomeInv'
<1> SUFFICES ASSUME TypeOK, ResponseInv, OutcomeInv, [Next]_vars PROVE OutcomeInv'
  OBVIOUS
<1>1. ASSUME UNCHANGED clientVars, req' = req, link' \in {link, "down"},
             timers'.client # Unset => timers.client # Unset,
             response.eof # "open" => response' = response
      PROVE  OutcomeInv'
  <2>1. signal' = signal /\ fetching' = fetching /\ outcomes' = outcomes
        /\ errorForFailure' = errorForFailure
    BY <1>1 DEF clientVars, errorForFailure
  <2>2. response.eof = "end" => response' = response /\ Outcome(response)' = Outcome(response)
    BY <2>1, <1>1 DEF Outcome, decodeFetchResponseBody, Deserialized, FromJson
  <2>3. response.eof = "error" => response' = response
    BY <1>1
  <2> QED BY <2>1, <2>2, <2>3, <1>1 DEF OutcomeInv
<1>2. CASE Client
  BY <1>2, OutcomeOfClient
<1>3. CASE Server
  <2>1. UNCHANGED clientVars
    BY <1>3 DEF Server
  <2>2. /\ response.eof # "open" => response' = response
        /\ UNCHANGED <<req, link>>
        /\ timers'.client # Unset => timers.client # Unset
    BY <1>3, OverIsOver
  <2> QED BY <2>1, <2>2, <1>1
<1>4. CASE LinkBreaks \/ Terminated \/ UNCHANGED vars
  <2>1. UNCHANGED <<req, timers, response, clientVars>> /\ link' \in {link, "down"}
    BY <1>4 DEF LinkBreaks, Terminated, vars, serverVars
  <2> QED BY <2>1, <1>1
<1> QED BY <1>2, <1>3, <1>4 DEF Next

LEMMA OutcomeCorrect == Spec => []OutcomeInv
BY TypeInit, TypeStep, DeadlineInit, DeadlineStep, ResponseInit, ResponseStep,
   OutcomeInit, OutcomeStep, PTL DEF Spec

-----------------------------------------------------------------------------
(* What the application makes of each response.                            *)

\* A protobuf body that is whole is read for its message and its code.
LEMMA ReadProto ==
  ASSUME NEW m \in Bytes, Fits(Len(m)), NEW code \in Byte, signal = "none", Proto,
         response = Whole(200, Unset, encode_response_body(m, code))
  PROVE  Outcome(response) =
           IF Len(response.body) > ClientMax THEN Fails(UNKNOWN)
           ELSE IF code # OK THEN Fails(code)
           ELSE IF m \in Garbled THEN Fails(UNKNOWN) ELSE Value(m)
<1> DEFINE body == encode_response_body(m, code)
<1>1. response.http = 200 /\ response.body = body /\ req.ct # "json"
  BY DEF Whole, Proto
<1>2. errorForFailure = Fails(UNKNOWN)
  BY DEF errorForFailure
<1>3. body \in Bytes /\ Len(body) \in Nat /\ ClientMax \in Nat
  <2>1. body \in Bytes
    BY BodyIs
  <2> HIDE DEF body
  <2> QED BY <2>1, ClientMaxAssumption DEF Bytes
<1>4. decode_response_body(body) = [ok |-> TRUE, message |-> m, code |-> code]
  BY DecodeWhole
<1> HIDE DEF body
<1>5. decodeFetchResponseBody(body) = ByStatus(code, Deserialized(m))
  <2>1. decodeFetchResponseBody(body) =
          IF ~decode_response_body(body).ok THEN errorForFailure
          ELSE ByStatus(decode_response_body(body).code,
                        Deserialized(decode_response_body(body).message))
    BY DEF decodeFetchResponseBody
  <2>2. decode_response_body(body).ok /\ decode_response_body(body).code = code
        /\ decode_response_body(body).message = m
    BY <1>4
  <2> QED BY <2>1, <2>2
<1>6. CASE Len(body) > ClientMax
  BY <1>1, <1>2, <1>6 DEF Outcome
<1>7. CASE ~(Len(body) > ClientMax)
  <2>1. Outcome(response) = decodeFetchResponseBody(body)
    BY <1>1, <1>7 DEF Outcome
  <2>2. Deserialized(m) = IF m \in Garbled THEN Fails(UNKNOWN) ELSE Value(m)
    BY <1>2 DEF Deserialized
  <2>3. ByStatus(code, Deserialized(m)) = IF code # OK THEN Fails(code) ELSE Deserialized(m)
    BY DEF ByStatus
  <2> QED BY <2>1, <2>2, <2>3, <1>1, <1>5, <1>7
<1> QED BY <1>6, <1>7

\* A JSON response is read for its status and, if that is OK, its text.
LEMMA ReadJson ==
  ASSUME NEW text \in Bytes, NEW code \in Byte, signal = "none", req.ct = "json",
         response = json_fetch_response(code, text)
  PROVE  Outcome(response) =
           IF Len(response.body) > ClientMax THEN Fails(UNKNOWN)
           ELSE IF code # OK THEN Fails(code) ELSE FromJson(text)
<1>1. /\ response.http = 200 /\ response.status = code /\ code # Unset
      /\ response.body = IF code = OK THEN text ELSE <<>>
  BY DEF json_fetch_response, Whole, Byte, Unset
<1>2. errorForFailure = Fails(UNKNOWN)
  BY DEF errorForFailure
<1>3. Len(response.body) \in Nat /\ ClientMax \in Nat
  BY <1>1, ClientMaxAssumption DEF Bytes
<1>4. CASE Len(response.body) > ClientMax
  BY <1>1, <1>2, <1>3, <1>4 DEF Outcome
<1>5. CASE ~(Len(response.body) > ClientMax)
  <2>1. Len(response.body) <= ClientMax
    BY <1>3, <1>5
  <2>2. Outcome(response) = ByStatus(code, FromJson(response.body))
    BY <2>1, <1>1, <1>5 DEF Outcome
  <2> QED BY <2>2, <1>1, <1>5 DEF ByStatus
<1> QED BY <1>4, <1>5

LEMMA SdkRequest ==
  ASSUME TypeOK, req.sdk
  PROVE  Proto \/ (~Proto /\ req.ct = "json")
BY RequestsAssumption DEF TypeOK, Proto

\* The answer of a call that ended reaches the application as it should.
LEMMA AnswerIsRead ==
  ASSUME TypeOK, Answered, signal = "none", req.sdk
  PROVE  Outcome(response) = Expected(TRUE)
<1>1. AnswerCode \in Byte /\ AnswerMessage \in Bytes /\ Fits(Len(AnswerMessage)) /\ <<>> \in Bytes
  BY CodeIs, PassedIs DEF TypeOK, Bytes
<1>2. CASE Proto
  <2>1. response = Whole(200, Unset, encode_response_body(AnswerMessage, AnswerCode))
    BY <1>2 DEF Answered
  <2> DEFINE m == AnswerMessage
             code == AnswerCode
  <2>2. m \in Bytes /\ Fits(Len(m)) /\ code \in Byte
    BY <1>1
  <2>3. Outcome(response) =
           IF Len(response.body) > ClientMax THEN Fails(UNKNOWN)
           ELSE IF code # OK THEN Fails(code)
           ELSE IF m \in Garbled THEN Fails(UNKNOWN) ELSE Value(m)
    BY <2>1, <2>2, <1>2, ReadProto
  <2>4. Fails(IF Proto THEN UNKNOWN ELSE INTERNAL) = Fails(UNKNOWN)
    BY <1>2
  <2> QED BY <2>3, <2>4, <1>2 DEF Expected
<1>3. CASE ~Proto
  <2>1. req.ct = "json" /\ errorForFailure = Fails(UNKNOWN) /\ <<>> \in Bytes
    BY <1>1, <1>3, SdkRequest DEF errorForFailure
  <2>2. OK \in Byte /\ INTERNAL \in Byte /\ INTERNAL # OK
    BY DEF OK, INTERNAL, Byte
  <2>3. CASE AnswerCode # OK \/ AnswerMessage = <<>>
    <3>1. response = json_fetch_response(AnswerCode, <<>>)
      BY <2>3, <1>3 DEF Answered
    <3>2. Outcome(response) = IF Len(response.body) > ClientMax THEN Fails(UNKNOWN)
            ELSE IF AnswerCode # OK THEN Fails(AnswerCode) ELSE FromJson(<<>>)
      BY <3>1, <2>1, <1>1, ReadJson
    <3>3. FromJson(<<>>) = Fails(UNKNOWN)
      BY <2>1 DEF FromJson
    <3> QED BY <3>2, <3>3, <2>3, <1>3 DEF Expected
  <2>4. CASE AnswerCode = OK /\ AnswerMessage # <<>> /\ AnswerMessage \in Garbled
    <3>1. response = json_fetch_response(INTERNAL, <<>>)
      BY <2>4, <1>3 DEF Answered, webnext_error
    <3>2. Outcome(response) = IF Len(response.body) > ClientMax THEN Fails(UNKNOWN)
            ELSE IF INTERNAL # OK THEN Fails(INTERNAL) ELSE FromJson(<<>>)
      BY <3>1, <2>1, <2>2, ReadJson
    <3> QED BY <3>2, <2>2, <2>4, <1>3 DEF Expected
  <2>5. CASE AnswerCode = OK /\ AnswerMessage # <<>> /\ AnswerMessage \notin Garbled
    <3> DEFINE text == Json(AnswerMessage)
    <3>1. text \in Bytes /\ text # <<>> /\ SubSeq(text, 2, Len(text) - 1) = AnswerMessage
      BY <1>1, JsonIsRead
    <3> HIDE DEF text
    <3>2. response = json_fetch_response(OK, text)
      BY <2>5, <1>3 DEF Answered, text
    <3>3. Outcome(response) = IF Len(response.body) > ClientMax THEN Fails(UNKNOWN)
            ELSE IF OK # OK THEN Fails(OK) ELSE FromJson(text)
      BY <3>1, <3>2, <2>1, <2>2, ReadJson
    <3>4. FromJson(text) = Value(AnswerMessage)
      BY <3>1, <2>5 DEF FromJson, Deserialized
    <3> QED BY <3>3, <3>4, <2>5, <1>3 DEF Expected
  <2> QED BY <2>3, <2>4, <2>5
<1> QED BY <1>2, <1>3

\* Every other response that ends is a failure, and one with a cause.
LEMMA FailureIsRead ==
  ASSUME TypeOK, TurnedAway \/ Failed \/ Cut, signal = "none", req.sdk
  PROVE  \E c : Outcome(response) = Fails(c) /\ Cause(c) /\ c # CANCELLED
<1>1. \A c \in {UNKNOWN, UNAVAILABLE} : Cause(c) /\ c # CANCELLED
  BY DEF Cause, UNKNOWN, UNAVAILABLE, CANCELLED, DEADLINE_EXCEEDED, RESOURCE_EXHAUSTED,
         INVALID_ARGUMENT, UNIMPLEMENTED
<1>2. errorForFailure = Fails(UNKNOWN) /\ <<>> \in Bytes /\ Fits(Len(<<>>))
  BY SmallFits DEF errorForFailure, Bytes
<1>3. CASE TurnedAway
  <2>1. Outcome(response) = Fails(UNAVAILABLE)
    BY <1>3 DEF TurnedAway, Outcome
  <2> QED BY <2>1, <1>1
<1>4. CASE Failed
  <2>1. PICK c \in Failures : response = webnext_error(c) /\ Cause(c)
    BY <1>4 DEF Failed
  <2>2. c \in Byte /\ c # OK /\ c # CANCELLED
    BY DEF Failures, Byte, OK, CANCELLED, INVALID_ARGUMENT, DEADLINE_EXCEEDED, RESOURCE_EXHAUSTED,
           UNIMPLEMENTED, INTERNAL, UNAVAILABLE
  <2>3. CASE Proto
    <3>1. response = Whole(200, Unset, encode_response_body(<<>>, c))
      BY <2>1, <2>3 DEF webnext_error, fetch_status
    <3>2. Outcome(response) =
           IF Len(response.body) > ClientMax THEN Fails(UNKNOWN)
           ELSE IF c # OK THEN Fails(c)
           ELSE IF <<>> \in Garbled THEN Fails(UNKNOWN) ELSE Value(<<>>)
      BY <3>1, <2>2, <2>3, <1>2, ReadProto
    <3> QED BY <3>2, <2>1, <2>2, <1>1
  <2>4. CASE ~Proto
    <3>1. response = json_fetch_response(c, <<>>) /\ req.ct = "json"
      BY <2>1, <2>4, SdkRequest DEF webnext_error
    <3>2. Outcome(response) = IF Len(response.body) > ClientMax THEN Fails(UNKNOWN)
            ELSE IF c # OK THEN Fails(c) ELSE FromJson(<<>>)
      BY <3>1, <2>2, <1>2, ReadJson
    <3> QED BY <3>2, <2>1, <2>2, <1>1
  <2> QED BY <2>3, <2>4
<1>5. CASE Cut
  <2>1. PICK m \in Bytes, n \in Nat :
          Fits(Len(m)) /\ n \in 0..Len(block(m)) /\ Passed = SubSeq(block(m), 1, n)
    BY <1>5, PassedIs DEF Cut
  <2>2. ~decode_response_body(Passed).ok
    BY <2>1, DecodeCut
  <2>3. response.http = 200 /\ response.body = Passed /\ req.ct # "json"
    BY <1>5 DEF Cut, Whole, Proto
  <2>4. decodeFetchResponseBody(Passed) = Fails(UNKNOWN)
    BY <2>2, <1>2 DEF decodeFetchResponseBody
  <2>5. Outcome(response) = Fails(UNKNOWN)
    BY <2>3, <2>4, <1>2 DEF Outcome
  <2> QED BY <2>5, <1>1
<1> QED BY <1>3, <1>4, <1>5

-----------------------------------------------------------------------------
(* The promises to the application                                         *)

\* What the application was called with first, of a response that ended.
LEMMA FirstOutcome ==
  ASSUME TypeOK, ResponseInv, OutcomeInv, outcomes # <<>>
  PROVE  \/ /\ call.at = "ended" /\ signal = "none" /\ outcomes[1] = Expected(TRUE)
         \/ /\ signal = "none" /\ \E c : outcomes[1] = Fails(c) /\ Cause(c) /\ c # CANCELLED
         \/ outcomes[1] = errorForFailure /\ (link = "down" \/ call.at # "ended")
<1>1. CASE signal = "none" /\ response.eof = "end" /\ outcomes[1] = Outcome(response)
  <2>1. req.sdk
    BY DEF OutcomeInv
  <2>2. CASE call.at = "ended"
    BY <2>1, <2>2, <1>1, AnswerIsRead DEF ResponseInv
  <2>3. CASE call.at # "ended"
    <3>1. TurnedAway \/ Failed \/ Cut
      BY <2>3, <1>1 DEF ResponseInv
    <3> QED BY <3>1, <2>1, <1>1, FailureIsRead
  <2> QED BY <2>2, <2>3
<1>2. CASE outcomes[1] = errorForFailure /\ (link = "down" \/ response.eof = "error")
  <2>1. ASSUME call.at = "ended" PROVE response.eof # "error"
    <3>1. Answered
      BY <2>1 DEF ResponseInv
    <3> QED BY <3>1 DEF Answered, Whole, webnext_error, fetch_status, json_fetch_response
  <2> QED BY <2>1, <1>2
<1> QED BY <1>1, <1>2 DEF OutcomeInv

LEMMA OutcomeInvIsWhole == TypeOK /\ ResponseInv /\ OutcomeInv => AnswerIsWhole
<1> SUFFICES ASSUME TypeOK, ResponseInv, OutcomeInv,
                    NEW k \in DOMAIN outcomes, outcomes[k].is = "value"
             PROVE  call.at = "ended" /\ AnswerCode = OK /\ outcomes[k].message = AnswerMessage
  BY DEF AnswerIsWhole
<1>1. outcomes # <<>> /\ k \in 1..Len(outcomes) /\ Len(outcomes) \in Nat /\ Len(outcomes) <= 2
  BY DEF TypeOK
<1>2. errorForFailure.is = "error" /\ \A c : Fails(c).is = "error"
  BY DEF errorForFailure, Fails
<1>3. k = 1
  <2>1. CASE k = 2
    <3> DEFINE l == Len(outcomes)
    <3>0. k \in 1..l /\ l \in Nat /\ l <= 2
      BY <1>1
    <3> HIDE DEF l
    <3>1. l = 2
      BY <3>0, <2>1
    <3>2. outcomes[2] = errorForFailure
      BY <3>1, <1>1 DEF OutcomeInv, l
    <3> QED BY <3>2, <2>1, <1>2
  <2> QED BY <2>1, <1>1
<1>4. call.at = "ended" /\ outcomes[1] = Expected(TRUE)
  BY <1>1, <1>2, <1>3, FirstOutcome
<1>5. AnswerCode = OK /\ outcomes[1] = Value(AnswerMessage)
  <2>1. \/ AnswerCode = OK /\ outcomes[1] = Value(AnswerMessage)
        \/ \E c : outcomes[1] = Fails(c)
    BY <1>4 DEF Expected
  <2>2. outcomes[1].is = "value"
    BY <1>3
  <2>3. ASSUME NEW c, outcomes[1] = Fails(c) PROVE FALSE
    BY <2>2, <2>3 DEF Fails
  <2> QED BY <2>1, <2>3
<1>6. outcomes[1].message = AnswerMessage
  BY <1>5 DEF Value
<1>7. call.at = "ended"
  BY <1>4
<1>8. AnswerCode = OK
  BY <1>5
<1> QED BY <1>3, <1>6, <1>7, <1>8

LEMMA OutcomeInvIsBackends == TypeOK /\ ResponseInv /\ OutcomeInv => OutcomeIsBackends
<1> SUFFICES ASSUME TypeOK, ResponseInv, OutcomeInv, Undisturbed
             PROVE  outcomes[1] = Expected(TRUE)
  BY DEF OutcomeIsBackends
<1>1. link = "up" /\ signal = "none" /\ call.at = "ended" /\ outcomes # <<>> /\ req.sdk
  BY DEF Undisturbed, OutcomeInv
<1>2. Answered
  BY <1>1 DEF ResponseInv
<1>3. response.eof # "error"
  BY <1>2 DEF Answered, Whole, webnext_error, fetch_status, json_fetch_response
<1>4. outcomes[1] = Outcome(response)
  BY <1>1, <1>3 DEF OutcomeInv
<1> QED BY <1>1, <1>2, <1>4, AnswerIsRead

LEMMA OutcomeInvHasCause == TypeOK /\ ResponseInv /\ OutcomeInv => FailureHasCause
<1> SUFFICES ASSUME TypeOK, ResponseInv, OutcomeInv, outcomes # <<>>,
                    NEW c, c = outcomes[1].code, outcomes[1].is = "error", c # AnswerCode
             PROVE  /\ c = CANCELLED => signal = "cancel"
                    /\ c = DEADLINE_EXCEEDED =>
                         req.timeout > 0 /\ (signal = "deadline" \/ held >= req.timeout)
                    /\ c = RESOURCE_EXHAUSTED => Len(req.bytes) > MaxMessage
                    /\ c \in {INVALID_ARGUMENT, UNIMPLEMENTED} => call.at = "none" /\ ~Proto
  BY DEF FailureHasCause
<1> USE DEF CANCELLED, UNKNOWN, INTERNAL, DEADLINE_EXCEEDED, RESOURCE_EXHAUSTED,
            INVALID_ARGUMENT, UNIMPLEMENTED
<1>1. CASE outcomes[1] = Expected(TRUE)
  <2>1. c \in {UNKNOWN, INTERNAL}
    BY <1>1 DEF Expected, Fails, Value
  <2> QED BY <2>1
<1>2. CASE \E d : outcomes[1] = Fails(d) /\ Cause(d) /\ d # CANCELLED
  <2>1. Cause(c) /\ c # CANCELLED
    BY <1>2 DEF Fails
  <2> QED BY <2>1 DEF Cause
<1>3. CASE outcomes[1] = errorForFailure
  <2>1. c = IF signal = "none" THEN UNKNOWN ELSE statusForAbort(signal)
    BY <1>3 DEF errorForFailure, Fails
  <2>2. signal \in {"none", "deadline", "cancel"} /\ (signal = "deadline" => req.timeout > 0)
    BY DEF TypeOK, OutcomeInv
  <2> QED BY <2>1, <2>2 DEF statusForAbort
<1> QED BY <1>1, <1>2, <1>3, FirstOutcome

\* A message reaches the application only if it is the backend's, whole, and the call
\* ended well: never a response cut by a deadline, a limit, an abort or the network, for
\* every answer and however it comes in pieces (fetch.rs, frame.ts).
THEOREM AnswersAreWhole == Spec => []AnswerIsWhole
BY UnaryTypeCorrect, ResponseCorrect, OutcomeCorrect, OutcomeInvIsWhole, PTL

\* Where nothing disturbs the call, the application learns what the backend ended with.
THEOREM OutcomeIsTheBackends == Spec => []OutcomeIsBackends
BY UnaryTypeCorrect, ResponseCorrect, OutcomeCorrect, OutcomeInvIsBackends, PTL

\* A failure the backend did not give is a cancel, a deadline, a size or a bad request
\* only where there was one.
THEOREM FailuresHaveCauses == Spec => []FailureHasCause
BY UnaryTypeCorrect, ResponseCorrect, OutcomeCorrect, OutcomeInvHasCause, PTL
=============================================================================
