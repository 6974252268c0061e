----------------------------- MODULE H2tsProofs -----------------------------
(***************************************************************************)
(* Proofs about calls over the h2ts tunnel, for every set of calls, every  *)
(* message and answer, every limit and every width of a length prefix:     *)
(* its types, its limit, its iterators and its failures; then what a call  *)
(* carries: its bytes parse to its messages at both ends, a unary call     *)
(* that succeeds has the answer, and a stream implements RpcStream.        *)
(***************************************************************************)
EXTENDS H2tsCalls, FramingProofs

-----------------------------------------------------------------------------
(* Types                                                                   *)

TransportOK ==
  /\ conns \in Seq({"connecting", "open", "failed", "closed"}) /\ current \in 0..Len(conns)
  /\ closed \in BOOLEAN /\ closing \subseteq DOMAIN conns /\ work \in Workloads

\* What is framed, pushed and inspected is made of bytes.
LEMMA FrameIsBytes ==
  ASSUME NEW m \in Bytes, Fits(Len(m))
  PROVE  frame(m) \in Bytes
<1>1. <<>> \in Bytes
  BY ParseNothing
<1> QED BY <1>1, ParseFrame

LEMMA PushType ==
  ASSUME NEW buf \in Bytes, NEW chunk \in Bytes
  PROVE  push(buf, chunk).messages \in Seq(Bytes) /\ push(buf, chunk).buf \in Bytes
<1> DEFINE b == buf \o chunk
<1>1. b \in Bytes
  BY DEF Bytes
<1>2. push(buf, chunk) = [messages |-> deframe(b).messages, buf |-> After(b, deframe(b).used)]
  BY DEF push, After
<1> HIDE DEF b
<1>3. deframe(b).messages \in Seq(Bytes) /\ deframe(b).used \in 0..Len(b)
  BY <1>1, DeframeType
<1>4. After(b, deframe(b).used) \in Bytes
  BY <1>1, <1>3, AfterIs
<1> QED BY <1>2, <1>3, <1>4

LEMMA NoLimitYetType == NoLimitYet \in LimitState
<1>1. HeaderLen \in Nat /\ <<>> \in Bytes
  BY FramingAssumption DEF HeaderLen, Bytes
<1> QED BY <1>1 DEF NoLimitYet, LimitState

LEMMA NoStreamType == NoStream \in StreamStates
<1>1. <<>> \in Bytes /\ NoLimitYet \in LimitState
  BY NoLimitYetType DEF Bytes
<1> QED BY <1>1 DEF NoStream, NoEnd, Unset, StreamStates

LEMMA TypeInit == Init => TypeOK
<1> SUFFICES ASSUME Init PROVE TypeOK
  OBVIOUS
<1>1. <<>> \in Bytes /\ <<>> \in Seq(Bytes) /\ <<>> \in Seq(Messages) /\ <<>> \in Seq(Int)
  BY DEF Bytes
<1>2. NewCall \in CallStates /\ NewIter \in IterStates /\ NoStream \in StreamStates
  BY <1>1, NoStreamType DEF NewCall, NewIter, CallStates, IterStates
<1>3. ASSUME NEW c \in Calls PROVE CallOK(c)
  <2>1. call[c] = NewCall /\ srv[c] = NoStream /\ conns = <<>> /\ work \in Workloads
    BY DEF Init, ClientInit
  <2>2. c \in DOMAIN work => work[c].answers \in Nat
    BY <2>1, AnswersAssumption
  <2> QED BY <2>1, <2>2 DEF CallOK, NewCall, NoStream
<1>4. conns \in Seq({"connecting", "open", "failed", "closed"}) /\ current \in 0..Len(conns)
      /\ closed \in BOOLEAN /\ closing \subseteq DOMAIN conns /\ work \in Workloads
  <2>1. <<>> \in Seq({"connecting", "open", "failed", "closed"}) /\ 0 \in 0..Len(<<>>)
    OBVIOUS
  <2> QED BY <2>1 DEF Init, ClientInit
<1>5. /\ call \in [Calls -> CallStates] /\ iter \in [Calls -> IterStates]
      /\ srv \in [Calls -> StreamStates]
  BY <1>2 DEF Init, ClientInit
<1> QED BY <1>3, <1>4, <1>5 DEF TypeOK

\* What the invariant says of one call.
LEMMA OneCallType ==
  ASSUME TypeOK, NEW c \in Calls
  PROVE  /\ call[c] \in CallStates /\ srv[c] \in StreamStates /\ iter[c] \in IterStates
         /\ CallOK(c) /\ Len(conns) \in Nat
  BY DEF TypeOK

\* A step that changes one call, its stream and its iterator, and keeps them in
\* order, keeps the types.
LEMMA OneCallSteps ==
  ASSUME TypeOK, NEW c \in Calls, TransportOK', work' = work, Len(conns) <= Len(conns'),
         call' \in [Calls -> CallStates], srv' \in [Calls -> StreamStates],
         iter' \in [Calls -> IterStates],
         \A d \in Calls \ {c} : call'[d] = call[d] /\ srv'[d] = srv[d],
         CallOK(c)'
  PROVE  TypeOK'
<1>1. ASSUME NEW d \in Calls PROVE CallOK(d)'
  <2>1. CASE d = c
    BY <2>1
  <2>2. CASE d # c
    <3>1. CallOK(d) /\ call'[d] = call[d] /\ srv'[d] = srv[d]
      BY <2>2 DEF TypeOK
    <3>2. Len(conns) \in Nat /\ Len(conns') \in Nat
      BY DEF TypeOK, TransportOK
    <3> QED BY <3>1, <3>2 DEF CallOK
  <2> QED BY <2>1, <2>2
<1> QED BY <1>1 DEF TypeOK, TransportOK

\* The transport is as it was.
LEMMA TransportStays ==
  ASSUME TypeOK, UNCHANGED <<conns, current, closed, closing, work>>
  PROVE  TransportOK' /\ Len(conns) <= Len(conns') /\ work' = work
<1>1. Len(conns) \in Nat
  BY DEF TypeOK
<1> QED BY <1>1 DEF TypeOK, TransportOK

LEMMA TypeStarts ==
  ASSUME TypeOK, NEW c \in Calls, Starts(c)
  PROVE  TypeOK'
<1>1. /\ call[c] \in CallStates /\ srv[c] \in StreamStates /\ CallOK(c) /\ Len(conns) \in Nat
      /\ call[c].at = "idle" /\ c \in DOMAIN work
  BY OneCallType DEF Starts
<1>2. PICK first : /\ first \in IF c \in Unary THEN {<<m>> : m \in Messages} ELSE {<<>>}
                   /\ UseConnection(c, first)
  BY DEF Starts
<1> DEFINE k == IF current = 0 THEN Len(conns) + 1 ELSE current
           out == IF first = <<>> THEN <<>> ELSE frame(first[1])
           alone == c \in Unary
           r == [call[c] EXCEPT !.at = "connecting", !.conn = k, !.sent = first, !.out = out,
                   !.bodyClosed = alone]
<1>3. first \in Seq(Messages) /\ out \in Bytes
  <2>1. CASE first = <<>>
    BY <2>1 DEF Bytes
  <2>2. CASE first # <<>>
    <3>1. PICK m \in Messages : first = <<m>>
      BY <1>2, <2>2
    <3>2. frame(m) \in Bytes
      BY MessagesAssumption, FrameIsBytes
    <3> QED BY <3>1, <3>2
  <2> QED BY <2>1, <2>2
<1>4. conns' \in Seq({"connecting", "open", "failed", "closed"}) /\ k \in 1..Len(conns')
      /\ Len(conns) <= Len(conns') /\ DOMAIN conns \subseteq DOMAIN conns' /\ current' = k
  BY <1>1, <1>2 DEF UseConnection, TypeOK
<1>5. TransportOK' /\ work' = work
  BY <1>4 DEF Starts, TypeOK, TransportOK
<1>6. call' = [call EXCEPT ![c] = r] /\ UNCHANGED <<iter, srv>>
  BY <1>2 DEF UseConnection, Starts
<1> HIDE DEF k, out
<1>7. r \in CallStates
  <2>1. alone \in BOOLEAN /\ k \in Nat
    BY <1>1, <1>4
  <2> HIDE DEF alone
  <2> QED BY <2>1, <1>1, <1>3 DEF CallStates
<1>8. CallOK(c)'
  <2>1. call'[c] = r /\ srv'[c] = srv[c] /\ srv[c] = NoStream /\ call[c] = NewCall
    BY <1>1, <1>6 DEF TypeOK, CallOK
  <2>2. r.at = "connecting" /\ r.conn = k /\ r.statuses = <<>> /\ r.read = 0 /\ r.out = out
    BY <2>1, <1>1 DEF NewCall
  <2>3. Len(out) \in Nat
    BY <1>3, BytesAreNats
  <2>4. c \in DOMAIN work => srv[c].answers <= work[c].answers
    BY <1>1 DEF CallOK
  <2> QED BY <2>1, <2>2, <2>3, <2>4, <1>1, <1>4, <1>5 DEF CallOK, NoStream
<1>9. call' \in [Calls -> CallStates] /\ iter' \in [Calls -> IterStates] /\ srv' \in [Calls -> StreamStates]
  BY <1>6, <1>7 DEF TypeOK
<1>10. \A d \in Calls \ {c} : call'[d] = call[d] /\ srv'[d] = srv[d]
  BY <1>6 DEF TypeOK
<1> QED BY <1>4, <1>5, <1>8, <1>9, <1>10, OneCallSteps

\* An iterator keeps its type, whatever reaches it.
LEMMA IterTypes ==
  ASSUME NEW i \in IterStates, NEW code \in Int, NEW messages \in Seq(Bytes),
         NEW statuses \in Seq(Int)
  PROVE  /\ EndOf(i, code) \in IterStates /\ PushAll(i, messages) \in IterStates
         /\ NextResult(i, statuses) \in IterStates
<1>1. EndOf(i, code) \in IterStates
  BY DEF EndOf, Final, IterStates
<1>2. PushAll(i, messages) \in IterStates
  <2>1. i.buffer \o messages \in Seq(Bytes)
    BY DEF IterStates
  <2>2. messages # <<>> => Append(i.values, Head(messages)) \in Seq(Bytes) /\ Tail(messages) \in Seq(Bytes)
    BY HeadTailProperties, AppendProperties DEF IterStates
  <2>3. CASE messages = <<>>
    BY <2>3 DEF PushAll
  <2>4. CASE messages # <<>> /\ i.waiting
    BY <2>2, <2>4 DEF PushAll, IterStates
  <2>5. CASE messages # <<>> /\ ~i.waiting
    BY <2>1, <2>5 DEF PushAll, IterStates
  <2> QED BY <2>3, <2>4, <2>5
<1>3. NextResult(i, statuses) \in IterStates
  <2>1. CASE i.buffer # <<>>
    <3>1. Append(i.values, Head(i.buffer)) \in Seq(Bytes) /\ Tail(i.buffer) \in Seq(Bytes)
      BY <2>1, HeadTailProperties, AppendProperties DEF IterStates
    <3> QED BY <2>1, <3>1 DEF NextResult, IterStates
  <2>2. CASE i.buffer = <<>>
    BY <2>2 DEF NextResult, Final, IterStates
  <2> QED BY <2>1, <2>2
<1> QED BY <1>1, <1>2, <1>3

\* A call that settles: one that is not over, with a status.
LEMMA TypeSettle ==
  ASSUME TypeOK, NEW c \in Calls, NEW code \in Int, NEW r \in CallStates, Settle(c, code, r),
         call[c].at \notin {"idle", "done"}, r.conn = call[c].conn, r.out = call[c].out,
         r.read = call[c].read, r.statuses = call[c].statuses,
         UNCHANGED <<conns, current, closed, closing, work, srv>>
  PROVE  TypeOK'
<1> DEFINE q == [r EXCEPT !.at = "done", !.statuses = Append(@, code)]
<1>1. /\ call[c] \in CallStates /\ iter[c] \in IterStates /\ CallOK(c) /\ Len(conns) \in Nat
  BY OneCallType
<1>2. r.statuses = <<>>
  BY <1>1 DEF CallOK
<1>3. q \in CallStates /\ q.statuses = <<code>> /\ q.at = "done" /\ q.conn = r.conn
      /\ q.out = r.out /\ q.read = r.read
  <2>1. Append(r.statuses, code) = <<code>> /\ <<code>> \in Seq(Int)
    BY <1>2
  <2> DEFINE l == Append(r.statuses, code)
  <2> HIDE DEF l
  <2>2. l = <<code>> /\ l \in Seq(Int)
    BY <2>1 DEF l
  <2>3. q = [r EXCEPT !.at = "done", !.statuses = l]
    BY DEF l
  <2> QED BY <2>2, <2>3 DEF CallStates
<1>4. call' = [call EXCEPT ![c] = q] /\ iter' = [iter EXCEPT ![c] = EndOf(@, code)]
  BY DEF Settle
<1> HIDE DEF q
<1>5. EndOf(iter[c], code) \in IterStates
  <2>1. <<>> \in Seq(Bytes) /\ <<>> \in Seq(Int)
    OBVIOUS
  <2> QED BY <2>1, <1>1, IterTypes
<1>6. call' \in [Calls -> CallStates] /\ iter' \in [Calls -> IterStates] /\ srv' \in [Calls -> StreamStates]
  BY <1>3, <1>4, <1>5 DEF TypeOK
<1>7. \A d \in Calls \ {c} : call'[d] = call[d] /\ srv'[d] = srv[d]
  BY <1>4 DEF TypeOK
<1>8. CallOK(c)'
  <2>1. call'[c] = q /\ srv'[c] = srv[c]
    BY <1>4 DEF TypeOK
  <2> QED BY <2>1, <1>1, <1>3 DEF CallOK
<1> QED BY <1>6, <1>7, <1>8, TransportStays, OneCallSteps

LEMMA AbortIsCode ==
  ASSUME NEW signal \in {"none", "deadline", "cancel"}
  PROVE  abortOrUnknown(signal) \in Int /\ abortOrUnknown(signal) # OK
  BY DEF abortOrUnknown, UNKNOWN, DEADLINE_EXCEEDED, CANCELLED, OK

LEMMA TypeFails ==
  ASSUME TypeOK, NEW c \in Calls, Fails(c), call[c].at \notin {"idle", "done"},
         UNCHANGED <<conns, current, closed, closing, work, srv>>
  PROVE  TypeOK'
<1>1. call[c] \in CallStates
  BY OneCallType
<1>2. abortOrUnknown(call[c].signal) \in Int
  BY <1>1, AbortIsCode DEF CallStates
<1> QED BY <1>1, <1>2, TypeSettle DEF Fails

\* A step that changes a call but not where its request, its answer and its end are.
LEMMA TypeCallSteps ==
  ASSUME TypeOK, NEW c \in Calls, NEW r \in CallStates, call' = [call EXCEPT ![c] = r],
         call[c].at # "idle", r.at # "idle", r.at = "done" <=> call[c].at = "done",
         r.conn = call[c].conn, Len(call[c].out) <= Len(r.out), r.statuses = call[c].statuses,
         r.read <= Len(srv[c].wrote), iter' \in [Calls -> IterStates],
         UNCHANGED <<conns, current, closed, closing, work, srv>>
  PROVE  TypeOK'
<1>1. /\ call[c] \in CallStates /\ srv[c] \in StreamStates /\ CallOK(c) /\ Len(conns) \in Nat
  BY OneCallType
<1>2. call' \in [Calls -> CallStates] /\ srv' \in [Calls -> StreamStates]
  BY DEF TypeOK
<1>3. \A d \in Calls \ {c} : call'[d] = call[d] /\ srv'[d] = srv[d]
  BY DEF TypeOK
<1>4. CallOK(c)'
  <2>1. call'[c] = r /\ srv'[c] = srv[c]
    BY DEF TypeOK
  <2>2. Len(call[c].out) \in Nat /\ Len(r.out) \in Nat /\ srv[c].fed \in Nat
    BY <1>1, BytesAreNats DEF CallStates, StreamStates
  <2>3. srv[c].fed <= Len(r.out)
    BY <2>2, <1>1 DEF CallOK
  <2> QED BY <2>1, <2>3, <1>1 DEF CallOK
<1> QED BY <1>2, <1>3, <1>4, TransportStays, OneCallSteps

LEMMA TypeTurn ==
  ASSUME TypeOK, NEW c \in Calls, Turn(c)
  PROVE  TypeOK'
<1>1. /\ call[c] \in CallStates /\ srv[c] \in StreamStates /\ iter[c] \in IterStates /\ CallOK(c)
      /\ iter \in [Calls -> IterStates]
  BY OneCallType DEF TypeOK
<1>2. call[c].out \in Bytes /\ Len(call[c].out) \in Nat
  BY <1>1, BytesAreNats DEF CallStates
<1>3. CASE IssuesRequest(c)
  <2>1. CASE call[c].signal # "none"
    BY <1>3, <2>1, TypeFails DEF IssuesRequest
  <2>2. CASE call[c].signal = "none"
    <3> DEFINE r == [call[c] EXCEPT !.at = "requesting"]
    <3>1. r \in CallStates /\ r.at = "requesting" /\ r.conn = call[c].conn /\ r.out = call[c].out
          /\ r.statuses = call[c].statuses /\ r.read = call[c].read
      BY <1>1 DEF CallStates
    <3>2. call' = [call EXCEPT ![c] = r] /\ call[c].at = "connecting"
          /\ UNCHANGED <<conns, current, closed, closing, work, srv, iter>>
      BY <1>3, <2>2 DEF IssuesRequest
    <3>3. /\ call[c].at # "idle" /\ r.at # "idle" /\ r.at = "done" <=> call[c].at = "done"
          /\ Len(call[c].out) <= Len(r.out) /\ r.read <= Len(srv[c].wrote)
          /\ iter' \in [Calls -> IterStates]
      BY <3>1, <3>2, <1>1, <1>2 DEF CallOK
    <3> HIDE DEF r
    <3> QED BY <3>1, <3>2, <3>3, TypeCallSteps
  <2> QED BY <2>1, <2>2
<1>4. CASE Breaks(c)
  <2>1. call[c].at \notin {"idle", "done"} /\ Fails(c)
        /\ UNCHANGED <<conns, current, closed, closing, work, srv>>
    BY <1>4 DEF Breaks
  <2> QED BY <2>1, TypeFails
<1>5. CASE GetsHeaders(c)
  <2> DEFINE r == [call[c] EXCEPT !.at = "reading"]
  <2>1. r \in CallStates /\ r.at = "reading" /\ r.conn = call[c].conn /\ r.out = call[c].out
        /\ r.statuses = call[c].statuses /\ r.read = call[c].read
    BY <1>1 DEF CallStates
  <2>2. call' = [call EXCEPT ![c] = r] /\ call[c].at = "requesting"
        /\ UNCHANGED <<conns, current, closed, closing, work, srv, iter>>
    BY <1>5 DEF GetsHeaders
  <2>3. /\ call[c].at # "idle" /\ r.at # "idle" /\ r.at = "done" <=> call[c].at = "done"
        /\ Len(call[c].out) <= Len(r.out) /\ r.read <= Len(srv[c].wrote)
        /\ iter' \in [Calls -> IterStates]
    BY <2>1, <2>2, <1>1, <1>2 DEF CallOK
  <2> HIDE DEF r
  <2> QED BY <2>1, <2>2, <2>3, TypeCallSteps
<1>6. CASE Reads(c)
  <2>1. PICK n \in 1..Unread(c) :
          /\ call' = [call EXCEPT ![c] = [call[c] EXCEPT !.read = @ + n, !.buf = Parse(c, n).buf,
                         !.received = @ \o Parse(c, n).messages]]
          /\ iter' = IF c \in Unary THEN iter
                      ELSE [iter EXCEPT ![c] = PushAll(@, Parse(c, n).messages)]
    BY <1>6 DEF Reads
  <2> DEFINE chunk == SubSeq(srv[c].wrote, call[c].read + 1, call[c].read + n)
             p == Parse(c, n)
             r == [call[c] EXCEPT !.read = @ + n, !.buf = p.buf, !.received = @ \o p.messages]
  <2>2. call[c].read \in Nat /\ n \in Nat /\ call[c].read + n <= Len(srv[c].wrote)
        /\ srv[c].wrote \in Bytes /\ call[c].buf \in Bytes /\ call[c].received \in Seq(Bytes)
        /\ Len(srv[c].wrote) \in Nat
    <3>1. srv[c].wrote \in Bytes /\ call[c].buf \in Bytes /\ call[c].received \in Seq(Bytes)
          /\ call[c].read \in Nat
      BY <1>1 DEF CallStates, StreamStates
    <3>2. Len(srv[c].wrote) \in Nat
      BY <3>1, BytesAreNats
    <3>3. n \in Nat /\ n <= Len(srv[c].wrote) - call[c].read
      BY <3>1, <3>2 DEF Unread
    <3> QED BY <3>1, <3>2, <3>3
  <2>3. chunk \in Bytes
    BY <2>2 DEF Bytes
  <2>4. p.messages \in Seq(Bytes) /\ p.buf \in Bytes
    <3>1. p = IF c \in Unary THEN [messages |-> <<>>, buf |-> call[c].buf \o chunk]
              ELSE push(call[c].buf, chunk)
      BY DEF Parse
    <3> HIDE DEF p, chunk
    <3>2. CASE c \in Unary
      <4>1. p = [messages |-> <<>>, buf |-> call[c].buf \o chunk]
        BY <3>1, <3>2
      <4>2. call[c].buf \o chunk \in Bytes /\ <<>> \in Seq(Bytes)
        BY <2>2, <2>3 DEF Bytes
      <4> QED BY <4>1, <4>2
    <3>3. CASE c \notin Unary
      BY <3>1, <3>3, <2>2, <2>3, PushType
    <3> QED BY <3>2, <3>3
  <2>5. /\ call' = [call EXCEPT ![c] = r]
        /\ iter' = IF c \in Unary THEN iter ELSE [iter EXCEPT ![c] = PushAll(@, p.messages)]
    BY <2>1
  <2> HIDE DEF p, chunk
  <2>6. call[c].received \o p.messages \in Seq(Bytes) /\ call[c].read + n \in Nat
    BY <2>2, <2>4
  <2>7. r \in CallStates
    BY <1>1, <2>4, <2>6 DEF CallStates
  <2>8. iter' \in [Calls -> IterStates]
    <3>1. PushAll(iter[c], p.messages) \in IterStates
      <4>1. <<>> \in Seq(Int) /\ 0 \in Int
        OBVIOUS
      <4> QED BY <4>1, <2>4, <1>1, IterTypes
    <3> QED BY <3>1, <2>5, <1>1
  <2>9. /\ r.at = call[c].at /\ r.conn = call[c].conn /\ r.out = call[c].out
        /\ r.statuses = call[c].statuses /\ r.read = call[c].read + n
    BY <1>1 DEF CallStates
  <2>10. call[c].at = "reading" /\ UNCHANGED <<conns, current, closed, closing, work, srv>>
    BY <1>6 DEF Reads
  <2>11. /\ call[c].at # "idle" /\ r.at # "idle" /\ r.at = "done" <=> call[c].at = "done"
         /\ Len(call[c].out) <= Len(r.out) /\ r.read <= Len(srv[c].wrote)
    BY <2>2, <2>9, <2>10, <1>2
  <2>12. call' = [call EXCEPT ![c] = r]
    BY <2>5
  <2> HIDE DEF r
  <2> QED BY <2>7, <2>8, <2>9, <2>10, <2>11, <2>12, TypeCallSteps
<1>7. CASE ReadsEnd(c)
  <2> DEFINE messages == deframe_all(call[c].buf)
             first == IF messages = <<>> THEN <<>> ELSE messages[1]
             r == IF c \in Unary THEN [call[c] EXCEPT !.received = <<first>>] ELSE call[c]
             code == statusFromResponse(srv[c].end)
  <2>1. Settle(c, code, r) /\ call[c].at = "reading"
        /\ UNCHANGED <<conns, current, closed, closing, work, srv>>
    BY <1>7 DEF ReadsEnd
  <2>2. code \in Int
    <3>1. srv[c].end \in [trailers : Int, headers : Int, http : Int]
      BY <1>1 DEF StreamStates
    <3> QED BY <3>1 DEF statusFromResponse, httpToStatus, OK, UNAVAILABLE, UNKNOWN
  <2>3. first \in Bytes
    <3>1. messages \in Seq(Bytes)
      BY <1>1, DeframeType DEF CallStates
    <3> HIDE DEF messages
    <3>2. <<>> \in Bytes
      BY DEF Bytes
    <3> QED BY <3>1, <3>2
  <2> HIDE DEF first, code
  <2>4. r \in CallStates /\ r.conn = call[c].conn /\ r.out = call[c].out
        /\ r.read = call[c].read /\ r.statuses = call[c].statuses
    <3>1. CASE c \in Unary
      <4>1. <<first>> \in Seq(Bytes)
        BY <2>3
      <4> QED BY <3>1, <4>1, <1>1 DEF CallStates
    <3>2. CASE c \notin Unary
      BY <3>2, <1>1
    <3> QED BY <3>1, <3>2
  <2> HIDE DEF r
  <2> QED BY <2>1, <2>2, <2>4, TypeSettle
<1> QED BY <1>3, <1>4, <1>5, <1>6, <1>7 DEF Turn

LEMMA TypeApp ==
  ASSUME TypeOK, NEW c \in Calls, App(c)
  PROVE  TypeOK'
<1>1. /\ call[c] \in CallStates /\ srv[c] \in StreamStates /\ iter[c] \in IterStates /\ CallOK(c)
      /\ iter \in [Calls -> IterStates] /\ Len(conns) \in Nat
  BY OneCallType DEF TypeOK
<1>2. call[c].out \in Bytes /\ Len(call[c].out) \in Nat /\ call[c].read <= Len(srv[c].wrote)
  BY <1>1, BytesAreNats DEF CallStates, CallOK
<1>3. CASE Starts(c)
  BY <1>3, TypeStarts
<1>4. CASE Signals(c)
  <2>1. PICK why \in MayStill(c) :
          LET r == [call[c] EXCEPT !.signal = why, !.bodyClosed = @ \/ why = "cancel"] IN
          IF call[c].at = "connecting" THEN call' = [call EXCEPT ![c] = r] /\ UNCHANGED iter
          ELSE Settle(c, abortOrUnknown(why), r)
    BY <1>4 DEF Signals
  <2> DEFINE r == [call[c] EXCEPT !.signal = why, !.bodyClosed = @ \/ why = "cancel"]
  <2>2. why \in {"deadline", "cancel"} /\ call[c].bodyClosed \in BOOLEAN
    BY <1>1 DEF MayStill, CallStates
  <2>3. r \in CallStates /\ r.at = call[c].at /\ r.conn = call[c].conn /\ r.out = call[c].out
        /\ r.read = call[c].read /\ r.statuses = call[c].statuses
    <3> DEFINE shut == call[c].bodyClosed \/ why = "cancel"
    <3>1. shut \in BOOLEAN
      OBVIOUS
    <3> HIDE DEF shut
    <3>2. r = [call[c] EXCEPT !.signal = why, !.bodyClosed = shut]
      BY DEF shut
    <3> QED BY <3>1, <3>2, <2>2, <1>1 DEF CallStates
  <2>4. call[c].at \in {"connecting", "requesting", "reading"}
        /\ UNCHANGED <<conns, current, closed, closing, work, srv>>
    BY <1>4 DEF Signals
  <2>5. IF call[c].at = "connecting" THEN call' = [call EXCEPT ![c] = r] /\ UNCHANGED iter
        ELSE Settle(c, abortOrUnknown(why), r)
    BY <2>1
  <2> HIDE DEF r
  <2>6. CASE call[c].at = "connecting"
    <3>1. call' = [call EXCEPT ![c] = r] /\ iter' = iter
      BY <2>5, <2>6
    <3>2. /\ call[c].at # "idle" /\ r.at # "idle" /\ r.at = "done" <=> call[c].at = "done"
          /\ Len(call[c].out) <= Len(r.out) /\ r.read <= Len(srv[c].wrote)
          /\ iter' \in [Calls -> IterStates]
      BY <3>1, <2>3, <2>6, <1>1, <1>2
    <3> QED BY <3>1, <3>2, <2>3, <2>4, TypeCallSteps
  <2>7. CASE call[c].at # "connecting"
    <3>1. abortOrUnknown(why) \in Int
      BY <2>2, AbortIsCode
    <3> QED BY <3>1, <2>3, <2>4, <2>5, <2>7, TypeSettle
  <2> QED BY <2>6, <2>7
<1>5. CASE AppSends(c)
  <2>1. PICK m \in Messages :
          call' = [call EXCEPT ![c].sent = Append(@, m), ![c].out = @ \o frame(m)]
    BY <1>5 DEF AppSends
  <2> DEFINE sent == Append(call[c].sent, m)
             out == call[c].out \o frame(m)
             r == [call[c] EXCEPT !.sent = sent, !.out = out]
  <2>2. frame(m) \in Bytes
    BY MessagesAssumption, FrameIsBytes
  <2>3. sent \in Seq(Messages) /\ out \in Bytes /\ Len(call[c].out) <= Len(out)
    <3>1. sent \in Seq(Messages)
      BY <1>1 DEF CallStates
    <3>2. Len(frame(m)) \in Nat
      BY <2>2, BytesAreNats
    <3>3. out \in Bytes /\ Len(out) = Len(call[c].out) + Len(frame(m))
      BY <2>2, <1>2, JoinedIs DEF Bytes
    <3> QED BY <3>1, <3>2, <3>3, <1>2
  <2>4. call' = [call EXCEPT ![c] = r]
    BY <2>1, <1>1 DEF TypeOK
  <2>5. call[c].at \notin {"idle", "done"}
        /\ UNCHANGED <<conns, current, closed, closing, work, srv, iter>>
    BY <1>5 DEF AppSends
  <2> HIDE DEF sent, out
  <2>6. r \in CallStates /\ r.at = call[c].at /\ r.conn = call[c].conn /\ r.out = out
        /\ r.statuses = call[c].statuses /\ r.read = call[c].read
    BY <2>3, <1>1 DEF CallStates
  <2> HIDE DEF r
  <2>7. /\ call[c].at # "idle" /\ r.at # "idle" /\ r.at = "done" <=> call[c].at = "done"
        /\ Len(call[c].out) <= Len(r.out) /\ r.read <= Len(srv[c].wrote)
        /\ iter' \in [Calls -> IterStates]
    BY <2>3, <2>5, <2>6, <1>1, <1>2
  <2> QED BY <2>4, <2>5, <2>6, <2>7, TypeCallSteps
<1>6. CASE AppHalfCloses(c)
  <2> DEFINE r == [call[c] EXCEPT !.bodyClosed = TRUE]
  <2>1. r \in CallStates /\ r.at = call[c].at /\ r.conn = call[c].conn /\ r.out = call[c].out
        /\ r.statuses = call[c].statuses /\ r.read = call[c].read
    BY <1>1 DEF CallStates
  <2>2. call' = [call EXCEPT ![c] = r] /\ call[c].at \notin {"idle", "done"}
        /\ UNCHANGED <<conns, current, closed, closing, work, srv, iter>>
    BY <1>6, <1>1 DEF AppHalfCloses, TypeOK
  <2>3. /\ call[c].at # "idle" /\ r.at # "idle" /\ r.at = "done" <=> call[c].at = "done"
        /\ Len(call[c].out) <= Len(r.out) /\ r.read <= Len(srv[c].wrote)
        /\ iter' \in [Calls -> IterStates]
    BY <2>1, <2>2, <1>1, <1>2
  <2> HIDE DEF r
  <2> QED BY <2>1, <2>2, <2>3, TypeCallSteps
<1>7. CASE AppNext(c)
  <2>1. /\ iter' = [iter EXCEPT ![c] = NextResult(@, call[c].statuses)]
        /\ UNCHANGED <<conns, current, closed, closing, call, work, srv>>
    BY <1>7 DEF AppNext
  <2>2. NextResult(iter[c], call[c].statuses) \in IterStates
    <3>1. call[c].statuses \in Seq(Int) /\ <<>> \in Seq(Bytes) /\ 0 \in Int
      BY <1>1 DEF CallStates
    <3> QED BY <3>1, <1>1, IterTypes
  <2>3. iter' \in [Calls -> IterStates]
    BY <2>1, <2>2, <1>1
  <2>4. CallOK(c)' /\ \A d \in Calls \ {c} : call'[d] = call[d] /\ srv'[d] = srv[d]
    BY <2>1, <1>1 DEF CallOK
  <2>5. call' \in [Calls -> CallStates] /\ srv' \in [Calls -> StreamStates]
    BY <2>1 DEF TypeOK
  <2> QED BY <2>1, <2>3, <2>4, <2>5, TransportStays, OneCallSteps
<1> QED BY <1>3, <1>4, <1>5, <1>6, <1>7 DEF App

\* A step of the server changes one stream.
LEMMA TypeStreamSteps ==
  ASSUME TypeOK, NEW c \in Calls, NEW s \in StreamStates, srv' = [srv EXCEPT ![c] = s],
         call[c].at # "idle", s.at # "none", s.fed <= Len(call[c].out),
         Len(srv[c].wrote) <= Len(s.wrote), s.answers <= work[c].answers,
         UNCHANGED clientVars
  PROVE  TypeOK'
<1>1. /\ call[c] \in CallStates /\ srv[c] \in StreamStates /\ CallOK(c) /\ Len(conns) \in Nat
  BY OneCallType
<1>2. UNCHANGED <<conns, current, closed, closing, work, call, iter>>
  BY DEF clientVars
<1>3. CallOK(c)'
  <2>1. call'[c] = call[c] /\ srv'[c] = s /\ conns' = conns /\ work' = work
    BY <1>2 DEF TypeOK
  <2>2. Len(srv[c].wrote) \in Nat /\ Len(s.wrote) \in Nat /\ call[c].read \in Nat
    BY <1>1, BytesAreNats DEF CallStates, StreamStates
  <2>3. call[c].read <= Len(s.wrote)
    BY <2>2, <1>1 DEF CallOK
  <2> QED BY <2>1, <2>3, <1>1 DEF CallOK
<1>4. \A d \in Calls \ {c} : call'[d] = call[d] /\ srv'[d] = srv[d]
  BY <1>2 DEF TypeOK
<1>5. /\ call' \in [Calls -> CallStates] /\ srv' \in [Calls -> StreamStates]
      /\ iter' \in [Calls -> IterStates]
  BY <1>2 DEF TypeOK
<1> QED BY <1>2, <1>3, <1>4, <1>5, TransportStays, OneCallSteps

LEMMA TypeServer ==
  ASSUME TypeOK, NEW c \in Calls, ServerTurn(c)
  PROVE  TypeOK'
<1>1. /\ call[c] \in CallStates /\ srv[c] \in StreamStates /\ CallOK(c)
  BY OneCallType
<1>2. /\ call[c].out \in Bytes /\ Len(call[c].out) \in Nat /\ srv[c].wrote \in Bytes
      /\ Len(srv[c].wrote) \in Nat /\ srv[c].fed \in Nat /\ srv[c].fed <= Len(call[c].out)
      /\ srv[c].seen \in Bytes /\ srv[c].answers \in Nat
      /\ srv[c].limit \in LimitState /\ MaxMessage \in Int
  BY SMTT(60), <1>1, BytesAreNats, LimitAssumption DEF CallStates, StreamStates, CallOK
<1>3. call[c].at # "idle" /\ c \in DOMAIN work
  BY <1>1 DEF ServerTurn, Opens, Polls, AnswersCall, EndsCall, Resets, Serving, CallOK
<1>4. /\ srv[c].answers <= work[c].answers /\ work[c].answers \in 0..Len(Answers)
      /\ Len(Answers) \in Nat
  BY <1>1, <1>3, AnswersAssumption DEF CallOK, TypeOK
<1>5. CASE Opens(c)
  <2> DEFINE s == [srv[c] EXCEPT !.at = "open"]
  <2>1. s \in StreamStates /\ s.at = "open" /\ s.fed = srv[c].fed /\ s.wrote = srv[c].wrote
        /\ s.answers = srv[c].answers
    BY <1>1 DEF StreamStates
  <2>2. srv' = [srv EXCEPT ![c] = s] /\ UNCHANGED clientVars
    BY <1>5, <1>1 DEF Opens, TypeOK
  <2>3. s.at # "none" /\ s.fed <= Len(call[c].out) /\ Len(srv[c].wrote) <= Len(s.wrote)
        /\ s.answers <= work[c].answers
    BY <2>1, <1>2, <1>4
  <2> HIDE DEF s
  <2> QED BY <2>1, <2>2, <2>3, <1>3, TypeStreamSteps
<1>6. CASE Resets(c)
  <2> DEFINE s == [srv[c] EXCEPT !.at = "reset"]
  <2>1. s \in StreamStates /\ s.at = "reset" /\ s.fed = srv[c].fed /\ s.wrote = srv[c].wrote
        /\ s.answers = srv[c].answers
    BY <1>1 DEF StreamStates
  <2>2. srv' = [srv EXCEPT ![c] = s] /\ UNCHANGED clientVars
    BY <1>6, <1>1 DEF Resets, TypeOK
  <2>3. s.at # "none" /\ s.fed <= Len(call[c].out) /\ Len(srv[c].wrote) <= Len(s.wrote)
        /\ s.answers <= work[c].answers
    BY <2>1, <1>2, <1>4
  <2> HIDE DEF s
  <2> QED BY <2>1, <2>2, <2>3, <1>3, TypeStreamSteps
<1>7. CASE Polls(c)
  <2>1. PICK n \in 1..(Len(call[c].out) - srv[c].fed) :
          LET chunk == SubSeq(call[c].out, srv[c].fed + 1, srv[c].fed + n)
              limit == inspect(srv[c].limit, chunk, MaxMessage)
              s == [srv[c] EXCEPT !.fed = @ + n, !.limit = limit]
          IN srv' = [srv EXCEPT ![c] = IF limit.over THEN [s EXCEPT !.at = "limited"]
                                       ELSE [s EXCEPT !.seen = @ \o chunk]]
    BY <1>7 DEF Polls
  <2> DEFINE chunk == SubSeq(call[c].out, srv[c].fed + 1, srv[c].fed + n)
             limit == inspect(srv[c].limit, chunk, MaxMessage)
             q == [srv[c] EXCEPT !.fed = @ + n, !.limit = limit]
             s == IF limit.over THEN [q EXCEPT !.at = "limited"] ELSE [q EXCEPT !.seen = @ \o chunk]
  <2>2. srv' = [srv EXCEPT ![c] = s] /\ UNCHANGED clientVars /\ srv[c].at = "open"
    BY <2>1, <1>7 DEF Polls
  <2>3. n \in Nat /\ srv[c].fed + n \in Nat /\ srv[c].fed + n <= Len(call[c].out)
    BY <1>2
  <2>4. chunk \in Bytes
    BY SMTT(60), <2>3, <1>2 DEF Bytes
  <2> HIDE DEF chunk
  <2>5. limit \in LimitState
    <3>1. chunk \in Bytes /\ srv[c].limit \in LimitState /\ MaxMessage \in Int
      BY <2>4, <1>2
    <3> QED BY <3>1, InspectInChunks
  <2>6. srv[c].seen \o chunk \in Bytes
    BY <2>4, <1>2 DEF Bytes
  <2> HIDE DEF limit
  <2>7. q \in StreamStates /\ q.at = "open" /\ q.fed = srv[c].fed + n /\ q.wrote = srv[c].wrote
        /\ q.answers = srv[c].answers /\ q.seen = srv[c].seen
    BY <2>2, <2>3, <2>5, <1>1 DEF StreamStates
  <2> HIDE DEF q
  <2>8. s \in StreamStates /\ s.at # "none" /\ s.fed = q.fed /\ s.wrote = q.wrote
        /\ s.answers = q.answers
    BY <2>6, <2>7 DEF StreamStates
  <2> HIDE DEF s
  <2>9. s.fed <= Len(call[c].out) /\ Len(srv[c].wrote) <= Len(s.wrote)
        /\ s.answers <= work[c].answers
    BY <2>3, <2>7, <2>8, <1>2, <1>4
  <2> QED BY <2>2, <2>8, <2>9, <1>3, TypeStreamSteps
<1>8. CASE AnswersCall(c)
  <2> DEFINE m == Answers[srv[c].answers + 1]
             wrote == srv[c].wrote \o frame(m)
             s == [srv[c] EXCEPT !.headers = TRUE, !.answers = @ + 1, !.wrote = wrote]
  <2>1. srv[c].answers < work[c].answers /\ srv[c].at = "open" /\ UNCHANGED clientVars
        /\ srv' = [srv EXCEPT ![c] = s]
    BY <1>8 DEF AnswersCall
  <2>2. srv[c].answers + 1 \in 1..Len(Answers) /\ srv[c].answers + 1 <= work[c].answers
    BY <2>1, <1>2, <1>4
  <2>3. frame(m) \in Bytes /\ Len(frame(m)) \in Nat
    <3>1. m \in Bytes /\ Fits(Len(m))
      BY <2>2, AnswersAssumption
    <3> HIDE DEF m
    <3>2. frame(m) \in Bytes
      BY <3>1, FrameIsBytes
    <3> QED BY <3>2, BytesAreNats
  <2> HIDE DEF m
  <2>4. wrote \in Bytes /\ Len(srv[c].wrote) <= Len(wrote)
    <3>1. wrote \in Bytes /\ Len(wrote) = Len(srv[c].wrote) + Len(frame(m))
      BY <2>3, <1>2, JoinedIs DEF Bytes
    <3> QED BY <3>1, <2>3, <1>2
  <2> HIDE DEF wrote
  <2>5. s \in StreamStates /\ s.at = "open" /\ s.fed = srv[c].fed /\ s.wrote = wrote
        /\ s.answers = srv[c].answers + 1
    <3> DEFINE a == srv[c].answers + 1
    <3>1. a \in Nat
      BY <1>2
    <3> HIDE DEF a
    <3>2. s = [srv[c] EXCEPT !.headers = TRUE, !.answers = a, !.wrote = wrote]
      BY DEF a
    <3>3. s \in StreamStates /\ s.at = srv[c].at /\ s.fed = srv[c].fed /\ s.wrote = wrote
          /\ s.answers = a
      BY <3>1, <3>2, <2>4, <1>1 DEF StreamStates
    <3> QED BY <3>3, <2>1 DEF a
  <2>6. s.at # "none" /\ s.fed <= Len(call[c].out) /\ Len(srv[c].wrote) <= Len(s.wrote)
        /\ s.answers <= work[c].answers
    BY <2>2, <2>4, <2>5, <1>2
  <2> HIDE DEF s
  <2> QED BY <2>1, <2>5, <2>6, <1>3, TypeStreamSteps
<1>9. CASE EndsCall(c)
  <2>1. PICK end \in Endings :
          srv' = [srv EXCEPT ![c] = [@ EXCEPT !.at = "ended", !.headers = TRUE, !.end = end]]
    BY <1>9 DEF EndsCall
  <2> DEFINE s == [srv[c] EXCEPT !.at = "ended", !.headers = TRUE, !.end = end]
  <2>2. s \in StreamStates /\ s.at = "ended" /\ s.fed = srv[c].fed /\ s.wrote = srv[c].wrote
        /\ s.answers = srv[c].answers
    <3>1. end \in [trailers : Int, headers : Int, http : Int]
      BY EndingsAssumption
    <3>2. srv[c] \in StreamStates
      BY <1>1
    <3> QED BY ONLY <3>1, <3>2 DEF StreamStates
  <2>3. srv' = [srv EXCEPT ![c] = s] /\ UNCHANGED clientVars
    BY <2>1, <1>9 DEF EndsCall
  <2>4. s.at # "none" /\ s.fed <= Len(call[c].out) /\ Len(srv[c].wrote) <= Len(s.wrote)
        /\ s.answers <= work[c].answers
    BY <2>2, <1>2, <1>4
  <2> HIDE DEF s
  <2> QED BY <2>2, <2>3, <2>4, <1>3, TypeStreamSteps
<1> QED BY <1>5, <1>6, <1>7, <1>8, <1>9 DEF ServerTurn

LEMMA TypeConnections ==
  ASSUME TypeOK, Connection \/ TransportCloses \/ Terminated \/ UNCHANGED vars
  PROVE  TypeOK'
<1>1. UNCHANGED <<call, iter, work, srv>>
  BY DEF Connection, Connects, ConnectFails, ConnectionDies, ConnectionBecomes, ConnectionCloses,
         TransportCloses, Terminated, vars, clientVars
<1>2. /\ conns \in Seq({"connecting", "open", "failed", "closed"}) /\ current \in 0..Len(conns)
      /\ closing \subseteq DOMAIN conns /\ Len(conns) \in Nat /\ DOMAIN conns = 1..Len(conns)
  BY DEF TypeOK
<1>3. TransportOK' /\ Len(conns') = Len(conns)
  <2>1. ASSUME NEW from, NEW to \in {"open", "failed", "closed"}, ConnectionBecomes(from, to)
        PROVE  TransportOK' /\ Len(conns') = Len(conns)
    <3>1. PICK k \in DOMAIN conns : conns' = [conns EXCEPT ![k] = to]
      BY <2>1 DEF ConnectionBecomes
    <3>2. /\ conns' \in Seq({"connecting", "open", "failed", "closed"})
          /\ Len(conns') = Len(conns) /\ DOMAIN conns' = DOMAIN conns
      BY <3>1, <1>2, ExceptSeq
    <3> QED BY <3>2, <1>2, <2>1 DEF ConnectionBecomes, TypeOK, TransportOK
  <2>2. CASE Connects \/ ConnectFails \/ ConnectionDies
    BY <2>1, <2>2 DEF Connects, ConnectFails, ConnectionDies
  <2>3. CASE ConnectionCloses
    <3>1. PICK k \in closing :
             /\ closing' = closing \ {k}
             /\ conns' = [conns EXCEPT ![k] = IF @ = "open" THEN "closed" ELSE @]
      BY <2>3 DEF ConnectionCloses
    <3> DEFINE e == IF conns[k] = "open" THEN "closed" ELSE conns[k]
    <3>2. k \in 1..Len(conns) /\ e \in {"connecting", "open", "failed", "closed"}
      BY <1>2
    <3>3. conns' = [conns EXCEPT ![k] = e]
      BY <3>1
    <3> HIDE DEF e
    <3>4. /\ conns' \in Seq({"connecting", "open", "failed", "closed"})
          /\ Len(conns') = Len(conns) /\ DOMAIN conns' = DOMAIN conns
      BY <3>2, <3>3, <1>2, ExceptSeq
    <3> QED BY <3>1, <3>4, <1>2, <2>3 DEF ConnectionCloses, TypeOK, TransportOK
  <2>4. CASE TransportCloses
    BY <2>4, <1>2 DEF TransportCloses, Forget, TypeOK, TransportOK
  <2>5. CASE UNCHANGED vars
    BY <2>5 DEF vars, clientVars, TypeOK, TransportOK
  <2>6. CASE Terminated
    BY <2>5, <2>6 DEF Terminated
  <2> QED BY <2>2, <2>3, <2>4, <2>5, <2>6 DEF Connection
<1>4. ASSUME NEW d \in Calls PROVE CallOK(d)'
  <2>1. CallOK(d)
    BY DEF TypeOK
  <2> QED BY <2>1, <1>1, <1>3 DEF CallOK
<1> QED BY <1>1, <1>3, <1>4 DEF TypeOK, TransportOK

LEMMA TypeStep == TypeOK /\ [Next]_vars => TypeOK'
  BY TypeTurn, TypeApp, TypeServer, TypeConnections DEF Next

\* Types, and what a call, its stream and its connection have to do with each other:
\* nothing is read that was not written, and a call ends once (h2ts-transport.ts).
THEOREM H2tsTypeCorrect == Spec => []TypeOK
  BY TypeInit, TypeStep, PTL DEF Spec

-----------------------------------------------------------------------------
(* Steps, seen by one call                                                 *)

CallStays(c) == call'[c] = call[c] /\ iter'[c] = iter[c] /\ srv'[c] = srv[c]

\* What one call does leaves the others alone.
LEMMA OthersStay ==
  ASSUME TypeOK, NEW c \in Calls, NEW d \in Calls, c # d, Turn(d) \/ App(d) \/ ServerTurn(d)
  PROVE  CallStays(c)
<1>1. /\ call \in [Calls -> CallStates] /\ iter \in [Calls -> IterStates]
      /\ srv \in [Calls -> StreamStates]
  BY DEF TypeOK
<1>2. ASSUME NEW code, NEW r, Settle(d, code, r), UNCHANGED srv
      PROVE  CallStays(c)
  BY <1>1, <1>2 DEF Settle, CallStays
<1>3. CASE Turn(d)
  <2>1. CASE IssuesRequest(d)
    BY <2>1, <1>1, <1>2 DEF IssuesRequest, Fails, CallStays
  <2>2. CASE Breaks(d)
    BY <2>2, <1>2 DEF Breaks, Fails
  <2>3. CASE GetsHeaders(d)
    BY <2>3, <1>1 DEF GetsHeaders, CallStays
  <2>4. CASE Reads(d)
    BY <2>4, <1>1 DEF Reads, CallStays
  <2>5. CASE ReadsEnd(d)
    BY <2>5, <1>2 DEF ReadsEnd
  <2> QED BY <1>3, <2>1, <2>2, <2>3, <2>4, <2>5 DEF Turn
<1>4. CASE App(d)
  <2>1. CASE Starts(d)
    BY <2>1, <1>1 DEF Starts, UseConnection, CallStays
  <2>2. CASE Signals(d)
    BY <2>2, <1>1, <1>2 DEF Signals, CallStays
  <2>3. CASE AppSends(d)
    BY <2>3, <1>1 DEF AppSends, CallStays
  <2>4. CASE AppHalfCloses(d)
    BY <2>4, <1>1 DEF AppHalfCloses, CallStays
  <2>5. CASE AppNext(d)
    BY <2>5, <1>1 DEF AppNext, CallStays
  <2> QED BY <1>4, <2>1, <2>2, <2>3, <2>4, <2>5 DEF App
<1>5. CASE ServerTurn(d)
  BY ZenonT(60), <1>1, <1>5 DEF ServerTurn, Opens, Polls, AnswersCall, EndsCall, Resets, CallStays, clientVars
<1> QED BY <1>3, <1>4, <1>5

\* A step is one of the call's own, or leaves it alone.
LEMMA StepsOfCall ==
  ASSUME TypeOK, [Next]_vars, NEW c \in Calls
  PROVE  Turn(c) \/ App(c) \/ ServerTurn(c) \/ CallStays(c)
<1>1. CASE \E d \in Calls : Turn(d) \/ App(d) \/ ServerTurn(d)
  BY <1>1, OthersStay
<1>2. CASE Connection \/ TransportCloses \/ Terminated \/ UNCHANGED vars
  BY <1>2 DEF Connection, Connects, ConnectFails, ConnectionDies, ConnectionBecomes,
       ConnectionCloses, TransportCloses, Terminated, vars, clientVars, CallStays
<1> QED BY <1>1, <1>2 DEF Next

\* A connection that has failed or was closed stays so.
LEMMA DeadStaysDead ==
  ASSUME TypeOK, [Next]_vars, NEW k \in DOMAIN conns, conns[k] \in {"failed", "closed"}
  PROVE  k \in DOMAIN conns' /\ conns'[k] = conns[k]
<1>1. /\ conns \in Seq({"connecting", "open", "failed", "closed"}) /\ closing \subseteq DOMAIN conns
      /\ DOMAIN conns = 1..Len(conns) /\ Len(conns) \in Nat
  BY DEF TypeOK
<1>2. CASE UNCHANGED conns
  BY <1>2
<1>3. CASE \E d \in Calls : Starts(d)
  <2>1. conns' = conns \/ conns' = Append(conns, "connecting")
    BY <1>3 DEF Starts, UseConnection
  <2> QED BY <2>1, <1>1
<1>4. ASSUME NEW from \in {"connecting", "open"}, NEW to, ConnectionBecomes(from, to)
      PROVE  k \in DOMAIN conns' /\ conns'[k] = conns[k]
  <2>1. PICK j \in DOMAIN conns : conns[j] = from /\ conns' = [conns EXCEPT ![j] = to]
    BY <1>4 DEF ConnectionBecomes
  <2> QED BY <2>1, <1>1
<1>5. CASE ConnectionCloses
  <2>1. PICK j \in closing : conns' = [conns EXCEPT ![j] = IF @ = "open" THEN "closed" ELSE @]
    BY <1>5 DEF ConnectionCloses
  <2> QED BY <2>1, <1>1
<1>6. UNCHANGED conns \/ (\E d \in Calls : Starts(d)) \/ Connection
  BY DEF Next, Turn, App, ServerTurn, IssuesRequest, Breaks, GetsHeaders, Reads, ReadsEnd,
         Signals, AppSends, AppHalfCloses, AppNext, Opens, Polls, AnswersCall, EndsCall, Resets,
         TransportCloses, Terminated, vars, clientVars
<1>7. CASE Connection
  BY <1>4, <1>5, <1>7 DEF Connection, Connects, ConnectFails, ConnectionDies
<1> QED BY <1>2, <1>3, <1>6, <1>7

-----------------------------------------------------------------------------
(* The size limit                                                          *)

Fed(c) == SubSeq(call[c].out, 1, srv[c].fed)

\* The limit has seen what was fed, and only that; it lets a stream stay open as long
\* as nothing in it is over.
LimitInv(c) ==
  /\ srv[c].limit = inspect(NoLimitYet, Fed(c), MaxMessage)
  /\ ~srv[c].limit.over => srv[c].seen = Fed(c)
  /\ srv[c].limit.over => ~DeclaresOver(srv[c].seen, MaxMessage)
  /\ srv[c].at = "open" => ~srv[c].limit.over

LEMMA LimitInit == Init => \A c \in Calls : LimitInv(c)
<1> SUFFICES ASSUME Init, NEW c \in Calls PROVE LimitInv(c)
  OBVIOUS
<1>1. srv[c] = NoStream /\ call[c] = NewCall
  BY DEF Init, ClientInit
<1>2. Fed(c) = <<>>
  BY <1>1 DEF Fed, NoStream, NewCall
<1>3. inspect(NoLimitYet, <<>>, MaxMessage) = NoLimitYet
  <2>1. <<>> \in Bytes /\ 0 \in Byte /\ MaxMessage \in Int
    BY ParseNothing, LimitAssumption DEF Byte
  <2> QED BY <2>1, NoLimitYetType, InspectNext
<1> QED BY <1>1, <1>2, <1>3 DEF LimitInv, NoStream, NoLimitYet

\* The limit is exact, given what it has seen.
LEMMA LimitInvExact ==
  ASSUME TypeOK, NEW c \in Calls, LimitInv(c)
  PROVE  /\ Fed(c) \in Bytes
         /\ srv[c].limit.over <=> DeclaresOver(Fed(c), MaxMessage)
<1>1. call[c].out \in Bytes /\ srv[c].fed \in Nat /\ srv[c].fed <= Len(call[c].out)
  BY OneCallType DEF CallStates, StreamStates, CallOK
<1>2. Fed(c) \in Bytes
  BY <1>1 DEF Fed, Bytes
<1>3. MaxMessage \in Int
  BY LimitAssumption
<1>4. inspect(NoLimitYet, Fed(c), MaxMessage).over <=> DeclaresOver(Fed(c), MaxMessage)
  BY <1>2, <1>3, InspectIsExact
<1> QED BY <1>2, <1>4 DEF LimitInv

\* Bytes that are added later do not change what was fed.
LEMMA LimitKeeps ==
  ASSUME NEW c \in Calls, LimitInv(c), Fed(c)' = Fed(c),
         srv'[c].limit = srv[c].limit, srv'[c].seen = srv[c].seen,
         srv'[c].at = "open" => ~srv[c].limit.over
  PROVE  LimitInv(c)'
  BY DEF LimitInv

LEMMA LimitStep ==
  ASSUME TypeOK, [Next]_vars, NEW c \in Calls, LimitInv(c)
  PROVE  LimitInv(c)'
<1>1. /\ call[c] \in CallStates /\ srv[c] \in StreamStates /\ CallOK(c)
  BY OneCallType
<1>2. /\ call \in [Calls -> CallStates] /\ srv \in [Calls -> StreamStates]
  BY DEF TypeOK
<1>3. /\ call[c].out \in Bytes /\ Len(call[c].out) \in Nat
      /\ srv[c].fed \in Nat /\ srv[c].fed <= Len(call[c].out)
  BY <1>1, BytesAreNats DEF CallStates, StreamStates, CallOK
<1>4. ASSUME call'[c].out = call[c].out, srv'[c].fed = srv[c].fed
      PROVE  Fed(c)' = Fed(c)
  BY <1>4 DEF Fed
<1>5. CASE CallStays(c)
  BY <1>4, <1>5, LimitKeeps DEF CallStays, LimitInv
<1>6. CASE Turn(c)
  <2>1. srv' = srv
    BY <1>6 DEF Turn, IssuesRequest, Breaks, GetsHeaders, Reads, ReadsEnd
  <2>2. call'[c].out = call[c].out
    <3>1. ASSUME NEW code, NEW r \in CallStates, Settle(c, code, r), r.out = call[c].out
          PROVE  call'[c].out = call[c].out
      BY <3>1, <1>2 DEF Settle, CallStates
    <3>2. CASE IssuesRequest(c)
      BY <3>1, <3>2, <1>1, <1>2 DEF IssuesRequest, Fails, CallStates
    <3>3. CASE Breaks(c)
      BY <3>1, <3>3, <1>1 DEF Breaks, Fails
    <3>4. CASE GetsHeaders(c)
      BY <3>4, <1>1, <1>2 DEF GetsHeaders, CallStates
    <3>5. CASE Reads(c)
      BY <3>5, <1>1, <1>2 DEF Reads, CallStates
    <3>6. CASE ReadsEnd(c)
      BY <3>6, <1>1, <1>2 DEF ReadsEnd, Settle, CallStates
    <3> QED BY <1>6, <3>2, <3>3, <3>4, <3>5, <3>6 DEF Turn
  <2> QED BY <2>1, <2>2, <1>4, LimitKeeps DEF LimitInv
<1>7. CASE App(c)
  <2>1. srv' = srv
    BY <1>7 DEF App, Starts, Signals, AppSends, AppHalfCloses, AppNext
  <2>2. Fed(c)' = Fed(c)
    <3>1. CASE Starts(c)
      <4>1. srv[c].fed = 0
        BY <3>1, <1>1 DEF Starts, CallOK, NoStream
      <4>2. SubSeq(call[c].out, 1, 0) = <<>> /\ SubSeq(call'[c].out, 1, 0) = <<>>
        BY SubSeqEmpty
      <4> QED BY <4>1, <4>2, <2>1 DEF Fed
    <3>2. CASE Signals(c)
      <4>1. call'[c].out = call[c].out
        <5>1. PICK why \in MayStill(c) :
                LET r == [call[c] EXCEPT !.signal = why, !.bodyClosed = @ \/ why = "cancel"] IN
                IF call[c].at = "connecting" THEN call' = [call EXCEPT ![c] = r] /\ UNCHANGED iter
                ELSE Settle(c, abortOrUnknown(why), r)
          BY <3>2 DEF Signals
        <5> DEFINE shut == call[c].bodyClosed \/ why = "cancel"
                   r == [call[c] EXCEPT !.signal = why, !.bodyClosed = shut]
        <5>2. r.out = call[c].out /\ r \in CallStates
          <6>1. shut \in BOOLEAN /\ why \in {"deadline", "cancel"}
            BY DEF MayStill
          <6> HIDE DEF shut
          <6> QED BY <6>1, <1>1 DEF CallStates
        <5>3. call' = [call EXCEPT ![c] = r] \/ Settle(c, abortOrUnknown(why), r)
          BY <5>1
        <5> HIDE DEF r
        <5> QED BY ZenonT(60), <5>2, <5>3, <1>2 DEF Settle, CallStates
      <4> QED BY <4>1, <2>1, <1>4
    <3>3. CASE AppSends(c)
      <4>1. PICK m \in Messages : call'[c].out = call[c].out \o frame(m)
        BY <3>3, <1>1, <1>2 DEF AppSends, CallStates
      <4> DEFINE a == call[c].out
                 x == frame(m)
                 n == srv[c].fed
      <4>2. x \in Seq(Byte) /\ a \in Seq(Byte) /\ n \in Nat /\ n <= Len(a)
        BY <1>3, MessagesAssumption, FrameIsBytes DEF Bytes
      <4> HIDE DEF a, x, n
      <4>3. SubSeq(a \o x, 1, n) = SubSeq(a, 1, n)
        BY <4>2
      <4> QED BY <4>1, <4>3, <2>1 DEF a, x, n, Fed
    <3>4. CASE AppHalfCloses(c)
      <4>1. call'[c].out = call[c].out
        BY <3>4, <1>1, <1>2 DEF AppHalfCloses, CallStates
      <4> QED BY <4>1, <2>1, <1>4
    <3>5. CASE AppNext(c)
      BY <3>5, <2>1, <1>4 DEF AppNext
    <3> QED BY <1>7, <3>1, <3>2, <3>3, <3>4, <3>5 DEF App
  <2> QED BY <2>1, <2>2, LimitKeeps DEF LimitInv
<1>8. CASE ServerTurn(c)
  <2>1. call' = call
    BY <1>8 DEF ServerTurn, Opens, Polls, AnswersCall, EndsCall, Resets, clientVars
  <2>2. CASE Opens(c)
    <3>1. srv[c] = NoStream
      BY <2>2, <1>1 DEF Opens, CallOK
    <3>2. /\ srv'[c].fed = srv[c].fed /\ srv'[c].limit = srv[c].limit /\ srv'[c].seen = srv[c].seen
          /\ ~srv[c].limit.over
      BY <3>1, <2>2, <1>1, <1>2 DEF Opens, StreamStates, NoStream, NoLimitYet
    <3> QED BY <3>2, <2>1, <1>4, LimitKeeps
  <2>3. CASE AnswersCall(c)
    <3>1. /\ srv'[c].fed = srv[c].fed /\ srv'[c].limit = srv[c].limit /\ srv'[c].seen = srv[c].seen
          /\ srv[c].at = "open"
      BY <2>3, <1>1, <1>2 DEF AnswersCall, StreamStates
    <3> QED BY <3>1, <2>1, <1>4, LimitKeeps DEF LimitInv
  <2>4. CASE EndsCall(c)
    <3>1. /\ srv'[c].fed = srv[c].fed /\ srv'[c].limit = srv[c].limit /\ srv'[c].seen = srv[c].seen
          /\ srv'[c].at = "ended"
      BY <2>4, <1>1, <1>2 DEF EndsCall, StreamStates
    <3> QED BY <3>1, <2>1, <1>4, LimitKeeps
  <2>5. CASE Resets(c)
    <3>1. /\ srv'[c].fed = srv[c].fed /\ srv'[c].limit = srv[c].limit /\ srv'[c].seen = srv[c].seen
          /\ srv'[c].at = "reset"
      BY <2>5, <1>1, <1>2 DEF Resets, StreamStates
    <3> QED BY <3>1, <2>1, <1>4, LimitKeeps
  <2>6. CASE Polls(c)
    <3>1. PICK n \in 1..(Len(call[c].out) - srv[c].fed) :
            LET chunk == SubSeq(call[c].out, srv[c].fed + 1, srv[c].fed + n)
                limit == inspect(srv[c].limit, chunk, MaxMessage)
                s == [srv[c] EXCEPT !.fed = @ + n, !.limit = limit]
            IN srv' = [srv EXCEPT ![c] = IF limit.over THEN [s EXCEPT !.at = "limited"]
                                         ELSE [s EXCEPT !.seen = @ \o chunk]]
      BY <2>6 DEF Polls
    <3> DEFINE k == srv[c].fed
               chunk == SubSeq(call[c].out, k + 1, k + n)
               limit == inspect(srv[c].limit, chunk, MaxMessage)
    <3>2. /\ srv'[c].fed = k + n /\ srv'[c].limit = limit
          /\ limit.over => srv'[c].at = "limited" /\ srv'[c].seen = srv[c].seen
          /\ ~limit.over => srv'[c].at = "open" /\ srv'[c].seen = srv[c].seen \o chunk
      BY <3>1, <2>6, <1>1, <1>2 DEF Polls, StreamStates
    <3>3. srv[c].at = "open"
      BY <2>6 DEF Polls
    <3>4. k + n \in Nat /\ k + n <= Len(call[c].out) /\ k \in Nat /\ k <= k + n
      BY <1>3
    <3>5. chunk \in Bytes /\ Fed(c) \in Bytes
      BY <3>4, <1>3 DEF Bytes, Fed
    <3>6. Fed(c)' = Fed(c) \o chunk
      <4>1. /\ call[c].out \in Seq(Byte) /\ 1 \in 1..(Len(call[c].out) + 1)
            /\ k \in (1 - 1)..Len(call[c].out) /\ k + n \in k..Len(call[c].out)
        BY <3>4, <1>3 DEF Bytes
      <4>2. SubSeq(call[c].out, 1, k) \o SubSeq(call[c].out, k + 1, k + n) = SubSeq(call[c].out, 1, k + n)
        <5> HIDE DEF k
        <5> QED BY <4>1, ConcatAdjacentSubSeq
      <4> QED BY <4>2, <3>2, <2>1 DEF Fed
    <3> HIDE DEF chunk
    <3>7. limit = inspect(NoLimitYet, Fed(c) \o chunk, MaxMessage)
      <4>1. MaxMessage \in Int
        BY LimitAssumption
      <4>2. inspect(NoLimitYet, Fed(c) \o chunk, MaxMessage) =
              inspect(inspect(NoLimitYet, Fed(c), MaxMessage), chunk, MaxMessage)
        BY <4>1, <3>5, NoLimitYetType, InspectInChunks
      <4> QED BY <4>2 DEF LimitInv
    <3> HIDE DEF limit
    <3>8. ~srv[c].limit.over /\ srv[c].seen = Fed(c)
      BY <3>3 DEF LimitInv
    <3>9. ~DeclaresOver(srv[c].seen, MaxMessage)
      BY <3>8, LimitInvExact
    <3> QED BY <3>2, <3>6, <3>7, <3>8, <3>9 DEF LimitInv
  <2> QED BY <1>8, <2>2, <2>3, <2>4, <2>5, <2>6 DEF ServerTurn
<1> QED BY <1>5, <1>6, <1>7, <1>8, StepsOfCall

LEMMA LimitInvHolds == Spec => [](\A c \in Calls : LimitInv(c))
<1>1. Init => \A c \in Calls : LimitInv(c)
  BY LimitInit
<1>2. TypeOK /\ (\A c \in Calls : LimitInv(c)) /\ [Next]_vars => (\A c \in Calls : LimitInv(c))'
  BY LimitStep
<1> QED BY <1>1, <1>2, H2tsTypeCorrect, PTL DEF Spec

\* However a request is cut into chunks, the backend is refused a message that declares
\* more than the limit, and nothing else (h2ts.rs GrpcSizeLimit::inspect).
THEOREM H2tsLimitIsExact == Spec => []LimitIsExact
<1>1. TypeOK /\ (\A c \in Calls : LimitInv(c)) => LimitIsExact
  <2> SUFFICES ASSUME TypeOK, NEW c \in Calls, LimitInv(c)
               PROVE  /\ srv[c].limit.over <=> DeclaresOver(Fed(c), MaxMessage)
                      /\ ~srv[c].limit.over => srv[c].seen = Fed(c)
                      /\ srv[c].limit.over => ~DeclaresOver(srv[c].seen, MaxMessage)
    BY DEF LimitIsExact, Fed
  <2> QED BY LimitInvExact DEF LimitInv
<1> QED BY <1>1, LimitInvHolds, H2tsTypeCorrect, PTL

-----------------------------------------------------------------------------
(* The iterator                                                            *)

\* What was received is given out or buffered, in order; who waits has been given
\* everything and has not been told of an end; an end is told last.
Whole(i, received, statuses) ==
  /\ i.values \o i.buffer = received
  /\ i.waiting => i.buffer = <<>> /\ i.over = "no" /\ statuses = <<>>
  /\ i.over # "no" => i.buffer = <<>> /\ statuses # <<>> /\ i.over = Final(statuses[1])
IteratorInv(c) == c \notin Unary => Whole(iter[c], call[c].received, call[c].statuses)

\* Messages pushed on a call that is not over are given out or buffered after the rest.
LEMMA PushWhole ==
  ASSUME NEW i \in IterStates, NEW received \in Seq(Bytes), Whole(i, received, <<>>),
         NEW messages \in Seq(Bytes)
  PROVE  Whole(PushAll(i, messages), received \o messages, <<>>)
<1>1. i.buffer \in Seq(Bytes) /\ i.values \in Seq(Bytes) /\ i.over = "no"
      /\ i.values \o i.buffer = received
  BY DEF Whole, IterStates
<1>2. CASE messages = <<>>
  <2>1. received \o messages = received
    BY <1>2
  <2> QED BY <1>2, <2>1 DEF PushAll
<1>3. CASE messages # <<>> /\ i.waiting
  <2> DEFINE h == Head(messages)
             t == Tail(messages)
             v == i.values
  <2>1. h \in Bytes /\ t \in Seq(Bytes) /\ v \in Seq(Bytes) /\ messages = <<h>> \o t
    <3>1. /\ messages \in Seq(Bytes) /\ 1 \in 1..Len(messages) /\ Len(messages) \in 1..Len(messages)
      BY <1>3
    <3>2. SubSeq(messages, 1, Len(messages)) = <<messages[1]>> \o SubSeq(messages, 1 + 1, Len(messages))
      BY <3>1, SubSeqRecursiveFirst
    <3>3. SubSeq(messages, 1, Len(messages)) = messages /\ h = messages[1]
      BY <3>1, SubSeqFull
    <3>4. t = SubSeq(messages, 2, Len(messages)) /\ 1 + 1 = 2
      BY <1>3, TailIsSubSeq
    <3>5. h \in Bytes /\ t \in Seq(Bytes)
      BY <1>3, HeadTailProperties
    <3> QED BY <3>2, <3>3, <3>4, <3>5, <1>1
  <2>2. v = received
    <3>1. i.buffer = <<>>
      BY <1>3 DEF Whole
    <3> QED BY <3>1, <1>1
  <2>3. PushAll(i, messages) = [i EXCEPT !.waiting = FALSE, !.values = Append(v, h), !.buffer = t]
    BY <1>3 DEF PushAll
  <2> HIDE DEF h, t
  <2>4. Append(v, h) \o t = v \o messages
    <3>1. Append(v, h) = v \o <<h>>
      BY <2>1, AppendIsConcat
    <3>2. <<h>> \in Seq(Bytes)
      BY <2>1
    <3> DEFINE x == <<h>>
    <3> HIDE DEF v, x
    <3>3. (v \o x) \o t = v \o (x \o t)
      BY <3>2, <2>1, ConcatAssociative DEF x
    <3> QED BY <3>1, <3>3, <2>1 DEF x
  <2> DEFINE j == PushAll(i, messages)
  <2>5. j.values = Append(v, h) /\ j.buffer = t /\ j.waiting = FALSE /\ j.over = "no"
    BY <2>3, <1>1 DEF IterStates
  <2> HIDE DEF j, v
  <2> QED BY <2>2, <2>4, <2>5 DEF Whole, j
<1>4. CASE messages # <<>> /\ ~i.waiting
  <2> DEFINE j == PushAll(i, messages)
             x == i.values
             y == i.buffer
  <2>1. j = [i EXCEPT !.buffer = @ \o messages]
    BY <1>4 DEF PushAll
  <2>2. j.values = x /\ j.buffer = y \o messages /\ j.waiting = FALSE /\ j.over = "no"
    BY <2>1, <1>1, <1>4 DEF IterStates
  <2>3. x \o y = received /\ x \in Seq(Bytes) /\ y \in Seq(Bytes)
    BY <1>1
  <2> HIDE DEF x, y, j
  <2>4. (x \o y) \o messages = x \o (y \o messages)
    <3>1. x \in Seq(Bytes) /\ y \in Seq(Bytes) /\ messages \in Seq(Bytes)
      BY <2>3
    <3> QED BY <3>1, ConcatAssociative
  <2> QED BY <2>2, <2>3, <2>4 DEF Whole, j
<1> QED BY <1>2, <1>3, <1>4

\* A call that ends wakes who waits for it.
LEMMA EndWhole ==
  ASSUME NEW i \in IterStates, NEW received \in Seq(Bytes), Whole(i, received, <<>>), NEW code \in Int
  PROVE  Whole(EndOf(i, code), received, <<code>>)
<1>1. i.buffer \in Seq(Bytes) /\ i.values \in Seq(Bytes) /\ i.over = "no"
      /\ i.values \o i.buffer = received /\ <<code>> # <<>> /\ <<code>>[1] = code
  BY DEF Whole, IterStates
<1>2. CASE i.waiting
  <2> DEFINE j == EndOf(i, code)
  <2>1. j.values = i.values /\ j.buffer = i.buffer /\ j.waiting = FALSE /\ j.over = Final(code)
        /\ i.buffer = <<>>
    BY <1>1, <1>2 DEF EndOf, IterStates, Whole
  <2> HIDE DEF j
  <2> QED BY <2>1, <1>1 DEF Whole, j
<1>3. CASE ~i.waiting
  <2>1. EndOf(i, code) = i
    BY <1>3 DEF EndOf
  <2> QED BY <2>1, <1>1, <1>3 DEF Whole
<1> QED BY <1>2, <1>3

\* What next() gives is what comes next.
LEMMA NextWhole ==
  ASSUME NEW i \in IterStates, NEW received \in Seq(Bytes), NEW statuses \in Seq(Int),
         Whole(i, received, statuses), i.over = "no", ~i.waiting
  PROVE  Whole(NextResult(i, statuses), received, statuses)
<1>1. i.buffer \in Seq(Bytes) /\ i.values \in Seq(Bytes) /\ i.values \o i.buffer = received
  BY DEF Whole, IterStates
<1> DEFINE j == NextResult(i, statuses)
<1>2. CASE i.buffer # <<>>
  <2> DEFINE h == Head(i.buffer)
             t == Tail(i.buffer)
             v == i.values
             b == i.buffer
  <2>1. h \in Bytes /\ t \in Seq(Bytes) /\ v \in Seq(Bytes) /\ b = <<h>> \o t
    <3>1. /\ b \in Seq(Bytes) /\ 1 \in 1..Len(b) /\ Len(b) \in 1..Len(b)
      BY <1>1, <1>2
    <3>2. SubSeq(b, 1, Len(b)) = <<b[1]>> \o SubSeq(b, 1 + 1, Len(b))
      <4> HIDE DEF b
      <4> QED BY <3>1, SubSeqRecursiveFirst
    <3>3. SubSeq(b, 1, Len(b)) = b /\ h = b[1]
      BY <3>1, SubSeqFull
    <3>4. t = SubSeq(b, 2, Len(b)) /\ 1 + 1 = 2
      BY <1>1, <1>2, TailIsSubSeq
    <3>5. h \in Bytes /\ t \in Seq(Bytes)
      BY <1>1, <1>2, HeadTailProperties
    <3> QED BY <3>2, <3>3, <3>4, <3>5, <1>1
  <2>2. j = [i EXCEPT !.buffer = t, !.values = Append(v, h)]
    BY <1>2 DEF NextResult
  <2> HIDE DEF h, t
  <2>3. j.values = Append(v, h) /\ j.buffer = t /\ j.waiting = FALSE /\ j.over = "no"
    BY <2>2 DEF IterStates
  <2>4. Append(v, h) \o t = v \o b
    <3>1. Append(v, h) = v \o <<h>>
      BY <2>1, AppendIsConcat
    <3> DEFINE x == <<h>>
    <3>2. x \in Seq(Bytes)
      BY <2>1
    <3> HIDE DEF v, x, b
    <3>3. (v \o x) \o t = v \o (x \o t)
      BY SMTT(60), <3>2, <2>1, ConcatAssociative
    <3> QED BY <3>1, <3>3, <2>1 DEF x
  <2> HIDE DEF j
  <2> QED BY <2>3, <2>4, <1>1 DEF Whole, j
<1>3. CASE i.buffer = <<>> /\ statuses # <<>>
  <2>1. j.values = i.values /\ j.buffer = i.buffer /\ j.waiting = FALSE
        /\ j.over = Final(statuses[1])
    BY <1>3 DEF NextResult, IterStates
  <2> HIDE DEF j
  <2> QED BY <2>1, <1>1, <1>3 DEF Whole, j
<1>4. CASE i.buffer = <<>> /\ statuses = <<>>
  <2>1. j.values = i.values /\ j.buffer = i.buffer /\ j.over = "no"
    BY <1>4 DEF NextResult, IterStates
  <2> HIDE DEF j
  <2> QED BY <2>1, <1>1, <1>4 DEF Whole, j
<1> QED BY <1>2, <1>3, <1>4

LEMMA IteratorStep ==
  ASSUME TypeOK, [Next]_vars, NEW c \in Calls, IteratorInv(c)
  PROVE  IteratorInv(c)'
<1> SUFFICES ASSUME c \notin Unary
             PROVE  Whole(iter'[c], call'[c].received, call'[c].statuses)
  BY DEF IteratorInv
<1>1. /\ call[c] \in CallStates /\ srv[c] \in StreamStates /\ iter[c] \in IterStates /\ CallOK(c)
  BY OneCallType
<1>2. /\ call \in [Calls -> CallStates] /\ iter \in [Calls -> IterStates]
  BY DEF TypeOK
<1>3. Whole(iter[c], call[c].received, call[c].statuses)
  BY DEF IteratorInv
<1>4. call[c].received \in Seq(Bytes) /\ call[c].statuses \in Seq(Int)
  BY <1>1 DEF CallStates
<1>5. ASSUME NEW code \in Int, NEW r \in CallStates, Settle(c, code, r), call[c].at # "done",
             r.received = call[c].received, r.statuses = call[c].statuses
      PROVE  Whole(iter'[c], call'[c].received, call'[c].statuses)
  <2>1. call[c].statuses = <<>>
    BY <1>1, <1>5 DEF CallOK
  <2>2. call'[c].received = call[c].received /\ call'[c].statuses = <<code>>
    BY <1>2, <1>5, <2>1 DEF Settle, CallStates
  <2>3. iter'[c] = EndOf(iter[c], code)
    BY <1>2, <1>5 DEF Settle
  <2> QED BY <2>1, <2>2, <2>3, <1>1, <1>3, <1>4, EndWhole
<1>6. ASSUME iter'[c] = iter[c], call'[c].received = call[c].received,
             call'[c].statuses = call[c].statuses
      PROVE  Whole(iter'[c], call'[c].received, call'[c].statuses)
  BY <1>3, <1>6
<1>7. CASE CallStays(c)
  BY <1>3, <1>7 DEF CallStays
<1>8. CASE Turn(c)
  <2>1. CASE IssuesRequest(c)
    <3>1. CASE call[c].signal # "none"
      <4>1. abortOrUnknown(call[c].signal) \in Int /\ call[c].at # "done"
        BY <2>1, <1>1, AbortIsCode DEF CallStates, IssuesRequest
      <4> QED BY <4>1, <3>1, <2>1, <1>1, <1>5 DEF IssuesRequest, Fails
    <3>2. CASE call[c].signal = "none"
      BY <3>2, <2>1, <1>1, <1>2, <1>6 DEF IssuesRequest, CallStates
    <3> QED BY <3>1, <3>2
  <2>2. CASE Breaks(c)
    <3>1. abortOrUnknown(call[c].signal) \in Int /\ call[c].at # "done"
      BY <2>2, <1>1, AbortIsCode DEF CallStates, Breaks
    <3> QED BY <3>1, <2>2, <1>1, <1>5 DEF Breaks, Fails
  <2>3. CASE GetsHeaders(c)
    BY <2>3, <1>1, <1>2, <1>6 DEF GetsHeaders, CallStates
  <2>4. CASE Reads(c)
    <3>1. PICK n \in 1..Unread(c) :
            /\ call' = [call EXCEPT ![c] = [call[c] EXCEPT !.read = @ + n, !.buf = Parse(c, n).buf,
                           !.received = @ \o Parse(c, n).messages]]
            /\ iter' = [iter EXCEPT ![c] = PushAll(@, Parse(c, n).messages)]
      BY <2>4 DEF Reads
    <3>2. call[c].statuses = <<>>
      BY <2>4, <1>1 DEF Reads, CallOK
    <3>3. Parse(c, n).messages \in Seq(Bytes)
      <4> DEFINE chunk == SubSeq(srv[c].wrote, call[c].read + 1, call[c].read + n)
      <4>1. /\ srv[c].wrote \in Bytes /\ call[c].buf \in Bytes
            /\ call[c].read \in Nat /\ Len(srv[c].wrote) \in Nat
        BY <1>1, BytesAreNats DEF CallStates, StreamStates
      <4>2. n \in Nat /\ call[c].read + n <= Len(srv[c].wrote)
        BY <4>1 DEF Unread
      <4>3. chunk \in Bytes
        BY <4>1, <4>2 DEF Bytes
      <4>4. Parse(c, n) = push(call[c].buf, chunk)
        BY DEF Parse
      <4> HIDE DEF chunk
      <4> QED BY <4>1, <4>3, <4>4, PushType
    <3>4. /\ call'[c].received = call[c].received \o Parse(c, n).messages
          /\ call'[c].statuses = <<>> /\ iter'[c] = PushAll(iter[c], Parse(c, n).messages)
      BY <3>1, <3>2, <1>1, <1>2 DEF CallStates
    <3> QED BY <3>2, <3>3, <3>4, <1>1, <1>3, <1>4, PushWhole
  <2>5. CASE ReadsEnd(c)
    <3>1. Settle(c, statusFromResponse(srv[c].end), call[c]) /\ call[c].at # "done"
      BY <2>5 DEF ReadsEnd
    <3>2. statusFromResponse(srv[c].end) \in Int
      <4>1. srv[c].end \in [trailers : Int, headers : Int, http : Int]
        BY <1>1 DEF StreamStates
      <4> QED BY <4>1 DEF statusFromResponse, httpToStatus, OK, UNAVAILABLE, UNKNOWN
    <3> QED BY <3>1, <3>2, <1>1, <1>5
  <2> QED BY <1>8, <2>1, <2>2, <2>3, <2>4, <2>5 DEF Turn
<1>9. CASE App(c)
  <2>1. CASE Starts(c)
    BY <2>1, <1>1, <1>2, <1>6 DEF Starts, UseConnection, CallStates
  <2>2. CASE Signals(c)
    <3>1. PICK why \in MayStill(c) :
            LET r == [call[c] EXCEPT !.signal = why, !.bodyClosed = @ \/ why = "cancel"] IN
            IF call[c].at = "connecting" THEN call' = [call EXCEPT ![c] = r] /\ UNCHANGED iter
            ELSE Settle(c, abortOrUnknown(why), r)
      BY <2>2 DEF Signals
    <3> DEFINE shut == call[c].bodyClosed \/ why = "cancel"
               r == [call[c] EXCEPT !.signal = why, !.bodyClosed = shut]
    <3>2. why \in {"deadline", "cancel"} /\ shut \in BOOLEAN /\ abortOrUnknown(why) \in Int
      BY <1>1, AbortIsCode DEF MayStill, CallStates
    <3>3. \/ call' = [call EXCEPT ![c] = r] /\ iter' = iter
          \/ Settle(c, abortOrUnknown(why), r)
      BY <3>1
    <3> HIDE DEF shut
    <3>4. r \in CallStates /\ r.received = call[c].received /\ r.statuses = call[c].statuses
      BY <3>2, <1>1 DEF CallStates
    <3>5. call[c].at # "done"
      BY <2>2 DEF Signals
    <3> HIDE DEF r
    <3>6. CASE call' = [call EXCEPT ![c] = r] /\ iter' = iter
      BY <3>4, <3>6, <1>2, <1>6
    <3> QED BY <3>2, <3>3, <3>4, <3>5, <3>6, <1>5
  <2>3. CASE AppSends(c)
    BY <2>3, <1>1, <1>2, <1>6 DEF AppSends, CallStates
  <2>4. CASE AppHalfCloses(c)
    BY <2>4, <1>1, <1>2, <1>6 DEF AppHalfCloses, CallStates
  <2>5. CASE AppNext(c)
    <3>1. /\ iter'[c] = NextResult(iter[c], call[c].statuses) /\ call' = call
          /\ ~iter[c].waiting /\ iter[c].over = "no"
      BY <2>5, <1>2 DEF AppNext
    <3> QED BY <3>1, <1>1, <1>3, <1>4, NextWhole
  <2> QED BY <1>9, <2>1, <2>2, <2>3, <2>4, <2>5 DEF App
<1>10. CASE ServerTurn(c)
  BY <1>6, <1>10 DEF ServerTurn, Opens, Polls, AnswersCall, EndsCall, Resets, clientVars
<1> QED BY <1>7, <1>8, <1>9, <1>10, StepsOfCall

\* An application that iterates gets the messages in order, all of them before an end,
\* and an end that is the call's status (call.ts next, push, finish, fail).
THEOREM H2tsIteratorIsWhole == Spec => []IteratorIsWhole
<1>1. Init => \A c \in Calls : IteratorInv(c)
  <2> SUFFICES ASSUME Init, NEW c \in Calls PROVE IteratorInv(c)
    OBVIOUS
  <2>1. iter[c] = NewIter /\ call[c] = NewCall
    BY DEF Init, ClientInit
  <2> QED BY <2>1 DEF IteratorInv, Whole, NewIter, NewCall
<1>2. TypeOK /\ (\A c \in Calls : IteratorInv(c)) /\ [Next]_vars => (\A c \in Calls : IteratorInv(c))'
  BY IteratorStep
<1>3. (\A c \in Calls : IteratorInv(c)) => IteratorIsWhole
  BY DEF IteratorInv, Whole, IteratorIsWhole
<1> QED BY <1>1, <1>2, <1>3, H2tsTypeCorrect, PTL DEF Spec

-----------------------------------------------------------------------------
(* Why a call fails                                                        *)

Dead(c) == Conn(c) \in {"failed", "closed"}

\* A call that is over has been aborted or broken off, or the backend has ended it; what
\* ended its stream is final. A call that gets an answer has not been aborted.
CauseInv(c) ==
  /\ call[c].at \in {"requesting", "reading"} => call[c].signal = "none"
  /\ srv[c].at = "ended" => srv[c].end \in Endings
  /\ call[c].statuses # <<>> =>
       \/ /\ call[c].statuses[1] = abortOrUnknown(call[c].signal)
          /\ call[c].signal = "none" => Dead(c) \/ srv[c].at = "reset"
       \/ /\ call[c].statuses[1] = statusFromResponse(srv[c].end)
          /\ srv[c].at = "ended" /\ call[c].signal = "none"

\* A call keeps its connection, and a dead one stays dead.
LEMMA DeadCallStaysDead ==
  ASSUME TypeOK, [Next]_vars, NEW c \in Calls, Dead(c), call'[c].conn = call[c].conn
  PROVE  Dead(c)'
<1>1. call[c].conn # 0 /\ call[c].conn \in DOMAIN conns /\ conns[call[c].conn] \in {"failed", "closed"}
  <2>1. call[c].conn # 0 /\ conns[call[c].conn] \in {"failed", "closed"}
    BY DEF Dead, Conn
  <2>2. call[c].conn \in 0..Len(conns) /\ DOMAIN conns = 1..Len(conns) /\ Len(conns) \in Nat
    BY DEF TypeOK, CallOK
  <2> QED BY <2>1, <2>2
<1>2. conns'[call[c].conn] = conns[call[c].conn]
  BY <1>1, DeadStaysDead
<1> QED BY <1>1, <1>2 DEF Dead, Conn

\* A call that is over, on a stream that changes only while it is served.
LEMMA CauseKept ==
  ASSUME TypeOK, [Next]_vars, NEW c \in Calls, CauseInv(c),
         call'[c].statuses = call[c].statuses, call'[c].conn = call[c].conn,
         call[c].statuses # <<>> => call'[c].signal = call[c].signal,
         call'[c].at \in {"requesting", "reading"} => call'[c].signal = "none",
         srv[c].at = "ended" => srv'[c] = srv[c], srv[c].at = "reset" => srv'[c].at = "reset",
         srv'[c].at = "ended" => srv'[c].end \in Endings
  PROVE  CauseInv(c)'
<1>1. Dead(c) => Dead(c)'
  BY DeadCallStaysDead
<1> QED BY <1>1 DEF CauseInv

\* A call that settles as aborted or broken off.
LEMMA CauseFails ==
  ASSUME TypeOK, [Next]_vars, NEW c \in Calls, CauseInv(c), NEW r \in CallStates,
         Settle(c, abortOrUnknown(r.signal), r), r.statuses = <<>>, r.conn = call[c].conn,
         r.signal = "none" => Dead(c) \/ srv[c].at = "reset", srv' = srv
  PROVE  CauseInv(c)'
<1>1. /\ call'[c].at = "done" /\ call'[c].statuses = <<abortOrUnknown(r.signal)>>
      /\ call'[c].signal = r.signal /\ call'[c].conn = call[c].conn
  BY DEF Settle, TypeOK, CallStates
<1>2. Dead(c) => Dead(c)'
  BY <1>1, DeadCallStaysDead
<1> HIDE DEF Dead
<1> QED BY <1>1, <1>2 DEF CauseInv

LEMMA CauseStep ==
  ASSUME TypeOK, [Next]_vars, NEW c \in Calls, CauseInv(c)
  PROVE  CauseInv(c)'
<1>1. /\ call[c] \in CallStates /\ srv[c] \in StreamStates /\ CallOK(c)
      /\ call \in [Calls -> CallStates] /\ srv \in [Calls -> StreamStates]
  BY OneCallType DEF TypeOK
<1>2. call[c].at # "done" => call[c].statuses = <<>>
  BY <1>1 DEF CallOK
<1>3. CASE CallStays(c)
  BY <1>3, CauseKept DEF CallStays, CauseInv
<1>4. CASE Turn(c)
  <2>1. srv' = srv
    BY <1>4 DEF Turn, IssuesRequest, Breaks, GetsHeaders, Reads, ReadsEnd
  <2>2. CASE IssuesRequest(c)
    <3>1. CASE call[c].signal # "none"
      BY <3>1, <2>1, <2>2, <1>1, <1>2, CauseFails DEF IssuesRequest, Fails
    <3>2. CASE call[c].signal = "none"
      <4>1. /\ call'[c].statuses = call[c].statuses /\ call'[c].conn = call[c].conn
            /\ call'[c].signal = "none"
        BY <3>2, <2>2, <1>1 DEF IssuesRequest, CallStates
      <4> QED BY <4>1, <3>2, <2>1, CauseKept DEF CauseInv
    <3> QED BY <3>1, <3>2
  <2>3. CASE Breaks(c)
    <3>1. call[c].at # "done" /\ (Dead(c) \/ srv[c].at = "reset")
      BY <2>3 DEF Breaks, Dead
    <3> QED BY <3>1, <2>1, <2>3, <1>1, <1>2, CauseFails DEF Breaks, Fails
  <2>4. CASE GetsHeaders(c)
    <3>1. call'[c].statuses = call[c].statuses /\ call'[c].conn = call[c].conn
          /\ call'[c].signal = call[c].signal /\ call[c].signal = "none"
      BY <2>4, <1>1 DEF GetsHeaders, CallStates, CauseInv
    <3> QED BY <3>1, <2>1, CauseKept DEF CauseInv
  <2>5. CASE Reads(c)
    <3>1. call'[c].statuses = call[c].statuses /\ call'[c].conn = call[c].conn
          /\ call'[c].signal = call[c].signal /\ call'[c].at = call[c].at
      BY <2>5, <1>1 DEF Reads, CallStates
    <3> QED BY <3>1, <2>1, CauseKept DEF CauseInv
  <2>6. CASE ReadsEnd(c)
    <3> DEFINE code == statusFromResponse(srv[c].end)
    <3>1. srv[c].at = "ended" /\ call[c].signal = "none" /\ call[c].statuses = <<>>
      BY <2>6, <1>2 DEF ReadsEnd, CauseInv
    <3>2. /\ call'[c].at = "done" /\ call'[c].statuses = <<code>>
          /\ call'[c].signal = call[c].signal
      <4> HIDE DEF code
      <4> DEFINE messages == deframe_all(call[c].buf)
                 first == IF messages = <<>> THEN <<>> ELSE messages[1]
                 r == IF c \in Unary THEN [call[c] EXCEPT !.received = <<first>>] ELSE call[c]
      <4>1. Settle(c, code, r)
        BY <2>6 DEF ReadsEnd, code
      <4>2. first \in Bytes
        <5>1. messages \in Seq(Bytes)
          BY <1>1, DeframeType DEF CallStates
        <5>2. <<>> \in Bytes
          BY ParseNothing
        <5> HIDE DEF messages
        <5> QED BY <5>1, <5>2
      <4> HIDE DEF first
      <4>3. r \in CallStates /\ r.statuses = <<>> /\ r.signal = call[c].signal
        <5>1. <<first>> \in Seq(Bytes)
          BY <4>2
        <5>2. CASE c \in Unary
          BY <5>1, <5>2, <3>1, <1>1 DEF CallStates
        <5>3. CASE c \notin Unary
          BY <5>3, <3>1, <1>1
        <5> QED BY <5>2, <5>3
      <4> HIDE DEF r
      <4>4. Append(r.statuses, code) = <<code>>
        BY <4>3
      <4> QED BY <4>1, <4>3, <4>4, <1>1 DEF Settle, CallStates
    <3> QED BY <3>1, <3>2, <2>1 DEF CauseInv
  <2> QED BY <1>4, <2>2, <2>3, <2>4, <2>5, <2>6 DEF Turn
<1>5. CASE App(c)
  <2>1. srv' = srv
    BY <1>5 DEF App, Starts, Signals, AppSends, AppHalfCloses, AppNext
  <2>2. CASE Starts(c)
    <3>1. call[c] = NewCall
      BY <2>2, <1>1 DEF Starts, CallOK
    <3>2. call'[c].statuses = <<>> /\ call'[c].at = "connecting"
      BY <3>1, <2>2, <1>1 DEF Starts, UseConnection, CallStates, NewCall
    <3> QED BY <3>2, <2>1 DEF CauseInv
  <2>3. CASE Signals(c)
    <3>1. PICK why \in MayStill(c) :
            LET r == [call[c] EXCEPT !.signal = why, !.bodyClosed = @ \/ why = "cancel"] IN
            IF call[c].at = "connecting" THEN call' = [call EXCEPT ![c] = r] /\ UNCHANGED iter
            ELSE Settle(c, abortOrUnknown(why), r)
      BY <2>3 DEF Signals
    <3> DEFINE shut == call[c].bodyClosed \/ why = "cancel"
               r == [call[c] EXCEPT !.signal = why, !.bodyClosed = shut]
    <3>2. why \in {"deadline", "cancel"} /\ shut \in BOOLEAN
      BY DEF MayStill
    <3>3. \/ call[c].at = "connecting" /\ call' = [call EXCEPT ![c] = r]
          \/ Settle(c, abortOrUnknown(why), r)
      BY <3>1
    <3> HIDE DEF shut
    <3>4. /\ r \in CallStates /\ r.signal = why /\ r.statuses = call[c].statuses
          /\ r.conn = call[c].conn /\ r.at = call[c].at
      BY <3>2, <1>1 DEF CallStates
    <3>5. call[c].at # "done" /\ call[c].statuses = <<>>
      BY <2>3, <1>2 DEF Signals
    <3> HIDE DEF r
    <3>6. CASE call[c].at = "connecting" /\ call' = [call EXCEPT ![c] = r]
      <4>1. call'[c] = r
        BY <3>6, <1>1
      <4> QED BY <4>1, <3>4, <3>5, <3>6, <2>1, CauseKept DEF CauseInv
    <3>7. CASE Settle(c, abortOrUnknown(why), r)
      BY <3>2, <3>4, <3>5, <3>7, <2>1, CauseFails
    <3> QED BY <3>3, <3>6, <3>7
  <2>4. CASE AppSends(c) \/ AppHalfCloses(c)
    <3>1. call'[c].statuses = call[c].statuses /\ call'[c].conn = call[c].conn
          /\ call'[c].signal = call[c].signal /\ call'[c].at = call[c].at
      <4>1. CASE AppSends(c)
        BY <4>1, <1>1 DEF AppSends, CallStates
      <4>2. CASE AppHalfCloses(c)
        BY <4>2, <1>1 DEF AppHalfCloses, CallStates
      <4> QED BY <2>4, <4>1, <4>2
    <3> QED BY <3>1, <2>1, CauseKept DEF CauseInv
  <2>5. CASE AppNext(c)
    <3>1. call' = call
      BY <2>5 DEF AppNext
    <3> QED BY <3>1, <2>1, CauseKept DEF CauseInv
  <2> QED BY <1>5, <2>2, <2>3, <2>4, <2>5 DEF App
<1>6. CASE ServerTurn(c)
  <2>1. call' = call
    BY <1>6 DEF ServerTurn, Opens, Polls, AnswersCall, EndsCall, Resets, clientVars
  <2>2. srv[c].at \notin {"ended", "reset"}
    BY <1>6 DEF ServerTurn, Opens, Polls, AnswersCall, EndsCall, Resets, Serving
  <2>3. srv'[c].at = "ended" => srv'[c].end \in Endings
    <3>1. CASE EndsCall(c)
      BY <3>1, <1>1 DEF EndsCall, StreamStates
    <3>2. CASE Opens(c)
      BY <3>2, <1>1 DEF Opens, StreamStates
    <3>4. CASE Resets(c)
      BY <3>4, <1>1 DEF Resets, StreamStates
    <3>5. CASE AnswersCall(c)
      BY <3>5, <1>1 DEF AnswersCall, StreamStates
    <3>3. CASE Polls(c)
      <4>1. PICK n : LET chunk == SubSeq(call[c].out, srv[c].fed + 1, srv[c].fed + n)
                         limit == inspect(srv[c].limit, chunk, MaxMessage)
                         s == [srv[c] EXCEPT !.fed = @ + n, !.limit = limit]
                     IN srv' = [srv EXCEPT ![c] = IF limit.over THEN [s EXCEPT !.at = "limited"]
                                                  ELSE [s EXCEPT !.seen = @ \o chunk]]
        BY <3>3 DEF Polls
      <4>2. srv[c].at = "open"
        BY <3>3 DEF Polls
      <4>3. srv'[c].at \in {"limited", "open"}
        BY <4>1, <4>2, <1>1 DEF StreamStates
      <4> QED BY <4>3
    <3> QED BY <1>6, <3>1, <3>2, <3>3, <3>4, <3>5 DEF ServerTurn
  <2> QED BY <2>1, <2>2, <2>3, CauseKept DEF CauseInv
<1> QED BY <1>3, <1>4, <1>5, <1>6, StepsOfCall

LEMMA CauseInvHolds == Spec => [](\A c \in Calls : CauseInv(c))
<1>1. Init => \A c \in Calls : CauseInv(c)
  <2> SUFFICES ASSUME Init, NEW c \in Calls PROVE CauseInv(c)
    OBVIOUS
  <2>1. call[c] = NewCall /\ srv[c] = NoStream
    BY DEF Init, ClientInit
  <2> QED BY <2>1 DEF CauseInv, NewCall, NoStream
<1>2. TypeOK /\ (\A c \in Calls : CauseInv(c)) /\ [Next]_vars => (\A c \in Calls : CauseInv(c))'
  BY CauseStep
<1> QED BY <1>1, <1>2, H2tsTypeCorrect, PTL DEF Spec

\* A call fails as cancelled or late only if it was, as unknown only if it was broken
\* off, and otherwise only as the backend said (abortOrUnknown, statusFromResponse).
THEOREM H2tsFailureHasCause == Spec => []FailureHasCause
<1>1. TypeOK /\ (\A c \in Calls : CauseInv(c)) => FailureHasCause
  <2> SUFFICES ASSUME TypeOK, NEW c \in Calls, CauseInv(c), call[c].statuses # <<>>
               PROVE  LET s == call[c].statuses[1]
                          said == {srv[c].end.trailers, srv[c].end.headers}
                      IN /\ (s = CANCELLED /\ s \notin said) => call[c].signal = "cancel"
                         /\ (s = DEADLINE_EXCEEDED /\ s \notin said) => call[c].signal = "deadline"
                         /\ (s = UNKNOWN /\ s \notin said) =>
                              /\ call[c].signal = "none"
                              /\ Conn(c) # "open" \/ srv[c].at = "reset" \/ srv[c].end.http # 200
    BY DEF FailureHasCause
  <2>1. call[c].signal \in {"none", "deadline", "cancel"}
    BY OneCallType DEF CallStates
  <2>2. CASE /\ call[c].statuses[1] = abortOrUnknown(call[c].signal)
             /\ call[c].signal = "none" => Dead(c) \/ srv[c].at = "reset"
    BY <2>1, <2>2 DEF abortOrUnknown, Dead, CANCELLED, DEADLINE_EXCEEDED, UNKNOWN
  <2>3. CASE /\ call[c].statuses[1] = statusFromResponse(srv[c].end)
             /\ srv[c].at = "ended" /\ call[c].signal = "none"
    BY <2>3 DEF statusFromResponse, httpToStatus, CANCELLED, DEADLINE_EXCEEDED, UNKNOWN, UNAVAILABLE, OK
  <2> QED BY <2>2, <2>3 DEF CauseInv
<1> QED BY <1>1, CauseInvHolds, H2tsTypeCorrect, PTL

-----------------------------------------------------------------------------
(* Bytes and messages                                                      *)

\* A message framed at the end of whole messages is one message more.
LEMMA FrameAppends ==
  ASSUME NEW a \in Bytes, Unused(a) = <<>>, NEW m \in Bytes, Fits(Len(m))
  PROVE  /\ a \o frame(m) \in Bytes
         /\ deframe_all(a \o frame(m)) = Append(deframe_all(a), m)
         /\ Unused(a \o frame(m)) = <<>>
<1> DEFINE x == frame(m)
<1>1. x \in Bytes /\ deframe_all(x) = <<m>> /\ Unused(x) = <<>>
  <2>1. <<>> \in Bytes /\ deframe_all(<<>>) = <<>> /\ Unused(<<>>) = <<>>
    BY ParseNothing
  <2>2. /\ x \in Bytes /\ deframe_all(x \o <<>>) = <<m>> \o deframe_all(<<>>)
        /\ Unused(x \o <<>>) = Unused(<<>>)
    BY <2>1, ParseFrame
  <2> HIDE DEF x
  <2>3. x \o <<>> = x
    BY <2>2 DEF Bytes
  <2>4. <<m>> \o <<>> = <<m>>
    OBVIOUS
  <2> QED BY <2>1, <2>2, <2>3, <2>4
<1> HIDE DEF x
<1>2. push(<<>>, x) = [messages |-> deframe_all(x), buf |-> Unused(x)]
  <2>1. <<>> \o x = x
    BY <1>1 DEF Bytes
  <2> QED BY <2>1 DEF push, deframe_all, Unused, After
<1>3. /\ deframe_all(a \o x) = deframe_all(a) \o push(Unused(a), x).messages
      /\ Unused(a \o x) = push(Unused(a), x).buf
  BY <1>1, ParseInChunks
<1>4. deframe_all(a \o x) = deframe_all(a) \o <<m>> /\ Unused(a \o x) = <<>>
  <2>1. push(Unused(a), x).messages = deframe_all(x) /\ push(Unused(a), x).buf = Unused(x)
    BY <1>2
  <2> QED BY <2>1, <1>1, <1>3
<1>5. deframe_all(a) \o <<m>> = Append(deframe_all(a), m)
  <2>1. deframe_all(a) \in Seq(Bytes)
    BY DeframeType
  <2> QED BY <2>1, AppendIsConcat
<1>6. a \o x \in Bytes
  BY <1>1 DEF Bytes
<1> QED BY <1>4, <1>5, <1>6 DEF x

\* What has been read so far, or fed, of what was written.
Beginning(b, n) == SubSeq(b, 1, n)
Read(c) == Beginning(srv[c].wrote, call[c].read)

\* A beginning grows by what is taken next, stays when more is written, and parses to a
\* beginning of the messages.
LEMMA BeginningIs ==
  ASSUME NEW b \in Bytes, NEW n \in Nat, n <= Len(b)
  PROVE  /\ Beginning(b, n) \in Bytes
         /\ \A x \in Bytes : Beginning(b \o x, n) = Beginning(b, n)
         /\ \A k \in Nat : n + k <= Len(b) =>
              /\ SubSeq(b, n + 1, n + k) \in Bytes
              /\ Beginning(b, n + k) = Beginning(b, n) \o SubSeq(b, n + 1, n + k)
<1>1. b \in Seq(Byte) /\ Len(b) \in Nat
  BY BytesAreNats DEF Bytes
<1>2. Beginning(b, n) \in Bytes
  BY <1>1 DEF Beginning, Bytes
<1>3. ASSUME NEW x \in Bytes PROVE Beginning(b \o x, n) = Beginning(b, n)
  <2>1. x \in Seq(Byte)
    BY DEF Bytes
  <2> QED BY <2>1, <1>1 DEF Beginning
<1>4. ASSUME NEW k \in Nat, n + k <= Len(b)
      PROVE  /\ SubSeq(b, n + 1, n + k) \in Bytes
             /\ Beginning(b, n + k) = Beginning(b, n) \o SubSeq(b, n + 1, n + k)
  <2>1. /\ 1 \in 1..(Len(b) + 1) /\ n \in (1 - 1)..Len(b) /\ n + k \in n..Len(b)
    BY <1>1, <1>4
  <2>2. SubSeq(b, 1, n) \o SubSeq(b, n + 1, n + k) = SubSeq(b, 1, n + k)
    BY <1>1, <2>1, ConcatAdjacentSubSeq
  <2>3. SubSeq(b, n + 1, n + k) \in Bytes
    BY <1>1, <1>4 DEF Bytes
  <2> QED BY <2>2, <2>3 DEF Beginning
<1> QED BY <1>2, <1>3, <1>4

LEMMA BeginningParses ==
  ASSUME NEW b \in Bytes, NEW n \in Nat, n <= Len(b)
  PROVE  \E more \in Seq(Bytes) : deframe_all(b) = deframe_all(Beginning(b, n)) \o more
<1>1. Len(b) \in Nat /\ b \in Seq(Byte)
  BY BytesAreNats DEF Bytes
<1> DEFINE k == Len(b) - n
           x == SubSeq(b, n + 1, n + k)
           a == Beginning(b, n)
<1>2. k \in Nat /\ n + k <= Len(b) /\ n + k = Len(b)
  BY <1>1
<1>3. Beginning(b, Len(b)) = b
  BY <1>1 DEF Beginning
<1>4. a \in Bytes /\ x \in Bytes /\ b = a \o x
  <2> HIDE DEF k
  <2>1. a \in Bytes /\ x \in Bytes /\ Beginning(b, n + k) = a \o x
    BY <1>2, BeginningIs
  <2> QED BY <2>1, <1>2, <1>3
<1> HIDE DEF a, x
<1>5. /\ deframe_all(a \o x) = deframe_all(a) \o push(Unused(a), x).messages
      /\ push(Unused(a), x).messages \in Seq(Bytes)
  BY <1>4, ParseInChunks
<1> QED BY <1>4, <1>5 DEF a

-----------------------------------------------------------------------------
(* What a call carries                                                     *)

\* Both ends write whole messages. The application has what has been parsed of what it
\* has read, and a unary call that succeeds, the backend's answer; a stream that succeeds
\* has read it all.
CarriesInv(c) ==
  /\ deframe_all(call[c].out) = call[c].sent /\ Unused(call[c].out) = <<>>
  /\ deframe_all(srv[c].wrote) = SubSeq(Answers, 1, srv[c].answers) /\ Unused(srv[c].wrote) = <<>>
  /\ c \in Unary =>
       /\ call[c].buf = Read(c)
       /\ (srv[c].at = "ended" /\ srv[c].end.trailers = OK) => srv[c].answers = 1
       /\ call[c].statuses = <<OK>> => call[c].received = <<Answers[1]>>
  /\ c \notin Unary =>
       /\ call[c].received = deframe_all(Read(c)) /\ call[c].buf = Unused(Read(c))
       /\ call[c].statuses = <<OK>> => call[c].read = Len(srv[c].wrote)

LEMMA CarriesInit == Init => \A c \in Calls : CarriesInv(c)
<1> SUFFICES ASSUME Init, NEW c \in Calls PROVE CarriesInv(c)
  OBVIOUS
<1>1. srv[c] = NoStream /\ call[c] = NewCall
  BY DEF Init, ClientInit
<1>2. <<>> \in Bytes /\ deframe_all(<<>>) = <<>> /\ Unused(<<>>) = <<>>
  BY ParseNothing
<1>3. SubSeq(Answers, 1, 0) = <<>> /\ SubSeq(<<>>, 1, 0) = <<>> /\ Len(<<>>) = 0
  BY SubSeqEmpty
<1>4. Read(c) = <<>>
  BY <1>1, <1>3 DEF Read, Beginning, NoStream, NewCall
<1>5. /\ call[c].out = <<>> /\ call[c].sent = <<>> /\ call[c].buf = <<>> /\ call[c].read = 0
      /\ call[c].received = <<>> /\ call[c].statuses = <<>> /\ srv[c].wrote = <<>>
      /\ srv[c].answers = 0 /\ srv[c].at = "none" /\ <<>> # <<OK>>
  BY <1>1 DEF NoStream, NewCall
<1> QED BY <1>2, <1>3, <1>4, <1>5 DEF CarriesInv

\* Nothing that is carried changes.
LEMMA CarriesKept ==
  ASSUME NEW c \in Calls, CarriesInv(c),
         call'[c].out = call[c].out, call'[c].sent = call[c].sent, call'[c].read = call[c].read,
         call'[c].buf = call[c].buf, call'[c].received = call[c].received,
         call'[c].statuses = <<OK>> => call[c].statuses = <<OK>>,
         srv'[c].wrote = srv[c].wrote, srv'[c].answers = srv[c].answers,
         (srv'[c].at = "ended" /\ c \in Unary /\ srv'[c].end.trailers = OK) => srv[c].answers = 1
  PROVE  CarriesInv(c)'
<1>1. Read(c)' = Read(c)
  BY DEF Read, Beginning
<1> QED BY <1>1 DEF CarriesInv

\* A response reads as OK only if its trailers say so (statusFromResponse).
LEMMA OkIsInTrailers ==
  ASSUME NEW end \in Endings, statusFromResponse(end) = OK
  PROVE  end.trailers = OK
BY EndingsAssumption DEF statusFromResponse, httpToStatus, Unset, OK, UNAVAILABLE, UNKNOWN

\* What TypeOK says of the bytes of a call.
LEMMA CallBytes ==
  ASSUME TypeOK, NEW c \in Calls
  PROVE  /\ call[c] \in CallStates /\ srv[c] \in StreamStates /\ CallOK(c)
         /\ call \in [Calls -> CallStates] /\ srv \in [Calls -> StreamStates]
         /\ call[c].out \in Bytes /\ Len(call[c].out) \in Nat
         /\ srv[c].wrote \in Bytes /\ Len(srv[c].wrote) \in Nat
         /\ call[c].read \in Nat /\ call[c].read <= Len(srv[c].wrote)
         /\ call[c].buf \in Bytes /\ call[c].received \in Seq(Bytes) /\ Read(c) \in Bytes
<1>1. /\ call[c] \in CallStates /\ srv[c] \in StreamStates /\ CallOK(c)
      /\ call \in [Calls -> CallStates] /\ srv \in [Calls -> StreamStates]
  BY OneCallType DEF TypeOK
<1>2. /\ call[c].out \in Bytes /\ srv[c].wrote \in Bytes /\ call[c].read \in Nat
      /\ call[c].read <= Len(srv[c].wrote) /\ call[c].buf \in Bytes /\ call[c].received \in Seq(Bytes)
  BY <1>1 DEF CallStates, StreamStates, CallOK
<1>3. Read(c) \in Bytes
  BY <1>2, BeginningIs DEF Read
<1> QED BY <1>1, <1>2, <1>3, BytesAreNats

LEMMA OneAnswer ==
  ASSUME 1 \in 1..Len(Answers)
  PROVE  SubSeq(Answers, 1, 1) = <<Answers[1]>>
<1> DEFINE l == SubSeq(Answers, 1, 1)
           r == <<Answers[1]>>
<1>1. Answers \in Seq(Bytes) /\ Len(Answers) \in Nat /\ Answers[1] \in Bytes
  BY AnswersAssumption
<1>2. l \in Seq(Bytes) /\ r \in Seq(Bytes)
  BY <1>1
<1>3. Len(l) = 1 /\ Len(r) = 1 /\ l[1] = Answers[1] /\ r[1] = Answers[1]
  BY <1>1
<1>4. \A k \in 1..Len(l) : l[k] = r[k]
  BY <1>3
<1> HIDE DEF l, r
<1>5. l = r
  BY <1>2, <1>3, <1>4, SeqEqual
<1> QED BY <1>5 DEF l, r

\* A call that settles with an error carries what it carried.
LEMMA CarriesFails ==
  ASSUME TypeOK, NEW c \in Calls, CarriesInv(c), NEW code \in Int, code # OK,
         NEW r \in CallStates, Settle(c, code, r), srv' = srv,
         r.out = call[c].out, r.sent = call[c].sent, r.read = call[c].read,
         r.buf = call[c].buf, r.received = call[c].received, r.statuses = <<>>
  PROVE  CarriesInv(c)'
<1>1. /\ call'[c].out = r.out /\ call'[c].sent = r.sent /\ call'[c].read = r.read
      /\ call'[c].buf = r.buf /\ call'[c].received = r.received /\ call'[c].statuses = <<code>>
  <2>1. Append(r.statuses, code) = <<code>>
    OBVIOUS
  <2> QED BY <2>1, CallBytes DEF Settle, CallStates
<1>2. <<code>> # <<OK>>
  OBVIOUS
<1> QED BY <1>1, <1>2, CarriesKept DEF CarriesInv

LEMMA CarriesTurn ==
  ASSUME TypeOK, NEW c \in Calls, CarriesInv(c), CauseInv(c), Turn(c)
  PROVE  CarriesInv(c)'
<1>1. /\ call[c] \in CallStates /\ srv[c] \in StreamStates /\ CallOK(c)
      /\ call \in [Calls -> CallStates]
  BY CallBytes
<1>2. call[c].at # "done" => call[c].statuses = <<>>
  BY <1>1 DEF CallOK
<1>3. srv' = srv
  BY DEF Turn, IssuesRequest, Breaks, GetsHeaders, Reads, ReadsEnd
<1>4. <<>> # <<OK>>
  OBVIOUS
<1>5. ASSUME Fails(c), call[c].at # "done" PROVE CarriesInv(c)'
  <2>1. abortOrUnknown(call[c].signal) \in Int /\ abortOrUnknown(call[c].signal) # OK
    BY <1>1, AbortIsCode DEF CallStates
  <2> QED BY <2>1, <1>1, <1>2, <1>3, <1>5, CarriesFails DEF Fails
<1>6. CASE IssuesRequest(c)
  <2>1. CASE call[c].signal # "none"
    BY <2>1, <1>5, <1>6 DEF IssuesRequest
  <2>2. CASE call[c].signal = "none"
    <3>1. /\ call'[c].out = call[c].out /\ call'[c].sent = call[c].sent
          /\ call'[c].read = call[c].read /\ call'[c].buf = call[c].buf
          /\ call'[c].received = call[c].received /\ call'[c].statuses = call[c].statuses
      BY <2>2, <1>1, <1>6 DEF IssuesRequest, CallStates
    <3> QED BY <3>1, <1>3, CarriesKept DEF CarriesInv
  <2> QED BY <2>1, <2>2
<1>7. CASE Breaks(c)
  BY <1>5, <1>7 DEF Breaks
<1>8. CASE GetsHeaders(c)
  <2>1. /\ call'[c].out = call[c].out /\ call'[c].sent = call[c].sent
        /\ call'[c].read = call[c].read /\ call'[c].buf = call[c].buf
        /\ call'[c].received = call[c].received /\ call'[c].statuses = call[c].statuses
    BY <1>1, <1>8 DEF GetsHeaders, CallStates
  <2> QED BY <2>1, <1>3, CarriesKept DEF CarriesInv
<1>9. CASE Reads(c)
  <2>1. PICK n \in 1..Unread(c) :
          call' = [call EXCEPT ![c] = [call[c] EXCEPT !.read = @ + n, !.buf = Parse(c, n).buf,
                     !.received = @ \o Parse(c, n).messages]]
    BY <1>9 DEF Reads
  <2> DEFINE chunk == SubSeq(srv[c].wrote, call[c].read + 1, call[c].read + n)
  <2>2. n \in Nat /\ call[c].read + n <= Len(srv[c].wrote)
    BY CallBytes DEF Unread
  <2>3. /\ call'[c].out = call[c].out /\ call'[c].sent = call[c].sent
        /\ call'[c].read = call[c].read + n /\ call'[c].buf = Parse(c, n).buf
        /\ call'[c].received = call[c].received \o Parse(c, n).messages
        /\ call'[c].statuses = <<>>
    BY <2>1, <1>1, <1>2, <1>9 DEF Reads, CallStates
  <2>4. chunk \in Bytes /\ Read(c)' = Read(c) \o chunk
    <3>1. /\ chunk \in Bytes
          /\ Beginning(srv[c].wrote, call[c].read + n) = Read(c) \o chunk
      BY <2>2, CallBytes, BeginningIs DEF Read
    <3> QED BY <3>1, <2>3, <1>3 DEF Read
  <2>5. Parse(c, n) = IF c \in Unary THEN [messages |-> <<>>, buf |-> call[c].buf \o chunk]
                      ELSE push(call[c].buf, chunk)
    BY DEF Parse
  <2> HIDE DEF chunk
  <2>6. CASE c \in Unary
    <3>1. call[c].buf = Read(c) /\ Parse(c, n).buf = call[c].buf \o chunk
      BY <2>5, <2>6 DEF CarriesInv
    <3>2. call'[c].buf = Read(c)'
      <4>1. call'[c].buf = call[c].buf \o chunk
        BY <3>1, <2>3
      <4> QED BY <4>1, <3>1, <2>4
    <3> QED BY <3>2, <2>3, <2>6, <1>3, <1>4 DEF CarriesInv
  <2>7. CASE c \notin Unary
    <3>1. /\ deframe_all(Read(c) \o chunk) = deframe_all(Read(c)) \o push(Unused(Read(c)), chunk).messages
          /\ Unused(Read(c) \o chunk) = push(Unused(Read(c)), chunk).buf
      BY <2>4, CallBytes, ParseInChunks
    <3>2. call[c].received = deframe_all(Read(c)) /\ call[c].buf = Unused(Read(c))
      BY <2>7 DEF CarriesInv
    <3>3. call'[c].received = deframe_all(Read(c)') /\ call'[c].buf = Unused(Read(c)')
      BY <3>1, <3>2, <2>3, <2>4, <2>5, <2>7
    <3> QED BY <3>3, <2>3, <2>7, <1>3, <1>4 DEF CarriesInv
  <2> QED BY <2>6, <2>7
<1>10. CASE ReadsEnd(c)
  <2> DEFINE code == statusFromResponse(srv[c].end)
             messages == deframe_all(call[c].buf)
             first == IF messages = <<>> THEN <<>> ELSE messages[1]
             r == IF c \in Unary THEN [call[c] EXCEPT !.received = <<first>>] ELSE call[c]
  <2>1. /\ Settle(c, code, r) /\ call[c].statuses = <<>> /\ srv[c].at = "ended"
        /\ Unread(c) = 0
    BY <1>2, <1>10 DEF ReadsEnd
  <2>2. messages \in Seq(Bytes)
    BY CallBytes, DeframeType
  <2>3. first \in Bytes
    <3>1. <<>> \in Bytes
      BY ParseNothing
    <3> HIDE DEF messages
    <3> QED BY <3>1, <2>2
  <2>4. Read(c) = srv[c].wrote /\ call[c].read = Len(srv[c].wrote)
    <3>1. call[c].read = Len(srv[c].wrote)
      BY <2>1, CallBytes DEF Unread
    <3>2. SubSeq(srv[c].wrote, 1, Len(srv[c].wrote)) = srv[c].wrote
      BY CallBytes, SubSeqFull DEF Bytes
    <3> QED BY <3>1, <3>2 DEF Read, Beginning
  <2>5. code = OK => srv[c].end.trailers = OK
    BY <2>1, OkIsInTrailers DEF CauseInv
  <2> HIDE DEF code
  <2>6. ASSUME c \in Unary, code = OK PROVE first = Answers[1]
    <3>1. messages = SubSeq(Answers, 1, 1)
      BY <2>1, <2>4, <2>5, <2>6 DEF CarriesInv
    <3>2. 1 \in 1..Len(Answers)
      <4>1. srv[c].answers = 1
        BY <2>1, <2>5, <2>6 DEF CarriesInv
      <4>2. c \in DOMAIN work /\ srv[c].answers <= work[c].answers /\ work \in Workloads
        BY <2>1, <1>1 DEF CallOK, TypeOK
      <4>3. work[c].answers \in 0..Len(Answers) /\ Len(Answers) \in Nat
        BY <4>2, AnswersAssumption
      <4> QED BY <4>1, <4>2, <4>3
    <3>3. SubSeq(Answers, 1, 1) = <<Answers[1]>>
      BY <3>2, AnswersAssumption, OneAnswer
    <3>4. <<Answers[1]>> # <<>> /\ <<Answers[1]>>[1] = Answers[1]
      OBVIOUS
    <3>5. messages = <<Answers[1]>>
      BY <3>1, <3>3
    <3> HIDE DEF messages
    <3> QED BY <3>4, <3>5
  <2> HIDE DEF first
  <2>7. /\ call'[c].out = call[c].out /\ call'[c].sent = call[c].sent
        /\ call'[c].read = call[c].read /\ call'[c].buf = call[c].buf
        /\ call'[c].statuses = <<code>>
        /\ call'[c].received = IF c \in Unary THEN <<first>> ELSE call[c].received
    <3>1. <<first>> \in Seq(Bytes)
      BY <2>3
    <3>2. /\ r \in CallStates /\ r.out = call[c].out /\ r.sent = call[c].sent
          /\ r.read = call[c].read /\ r.buf = call[c].buf /\ r.statuses = <<>>
          /\ r.received = IF c \in Unary THEN <<first>> ELSE call[c].received
      <4>1. CASE c \in Unary
        BY <4>1, <3>1, <2>1, <1>1 DEF CallStates
      <4>2. CASE c \notin Unary
        BY <4>2, <2>1, <1>1
      <4> QED BY <4>1, <4>2
    <3> HIDE DEF r
    <3>3. Append(r.statuses, code) = <<code>>
      BY <3>2
    <3> QED BY <3>2, <3>3, <2>1, <1>1 DEF Settle, CallStates
  <2>8. Read(c)' = Read(c)
    BY <2>7, <1>3 DEF Read
  <2>9. <<code>> = <<OK>> => code = OK
    OBVIOUS
  <2>10. CASE c \in Unary
    BY <2>6, <2>7, <2>8, <2>9, <2>10, <1>3 DEF CarriesInv
  <2>11. CASE c \notin Unary
    BY <2>4, <2>7, <2>8, <2>11, <1>3 DEF CarriesInv
  <2> QED BY <2>10, <2>11
<1> QED BY <1>6, <1>7, <1>8, <1>9, <1>10 DEF Turn

LEMMA CarriesApp ==
  ASSUME TypeOK, NEW c \in Calls, CarriesInv(c), App(c)
  PROVE  CarriesInv(c)'
<1>1. /\ call[c] \in CallStates /\ srv[c] \in StreamStates /\ CallOK(c)
      /\ call \in [Calls -> CallStates]
  BY CallBytes
<1>2. srv' = srv
  BY DEF App, Starts, Signals, AppSends, AppHalfCloses, AppNext
<1>3. <<>> \in Bytes /\ deframe_all(<<>>) = <<>> /\ Unused(<<>>) = <<>>
  BY ParseNothing
<1>4. CASE Starts(c)
  <2>1. PICK first : /\ first \in IF c \in Unary THEN {<<m>> : m \in Messages} ELSE {<<>>}
                     /\ UseConnection(c, first)
    BY <1>4 DEF Starts
  <2> DEFINE out == IF first = <<>> THEN <<>> ELSE frame(first[1])
  <2>2. deframe_all(out) = first /\ Unused(out) = <<>>
    <3>1. CASE first = <<>>
      BY <3>1, <1>3
    <3>2. CASE first # <<>>
      <4>1. PICK m \in Messages : first = <<m>>
        BY <2>1, <3>2
      <4>2. /\ <<>> \o frame(m) \in Bytes
            /\ deframe_all(<<>> \o frame(m)) = Append(deframe_all(<<>>), m)
            /\ Unused(<<>> \o frame(m)) = <<>>
        BY <1>3, MessagesAssumption, FrameAppends
      <4>3. frame(m) \in Bytes
        BY MessagesAssumption, FrameIsBytes
      <4> DEFINE x == frame(m)
      <4> HIDE DEF x
      <4>4. <<>> \o x = x
        BY <4>3 DEF x, Bytes
      <4>5. out = x /\ Append(<<>>, m) = <<m>> /\ <<m>> # <<>>
        BY <4>1 DEF x
      <4> QED BY <4>1, <4>2, <4>4, <4>5, <1>3 DEF x
    <3> QED BY <3>1, <3>2
  <2> HIDE DEF out
  <2>3. /\ call'[c].out = out /\ call'[c].sent = first /\ call'[c].read = call[c].read
        /\ call'[c].buf = call[c].buf /\ call'[c].received = call[c].received
        /\ call'[c].statuses = call[c].statuses
    BY <2>1, <1>1 DEF UseConnection, CallStates, out
  <2>4. Read(c)' = Read(c)
    BY <2>3, <1>2 DEF Read
  <2> QED BY <2>2, <2>3, <2>4, <1>2 DEF CarriesInv
<1>5. CASE Signals(c)
  <2>1. PICK why \in MayStill(c) :
          LET r == [call[c] EXCEPT !.signal = why, !.bodyClosed = @ \/ why = "cancel"] IN
          IF call[c].at = "connecting" THEN call' = [call EXCEPT ![c] = r] /\ UNCHANGED iter
          ELSE Settle(c, abortOrUnknown(why), r)
    BY <1>5 DEF Signals
  <2> DEFINE shut == call[c].bodyClosed \/ why = "cancel"
             r == [call[c] EXCEPT !.signal = why, !.bodyClosed = shut]
  <2>2. /\ why \in {"deadline", "cancel"} /\ shut \in BOOLEAN
        /\ abortOrUnknown(why) \in Int /\ abortOrUnknown(why) # OK
    BY AbortIsCode DEF MayStill
  <2>3. call' = [call EXCEPT ![c] = r] \/ Settle(c, abortOrUnknown(why), r)
    BY <2>1
  <2> HIDE DEF shut
  <2>4. /\ r \in CallStates /\ r.out = call[c].out /\ r.sent = call[c].sent
        /\ r.read = call[c].read /\ r.buf = call[c].buf /\ r.received = call[c].received
        /\ r.statuses = call[c].statuses
    BY <2>2, <1>1 DEF CallStates
  <2>5. call[c].statuses = <<>>
    BY <1>1, <1>5 DEF Signals, CallOK
  <2> HIDE DEF r
  <2>6. CASE call' = [call EXCEPT ![c] = r]
    <3>1. call'[c] = r
      BY <2>6, <1>1
    <3> QED BY <3>1, <2>4, <1>2, CarriesKept DEF CarriesInv
  <2>7. CASE Settle(c, abortOrUnknown(why), r)
    BY <2>2, <2>4, <2>5, <2>7, <1>2, CarriesFails
  <2> QED BY <2>3, <2>6, <2>7
<1>6. CASE AppSends(c)
  <2>1. PICK m \in Messages :
          call' = [call EXCEPT ![c].sent = Append(@, m), ![c].out = @ \o frame(m)]
    BY <1>6 DEF AppSends
  <2>2. /\ call'[c].out = call[c].out \o frame(m) /\ call'[c].sent = Append(call[c].sent, m)
        /\ call'[c].read = call[c].read /\ call'[c].buf = call[c].buf
        /\ call'[c].received = call[c].received /\ call'[c].statuses = call[c].statuses
    BY <2>1, <1>1 DEF CallStates
  <2>3. /\ deframe_all(call[c].out \o frame(m)) = Append(call[c].sent, m)
        /\ Unused(call[c].out \o frame(m)) = <<>>
    <3>1. deframe_all(call[c].out) = call[c].sent /\ Unused(call[c].out) = <<>>
      BY DEF CarriesInv
    <3>2. m \in Bytes /\ Fits(Len(m)) /\ call[c].out \in Bytes
      BY MessagesAssumption, CallBytes
    <3>3. /\ deframe_all(call[c].out \o frame(m)) = Append(deframe_all(call[c].out), m)
          /\ Unused(call[c].out \o frame(m)) = <<>>
      BY <3>1, <3>2, FrameAppends
    <3> QED BY <3>1, <3>3
  <2>4. Read(c)' = Read(c)
    BY <2>2, <1>2 DEF Read
  <2> QED BY <2>2, <2>3, <2>4, <1>2 DEF CarriesInv
<1>7. CASE AppHalfCloses(c)
  <2>1. /\ call'[c].out = call[c].out /\ call'[c].sent = call[c].sent
        /\ call'[c].read = call[c].read /\ call'[c].buf = call[c].buf
        /\ call'[c].received = call[c].received /\ call'[c].statuses = call[c].statuses
    BY <1>1, <1>7 DEF AppHalfCloses, CallStates
  <2> QED BY <2>1, <1>2, CarriesKept DEF CarriesInv
<1>8. CASE AppNext(c)
  <2>1. call' = call
    BY <1>8 DEF AppNext
  <2> QED BY <2>1, <1>2, CarriesKept DEF CarriesInv
<1> QED BY <1>4, <1>5, <1>6, <1>7, <1>8 DEF App

\* Each answer is whole, and the server says nothing more once the call has succeeded.
LEMMA NextAnswer ==
  ASSUME NEW k \in Nat, k < Len(Answers)
  PROVE  SubSeq(Answers, 1, k + 1) = Append(SubSeq(Answers, 1, k), Answers[k + 1])
<1> DEFINE l == SubSeq(Answers, 1, k + 1)
           r == Append(SubSeq(Answers, 1, k), Answers[k + 1])
<1>1. Answers \in Seq(Bytes) /\ Len(Answers) \in Nat /\ Answers[k + 1] \in Bytes
  <2>1. Answers \in Seq(Bytes) /\ Len(Answers) \in Nat
    BY AnswersAssumption
  <2>2. k + 1 \in 1..Len(Answers)
    BY <2>1
  <2> QED BY <2>1, <2>2, ElementOfSeq
<1>2. SubSeq(Answers, 1, k) \in Seq(Bytes) /\ Len(SubSeq(Answers, 1, k)) = k
      /\ \A j \in 1..k : SubSeq(Answers, 1, k)[j] = Answers[j]
  BY <1>1
<1>3. l \in Seq(Bytes) /\ r \in Seq(Bytes) /\ Len(l) = k + 1 /\ Len(r) = k + 1
  BY <1>1, <1>2
<1>4. \A j \in 1..Len(l) : l[j] = r[j]
  <2> SUFFICES ASSUME NEW j \in 1..(k + 1) PROVE l[j] = r[j]
    BY <1>3
  <2>1. l[j] = Answers[j]
    BY <1>1
  <2>2. CASE j = k + 1
    BY <2>1, <2>2, <1>1, <1>2
  <2>3. CASE j # k + 1
    BY <2>1, <2>3, <1>1, <1>2
  <2> QED BY <2>2, <2>3
<1> HIDE DEF l, r
<1>5. l = r
  BY <1>3, <1>4, SeqEqual
<1> QED BY <1>5 DEF l, r

\* A call that has succeeded has read the server's end.
LEMMA SucceedsAtEnd ==
  ASSUME TypeOK, NEW c \in Calls, CauseInv(c), call[c].statuses = <<OK>>
  PROVE  srv[c].at = "ended" /\ srv[c].end.trailers = OK
<1>1. call[c].statuses # <<>> /\ call[c].statuses[1] = OK
  OBVIOUS
<1>2. call[c].signal \in {"none", "deadline", "cancel"}
  BY CallBytes DEF CallStates
<1>3. statusFromResponse(srv[c].end) = OK /\ srv[c].at = "ended"
  BY <1>1, <1>2, AbortIsCode DEF CauseInv
<1> QED BY <1>3, OkIsInTrailers DEF CauseInv

LEMMA CarriesServer ==
  ASSUME TypeOK, NEW c \in Calls, CarriesInv(c), CauseInv(c), ServerTurn(c)
  PROVE  CarriesInv(c)'
<1>1. /\ call[c] \in CallStates /\ srv[c] \in StreamStates /\ CallOK(c)
      /\ srv \in [Calls -> StreamStates]
  BY CallBytes
<1>2. call' = call
  BY DEF ServerTurn, Opens, Polls, AnswersCall, EndsCall, Resets, clientVars
<1>3. CASE Opens(c)
  <2>1. srv'[c].wrote = srv[c].wrote /\ srv'[c].answers = srv[c].answers /\ srv'[c].at = "open"
    BY <1>1, <1>3 DEF Opens, StreamStates
  <2> QED BY <2>1, <1>2, CarriesKept
<1>4. CASE Polls(c)
  <2>1. PICK n \in 1..(Len(call[c].out) - srv[c].fed) :
          LET chunk == SubSeq(call[c].out, srv[c].fed + 1, srv[c].fed + n)
              limit == inspect(srv[c].limit, chunk, MaxMessage)
              s == [srv[c] EXCEPT !.fed = @ + n, !.limit = limit]
          IN srv' = [srv EXCEPT ![c] = IF limit.over THEN [s EXCEPT !.at = "limited"]
                                       ELSE [s EXCEPT !.seen = @ \o chunk]]
    BY <1>4 DEF Polls
  <2>2. srv[c].at = "open"
    BY <1>4 DEF Polls
  <2>3. /\ srv'[c].wrote = srv[c].wrote /\ srv'[c].answers = srv[c].answers
        /\ srv'[c].at \in {"open", "limited"}
    BY <2>1, <2>2, <1>1 DEF StreamStates
  <2> QED BY <2>3, <1>2, CarriesKept
<1>5. CASE AnswersCall(c)
  <2> DEFINE k == srv[c].answers
             m == Answers[k + 1]
             a == srv[c].wrote
             b == a \o frame(m)
  <2>1. /\ srv'[c].wrote = b /\ srv'[c].answers = k + 1
        /\ srv'[c].at = "open" /\ srv[c].at = "open"
    BY <1>1, <1>5 DEF AnswersCall, StreamStates
  <2>2. k \in Nat /\ k < Len(Answers)
    <3>1. c \in DOMAIN work
      BY <2>1, <1>1 DEF CallOK, NoStream
    <3>2. work \in Workloads /\ k \in Nat /\ k < work[c].answers
      BY <1>1, <1>5 DEF AnswersCall, TypeOK, StreamStates
    <3>3. work[c].answers \in 0..Len(Answers) /\ Len(Answers) \in Nat
      BY <3>1, <3>2, AnswersAssumption
    <3> QED BY <3>2, <3>3
  <2>3. m \in Bytes /\ Fits(Len(m))
    <3>1. k + 1 \in DOMAIN Answers /\ Answers \in Seq(Bytes)
      BY <2>2, AnswersAssumption
    <3> QED BY <3>1, AnswersAssumption
  <2>4. /\ a \in Bytes /\ Unused(a) = <<>> /\ deframe_all(a) = SubSeq(Answers, 1, k)
    BY CallBytes DEF CarriesInv
  <2> HIDE DEF k, m, a
  <2>5. b \in Bytes /\ deframe_all(b) = Append(deframe_all(a), m) /\ Unused(b) = <<>>
    BY <2>3, <2>4, FrameAppends
  <2>6. deframe_all(b) = SubSeq(Answers, 1, k + 1)
    BY <2>2, <2>4, <2>5, NextAnswer DEF m
  <2>7. Read(c)' = Read(c)
    <3>1. frame(m) \in Bytes
      BY <2>3, FrameIsBytes
    <3>2. a \in Bytes /\ call[c].read \in Nat /\ call[c].read <= Len(a)
      BY CallBytes DEF a
    <3>3. Beginning(b, call[c].read) = Beginning(a, call[c].read)
      BY <3>1, <3>2, BeginningIs
    <3> QED BY <3>3, <2>1, <1>2 DEF Read, a
  <2>8. call[c].statuses # <<OK>>
    BY <2>1, SucceedsAtEnd
  <2> HIDE DEF b
  <2> QED BY <2>1, <2>5, <2>6, <2>7, <2>8, <1>2 DEF CarriesInv
<1>6. CASE EndsCall(c)
  <2>1. /\ srv'[c].wrote = srv[c].wrote /\ srv'[c].answers = srv[c].answers
        /\ (c \in Unary /\ srv'[c].end.trailers = OK) => srv[c].answers = 1
    BY <1>1, <1>6 DEF EndsCall, StreamStates
  <2> QED BY <2>1, <1>2, CarriesKept
<1>7. CASE Resets(c)
  <2>1. srv'[c].wrote = srv[c].wrote /\ srv'[c].answers = srv[c].answers /\ srv'[c].at = "reset"
    BY <1>1, <1>7 DEF Resets, StreamStates
  <2> QED BY <2>1, <1>2, CarriesKept
<1> QED BY <1>3, <1>4, <1>5, <1>6, <1>7 DEF ServerTurn

LEMMA CarriesInvHolds == Spec => [](\A c \in Calls : CarriesInv(c))
<1>1. TypeOK /\ (\A c \in Calls : CauseInv(c)) /\ (\A c \in Calls : CarriesInv(c)) /\ [Next]_vars
        => (\A c \in Calls : CarriesInv(c))'
  <2> SUFFICES ASSUME TypeOK, [Next]_vars, NEW c \in Calls, CauseInv(c), CarriesInv(c)
               PROVE  CarriesInv(c)'
    OBVIOUS
  <2>1. CASE CallStays(c)
    <3>1. call'[c] = call[c] /\ srv'[c] = srv[c]
      BY <2>1 DEF CallStays
    <3> QED BY <3>1, CarriesKept DEF CarriesInv
  <2> QED BY <2>1, StepsOfCall, CarriesTurn, CarriesApp, CarriesServer
<1> QED BY <1>1, CarriesInit, CauseInvHolds, H2tsTypeCorrect, PTL DEF Spec

\* A unary call that succeeds has the backend's message, and the backend ended well
\* (h2ts-transport.ts unary): what is kept until the end is all the backend wrote, whole
\* messages, and tonic says OK of a unary call after one answer.
THEOREM H2tsUnaryIsWhole == Spec => []UnaryIsWhole
<1>1. /\ TypeOK /\ (\A c \in Calls : CauseInv(c)) /\ (\A c \in Calls : CarriesInv(c))
      => UnaryIsWhole
  <2> SUFFICES ASSUME TypeOK, NEW c \in Unary, c \in Calls, CauseInv(c), CarriesInv(c),
                      call[c].statuses = <<OK>>
               PROVE  /\ srv[c].at = "ended" /\ srv[c].end.trailers = OK
                      /\ call[c].received = <<Answers[1]>>
    BY CallsAssumption DEF UnaryIsWhole
  <2> QED BY SucceedsAtEnd DEF CarriesInv
<1> QED BY <1>1, CarriesInvHolds, CauseInvHolds, H2tsTypeCorrect, PTL

-----------------------------------------------------------------------------
(* A stream implements RpcStream                                           *)

\* The refinement mapping numbers the answers, which it can do when they differ.
Numbered == \A j, k \in DOMAIN Answers : Answers[j] = Answers[k] => j = k

Numbers(messages) == [k \in DOMAIN messages |-> NumberOf(messages[k])]
Outcome(statuses) == [k \in DOMAIN statuses |-> IF statuses[k] = OK THEN "OK" ELSE "error"]

\* The first part of a sequence.
LEMMA FirstPart ==
  ASSUME NEW S, NEW p \in Seq(S), NEW q \in Seq(S), NEW w, w = p \o q
  PROVE  /\ Len(p) \in Nat /\ Len(w) = Len(p) + Len(q) /\ Len(p) <= Len(w)
         /\ p = SubSeq(w, 1, Len(p)) /\ \A k \in 1..Len(p) : p[k] = w[k]
<1>1. /\ w \in Seq(S) /\ Len(w) = Len(p) + Len(q) /\ Len(p) \in Nat /\ Len(q) \in Nat
      /\ \A k \in 1..Len(p) : p[k] = w[k]
  BY ConcatProperties
<1>2. /\ SubSeq(w, 1, Len(p)) \in Seq(S) /\ Len(SubSeq(w, 1, Len(p))) = Len(p)
      /\ \A k \in 1..Len(p) : SubSeq(w, 1, Len(p))[k] = w[k]
  BY <1>1
<1>3. p = SubSeq(w, 1, Len(p))
  BY <1>1, <1>2, SeqEqual
<1> QED BY <1>1, <1>3

\* What is parsed of the first bytes the server wrote are the first answers.
LEMMA NumbersAre ==
  ASSUME Numbered, NEW b \in Bytes, NEW n \in Nat, n <= Len(b), NEW a \in 0..Len(Answers),
         deframe_all(b) = SubSeq(Answers, 1, a),
         NEW r \in Seq(Bytes), r = deframe_all(Beginning(b, n))
  PROVE  /\ Numbers(r) = [k \in 1..Len(r) |-> k] /\ Len(r) \in 0..a
         /\ n = Len(b) => Len(r) = a
<1>1. Answers \in Seq(Bytes) /\ Len(Answers) \in Nat
  BY AnswersAssumption
<1> DEFINE w == SubSeq(Answers, 1, a)
<1>2. w \in Seq(Bytes) /\ Len(w) = a /\ \A k \in 1..a : w[k] = Answers[k]
  BY <1>1
<1>3. PICK more \in Seq(Bytes) : deframe_all(b) = deframe_all(Beginning(b, n)) \o more
  BY BeginningParses
<1>4. w = r \o more
  BY <1>3
<1> HIDE DEF w
<1>5. Len(r) \in Nat /\ Len(r) <= a /\ \A k \in 1..Len(r) : r[k] = Answers[k]
  BY <1>1, <1>2, <1>4, FirstPart
<1>6. DOMAIN r = 1..Len(r)
  BY LenProperties
<1>7. ASSUME NEW k \in 1..Len(r) PROVE NumberOf(r[k]) = k
  <2>1. k \in DOMAIN Answers /\ Answers[k] = r[k]
    BY <1>1, <1>5
  <2> QED BY <2>1 DEF NumberOf, Numbered
<1>8. Numbers(r) = [k \in 1..Len(r) |-> k]
  BY <1>6, <1>7 DEF Numbers
<1>9. ASSUME n = Len(b) PROVE Len(r) = a
  <2>1. Beginning(b, n) = b
    BY <1>9, SubSeqFull DEF Beginning, Bytes
  <2> QED BY <2>1, <1>2 DEF w
<1> QED BY <1>5, <1>8, <1>9

\* What both ends of a stream make of each other: the application has the first answers,
\* all of them if it succeeded; the backend has the first requests.
StreamInv(c) ==
  /\ Numbers(call[c].received) = [k \in 1..Len(call[c].received) |-> k]
  /\ Len(call[c].received) \in 0..srv[c].answers
  /\ call[c].statuses = <<OK>> => Len(call[c].received) = srv[c].answers
  /\ ~srv[c].limit.over =>
       \E n \in 0..Len(call[c].sent) :
         n = Len(deframe_all(srv[c].seen)) /\ deframe_all(srv[c].seen) = SubSeq(call[c].sent, 1, n)

LEMMA StreamInvIs ==
  ASSUME TypeOK, Numbered, NEW c \in Calls, c \notin Unary, CarriesInv(c), LimitInv(c)
  PROVE  StreamInv(c)
<1>1. srv[c].answers \in 0..Len(Answers)
  <2>1. /\ call[c].at = "idle" => srv[c].answers = 0
        /\ call[c].at # "idle" => c \in DOMAIN work
        /\ c \in DOMAIN work => srv[c].answers <= work[c].answers
        /\ srv[c].answers \in Nat /\ work \in Workloads
    BY CallBytes DEF CallOK, StreamStates, NoStream, TypeOK
  <2>2. Len(Answers) \in Nat /\ (c \in DOMAIN work => work[c].answers \in 0..Len(Answers))
    BY <2>1, AnswersAssumption
  <2> QED BY <2>1, <2>2
<1>2. /\ Numbers(call[c].received) = [k \in 1..Len(call[c].received) |-> k]
      /\ Len(call[c].received) \in 0..srv[c].answers
      /\ call[c].read = Len(srv[c].wrote) => Len(call[c].received) = srv[c].answers
  <2>1. /\ srv[c].wrote \in Bytes /\ call[c].read \in Nat /\ call[c].read <= Len(srv[c].wrote)
        /\ call[c].received \in Seq(Bytes)
    BY CallBytes
  <2>2. /\ deframe_all(srv[c].wrote) = SubSeq(Answers, 1, srv[c].answers)
        /\ call[c].received = deframe_all(Beginning(srv[c].wrote, call[c].read))
    BY DEF CarriesInv, Read
  <2> DEFINE b == srv[c].wrote
             n == call[c].read
             a == srv[c].answers
             r == call[c].received
  <2> HIDE DEF b, n, a, r
  <2>3. /\ b \in Bytes /\ n \in Nat /\ n <= Len(b) /\ r \in Seq(Bytes) /\ a \in 0..Len(Answers)
        /\ deframe_all(b) = SubSeq(Answers, 1, a) /\ r = deframe_all(Beginning(b, n))
    BY <1>1, <2>1, <2>2 DEF b, n, a, r
  <2>4. /\ Numbers(r) = [k \in 1..Len(r) |-> k] /\ Len(r) \in 0..a
        /\ n = Len(b) => Len(r) = a
    BY <2>3, NumbersAre
  <2> QED BY <2>4 DEF b, n, a, r
<1>3. ASSUME ~srv[c].limit.over
      PROVE  \E n \in 0..Len(call[c].sent) :
               n = Len(deframe_all(srv[c].seen)) /\ deframe_all(srv[c].seen) = SubSeq(call[c].sent, 1, n)
  <2>1. srv[c].seen = Beginning(call[c].out, srv[c].fed)
    BY <1>3 DEF LimitInv, Fed, Beginning
  <2>2. call[c].out \in Bytes /\ srv[c].fed \in Nat /\ srv[c].fed <= Len(call[c].out)
        /\ srv[c].seen \in Bytes
    BY CallBytes DEF StreamStates, CallOK
  <2>3. PICK more \in Seq(Bytes) : deframe_all(call[c].out) = deframe_all(srv[c].seen) \o more
    BY <2>1, <2>2, BeginningParses
  <2>4. deframe_all(srv[c].seen) \in Seq(Bytes)
    BY <2>2, DeframeType
  <2>5. call[c].sent = deframe_all(srv[c].seen) \o more
    BY <2>3 DEF CarriesInv
  <2> DEFINE p == deframe_all(srv[c].seen)
  <2>6. Len(call[c].sent) = Len(p) + Len(more) /\ Len(p) \in Nat /\ Len(more) \in Nat
        /\ p = SubSeq(call[c].sent, 1, Len(p))
    <3> HIDE DEF p
    <3>1. p \in Seq(Bytes) /\ call[c].sent = p \o more
      BY <2>4, <2>5 DEF p
    <3> QED BY <3>1, FirstPart
  <2> HIDE DEF p
  <2>7. Len(p) \in 0..Len(call[c].sent)
    BY <2>6
  <2> QED BY <2>6, <2>7 DEF p
<1> QED BY <1>2, <1>3 DEF StreamInv, CarriesInv

LEMMA OutcomeIs ==
  ASSUME NEW code \in Int
  PROVE  /\ Outcome(<<>>) = <<>> /\ Outcome(<<code>>) = <<IF code = OK THEN "OK" ELSE "error">>
<1>1. Outcome(<<>>) = <<>>
  BY DEF Outcome
<1>2. Outcome(<<code>>) = <<IF code = OK THEN "OK" ELSE "error">>
  <2> DEFINE o == IF code = OK THEN "OK" ELSE "error"
  <2>1. DOMAIN <<code>> = 1..1 /\ <<code>>[1] = code
    OBVIOUS
  <2>2. Outcome(<<code>>) = [k \in 1..1 |-> o]
    BY <2>1 DEF Outcome
  <2> HIDE DEF o
  <2>3. [k \in 1..1 |-> o] = <<o>>
    OBVIOUS
  <2> QED BY <2>2, <2>3 DEF o
<1> QED BY <1>1, <1>2

\* What RpcStream sees of the stream.
View == <<call[Streaming].sent, deframe_all(srv[Streaming].seen), srv[Streaming].answers,
          Numbers(call[Streaming].received), Outcome(call[Streaming].statuses)>>

LEMMA ViewIs == Rpc!rpcVars = View /\ (Rpc!rpcVars)' = View'
BY DEF Rpc!rpcVars, View, Numbers, Outcome

\* What TypeOK says of the statuses of a call.
LEMMA StatusesAre ==
  ASSUME TypeOK, NEW c \in Calls
  PROVE  /\ call[c].at # "done" => call[c].statuses = <<>> /\ Outcome(call[c].statuses) = <<>>
         /\ Outcome(call[c].statuses) = <<"OK">> => call[c].statuses = <<OK>>
<1>1. CallOK(c) /\ call[c].statuses \in Seq(Int)
  BY CallBytes DEF CallStates
<1>2. CASE call[c].at # "done"
  <2>1. call[c].statuses = <<>>
    BY <1>1, <1>2 DEF CallOK
  <2>2. Outcome(<<>>) = <<>>
    BY DEF Outcome
  <2> QED BY <2>1, <2>2
<1>3. CASE call[c].at = "done"
  <2>1. Len(call[c].statuses) = 1
    <3>1. call[c].statuses # <<>> /\ Len(call[c].statuses) <= 1
      BY <1>1, <1>3 DEF CallOK
    <3>2. Len(call[c].statuses) \in Nat \ {0}
      BY <1>1, <3>1, EmptySeq
    <3> DEFINE n == Len(call[c].statuses)
    <3>3. n \in Nat \ {0} /\ n <= 1
      BY <3>1, <3>2
    <3> HIDE DEF n
    <3>4. n = 1
      BY <3>3
    <3> QED BY <3>4 DEF n
  <2> DEFINE code == call[c].statuses[1]
  <2>2. code \in Int /\ call[c].statuses = <<code>>
    <3>1. code \in Int /\ 1 \in 1..Len(call[c].statuses)
      BY <1>1, <2>1, ElementOfSeq
    <3>2. <<code>> \in Seq(Int) /\ Len(<<code>>) = 1 /\ <<code>>[1] = code
      BY <3>1
    <3>3. call[c].statuses = <<code>>
      BY <1>1, <2>1, <3>2, SeqEqual
    <3> QED BY <3>1, <3>3
  <2> HIDE DEF code
  <2>3. Outcome(call[c].statuses) = <<IF code = OK THEN "OK" ELSE "error">>
    BY <2>2, OutcomeIs
  <2> QED BY <2>2, <2>3, <1>3
<1> QED BY <1>2, <1>3

LEMMA LenOfNumbers ==
  ASSUME NEW r, Numbers(r) = [k \in 1..Len(r) |-> k], NEW a, Len(r) \in 0..a
  PROVE  Len(Numbers(r)) = Len(r)
<1> DEFINE n == Len(r)
<1>1. n \in Nat
  OBVIOUS
<1> HIDE DEF n
<1>2. [k \in 1..n |-> k] \in Seq(Nat) /\ Len([k \in 1..n |-> k]) = n
  BY <1>1
<1> QED BY <1>2 DEF n

\* The stream settles.
LEMMA RpcEnds ==
  ASSUME NEW code \in Int, Outcome(call[Streaming].statuses) = <<>>,
         call'[Streaming].statuses = <<code>>, call'[Streaming].sent = call[Streaming].sent,
         call'[Streaming].received = call[Streaming].received, srv' = srv,
         code = OK => Len(Numbers(call[Streaming].received)) = srv[Streaming].answers
  PROVE  Rpc!RpcNext
<1> DEFINE o == IF code = OK THEN "OK" ELSE "error"
<1>1. o \in {"OK", "error"} /\ (o = "OK" => code = OK)
  OBVIOUS
<1>2. Outcome(call'[Streaming].statuses) = <<o>>
  BY OutcomeIs
<1> HIDE DEF o
<1>3. Rpc!End(o)
  BY <1>1, <1>2 DEF Rpc!End, Numbers, Outcome
<1> QED BY <1>1, <1>3 DEF Rpc!RpcNext

StreamFacts ==
  /\ TypeOK /\ Streaming \in Calls /\ Streaming \notin Unary
  /\ CauseInv(Streaming) /\ LimitInv(Streaming) /\ LimitInv(Streaming)'
  /\ StreamInv(Streaming) /\ StreamInv(Streaming)'

\* A stream that fails, or is called off, ends in an error.
LEMMA RpcFails ==
  ASSUME StreamFacts, NEW code \in Int, code # OK, NEW r \in CallStates,
         Settle(Streaming, code, r), srv' = srv, call[Streaming].at # "done",
         r.sent = call[Streaming].sent, r.received = call[Streaming].received,
         r.statuses = call[Streaming].statuses
  PROVE  Rpc!RpcNext
<1>1. Outcome(call[Streaming].statuses) = <<>> /\ call[Streaming].statuses = <<>>
  BY StatusesAre DEF StreamFacts
<1>2. call'[Streaming].statuses = <<code>> /\ call'[Streaming].sent = call[Streaming].sent
      /\ call'[Streaming].received = call[Streaming].received
  <2>1. Append(r.statuses, code) = <<code>>
    BY <1>1
  <2>2. call \in [Calls -> CallStates] /\ Streaming \in Calls
    BY DEF StreamFacts, TypeOK
  <2> QED BY <2>1, <2>2 DEF Settle, CallStates
<1> QED BY <1>1, <1>2, RpcEnds

LEMMA RpcTurn ==
  ASSUME StreamFacts, Turn(Streaming)
  PROVE  [Rpc!RpcNext]_View
<1> DEFINE c == Streaming
<1>1. /\ call[c] \in CallStates /\ srv[c] \in StreamStates /\ CallOK(c)
      /\ call \in [Calls -> CallStates] /\ c \in Calls /\ c \notin Unary
  BY CallBytes DEF StreamFacts
<1>2. call[c].at # "done" => Outcome(call[c].statuses) = <<>> /\ call[c].statuses = <<>>
  BY <1>1, StatusesAre DEF StreamFacts
<1>3. srv' = srv
  BY DEF Turn, IssuesRequest, Breaks, GetsHeaders, Reads, ReadsEnd
<1>4. ASSUME Fails(c), call[c].at # "done" PROVE Rpc!RpcNext
  <2>1. abortOrUnknown(call[c].signal) \in Int /\ abortOrUnknown(call[c].signal) # OK
    BY <1>1, AbortIsCode DEF CallStates
  <2> QED BY <2>1, <1>1, <1>3, <1>4, RpcFails DEF Fails
<1>5. CASE IssuesRequest(c)
  <2>1. CASE call[c].signal # "none"
    BY <2>1, <1>4, <1>5 DEF IssuesRequest
  <2>2. CASE call[c].signal = "none"
    <3>1. /\ call'[c].sent = call[c].sent /\ call'[c].received = call[c].received
          /\ call'[c].statuses = call[c].statuses
      BY <2>2, <1>1, <1>5 DEF IssuesRequest, CallStates
    <3> QED BY <3>1, <1>3 DEF View
  <2> QED BY <2>1, <2>2
<1>6. CASE Breaks(c)
  BY <1>4, <1>6 DEF Breaks
<1>7. CASE GetsHeaders(c)
  <2>1. /\ call'[c].sent = call[c].sent /\ call'[c].received = call[c].received
        /\ call'[c].statuses = call[c].statuses
    BY <1>1, <1>7 DEF GetsHeaders, CallStates
  <2> QED BY <2>1, <1>3 DEF View
<1>8. CASE Reads(c)
  <2>1. PICK n \in 1..Unread(c) :
          call' = [call EXCEPT ![c] = [call[c] EXCEPT !.read = @ + n, !.buf = Parse(c, n).buf,
                     !.received = @ \o Parse(c, n).messages]]
    BY <1>8 DEF Reads
  <2> DEFINE more == Parse(c, n).messages
  <2>2. /\ call'[c].sent = call[c].sent /\ call'[c].statuses = call[c].statuses
        /\ call'[c].received = call[c].received \o more /\ call[c].at # "done"
    BY <2>1, <1>1, <1>8 DEF Reads, CallStates
  <2>3. more \in Seq(Bytes) /\ call[c].received \in Seq(Bytes)
    <3>1. SubSeq(srv[c].wrote, call[c].read + 1, call[c].read + n) \in Bytes
      <4>1. n \in Nat /\ call[c].read + n <= Len(srv[c].wrote)
        BY <1>1, CallBytes DEF Unread, StreamFacts
      <4> QED BY <4>1, <1>1, CallBytes, BeginningIs DEF StreamFacts
    <3>2. call[c].buf \in Bytes /\ call[c].received \in Seq(Bytes)
      BY <1>1, CallBytes DEF StreamFacts
    <3> QED BY <3>1, <3>2, <1>1, PushType DEF Parse
  <2> HIDE DEF more
  <2>4. CASE more = <<>>
    <3>1. call'[c].received = call[c].received
      BY <2>2, <2>3, <2>4, ConcatEmptySeq
    <3> QED BY <3>1, <2>2, <1>3 DEF View
  <2>5. CASE more # <<>>
    <3> DEFINE k == Len(call'[c].received)
    <3>1. Len(call[c].received) \in Nat /\ k >= Len(call[c].received) + 1 /\ k \in Nat
      <4>1. Len(more) \in Nat \ {0}
        BY <2>3, <2>5, EmptySeq
      <4>2. Len(call[c].received \o more) = Len(call[c].received) + Len(more)
            /\ Len(call[c].received) \in Nat
        BY <2>3
      <4> QED BY <4>1, <4>2, <2>2
    <3>2. Numbers(call'[c].received) = [j \in 1..k |-> j] /\ k \in 0..srv[c].answers
      BY <1>3 DEF StreamFacts, StreamInv
    <3>3. Len(Numbers(call[c].received)) = Len(call[c].received)
      BY <3>1, LenOfNumbers DEF StreamFacts, StreamInv
    <3> HIDE DEF k
    <3>4. k \in (Len(Numbers(call[c].received)) + 1)..srv[c].answers
      BY <3>1, <3>2, <3>3, <1>1 DEF StreamStates
    <3>5. Rpc!Receive
      BY <3>2, <3>4, <2>2, <1>2, <1>3 DEF Rpc!Receive, Numbers, Outcome
    <3> QED BY <3>5 DEF Rpc!RpcNext
  <2> QED BY <2>4, <2>5
<1>9. CASE ReadsEnd(c)
  <2> DEFINE code == statusFromResponse(srv[c].end)
  <2>1. Settle(c, code, call[c]) /\ call[c].at # "done"
    BY <1>1, <1>9 DEF ReadsEnd
  <2>2. code \in Int
    BY <1>1 DEF statusFromResponse, httpToStatus, OK, UNAVAILABLE, UNKNOWN, StreamStates
  <2> HIDE DEF code
  <2>3. /\ call'[c].statuses = <<code>> /\ call'[c].sent = call[c].sent
        /\ call'[c].received = call[c].received
    <3>1. call[c].statuses = <<>> /\ Append(<<>>, code) = <<code>>
      BY <2>1, <1>2
    <3>2. Append(call[c].statuses, code) = <<code>>
      BY <3>1
    <3> QED BY <3>2, <2>1, <1>1 DEF Settle, CallStates
  <2>4. code = OK => Len(Numbers(call[c].received)) = srv[c].answers
    <3>1. code = OK => Len(call[c].received) = srv[c].answers
      BY <2>3, <1>3 DEF StreamFacts, StreamInv
    <3>2. Len(Numbers(call[c].received)) = Len(call[c].received)
      BY LenOfNumbers DEF StreamFacts, StreamInv
    <3> QED BY <3>1, <3>2
  <2> QED BY <2>1, <2>2, <2>3, <2>4, <1>2, <1>3, RpcEnds
<1> QED BY <1>5, <1>6, <1>7, <1>8, <1>9 DEF Turn

LEMMA RpcApp ==
  ASSUME StreamFacts, App(Streaming)
  PROVE  [Rpc!RpcNext]_View
<1> DEFINE c == Streaming
<1>1. /\ call[c] \in CallStates /\ srv[c] \in StreamStates /\ CallOK(c)
      /\ call \in [Calls -> CallStates] /\ c \in Calls /\ c \notin Unary
  BY CallBytes DEF StreamFacts
<1>2. call[c].at # "done" => Outcome(call[c].statuses) = <<>> /\ call[c].statuses = <<>>
  BY <1>1, StatusesAre DEF StreamFacts
<1>3. srv' = srv
  BY DEF App, Starts, Signals, AppSends, AppHalfCloses, AppNext
<1>4. CASE Starts(c)
  <2>1. call[c] = NewCall /\ UseConnection(c, <<>>)
    BY <1>1, <1>4 DEF Starts, CallOK
  <2>2. /\ call'[c].sent = call[c].sent /\ call'[c].received = call[c].received
        /\ call'[c].statuses = call[c].statuses
    BY <2>1, <1>1 DEF UseConnection, NewCall, CallStates
  <2> QED BY <2>2, <1>3 DEF View
<1>5. CASE Signals(c)
  <2>1. PICK why \in MayStill(c) :
          LET r == [call[c] EXCEPT !.signal = why, !.bodyClosed = @ \/ why = "cancel"] IN
          IF call[c].at = "connecting" THEN call' = [call EXCEPT ![c] = r] /\ UNCHANGED iter
          ELSE Settle(c, abortOrUnknown(why), r)
    BY <1>5 DEF Signals
  <2> DEFINE shut == call[c].bodyClosed \/ why = "cancel"
             r == [call[c] EXCEPT !.signal = why, !.bodyClosed = shut]
  <2>2. /\ why \in {"deadline", "cancel"} /\ shut \in BOOLEAN
        /\ abortOrUnknown(why) \in Int /\ abortOrUnknown(why) # OK
    BY AbortIsCode DEF MayStill
  <2>3. call' = [call EXCEPT ![c] = r] \/ Settle(c, abortOrUnknown(why), r)
    BY <2>1
  <2> HIDE DEF shut
  <2>4. /\ r \in CallStates /\ r.sent = call[c].sent /\ r.received = call[c].received
        /\ r.statuses = call[c].statuses
    BY <2>2, <1>1 DEF CallStates
  <2>5. call[c].at # "done"
    BY <1>5 DEF Signals
  <2> HIDE DEF r
  <2>6. CASE call' = [call EXCEPT ![c] = r]
    <3>1. call'[c] = r
      BY <2>6, <1>1
    <3> QED BY <3>1, <2>4, <1>3 DEF View
  <2>7. CASE Settle(c, abortOrUnknown(why), r)
    BY <2>2, <2>4, <2>5, <2>7, <1>3, RpcFails
  <2> QED BY <2>3, <2>6, <2>7
<1>6. CASE AppSends(c)
  <2>1. PICK m \in Messages :
          call' = [call EXCEPT ![c].sent = Append(@, m), ![c].out = @ \o frame(m)]
    BY <1>6 DEF AppSends
  <2>2. /\ call'[c].sent = Append(call[c].sent, m) /\ call[c].at # "done"
        /\ call'[c].received = call[c].received /\ call'[c].statuses = call[c].statuses
    BY <2>1, <1>1, <1>6 DEF CallStates, AppSends
  <2>3. Rpc!Request(m)
    BY <2>2, <1>2, <1>3 DEF Rpc!Request, Outcome, Numbers
  <2> QED BY <2>3 DEF Rpc!RpcNext
<1>7. CASE AppHalfCloses(c)
  <2>1. /\ call'[c].sent = call[c].sent /\ call'[c].received = call[c].received
        /\ call'[c].statuses = call[c].statuses
    BY <1>1, <1>7 DEF AppHalfCloses, CallStates
  <2> QED BY <2>1, <1>3 DEF View
<1>8. CASE AppNext(c)
  BY <1>3, <1>8 DEF AppNext, View
<1> QED BY <1>4, <1>5, <1>6, <1>7, <1>8 DEF App

LEMMA RpcServer ==
  ASSUME StreamFacts, ServerTurn(Streaming)
  PROVE  [Rpc!RpcNext]_View
<1> DEFINE c == Streaming
<1>1. /\ call[c] \in CallStates /\ srv[c] \in StreamStates /\ CallOK(c)
      /\ srv \in [Calls -> StreamStates] /\ c \in Calls
  BY CallBytes DEF StreamFacts
<1>2. call' = call
  BY DEF ServerTurn, Opens, Polls, AnswersCall, EndsCall, Resets, clientVars
<1>3. CASE Opens(c)
  <2>1. srv'[c].seen = srv[c].seen /\ srv'[c].answers = srv[c].answers
    BY <1>1, <1>3 DEF Opens, StreamStates
  <2> QED BY <2>1, <1>2 DEF View
<1>4. CASE Polls(c)
  <2>1. PICK n \in 1..(Len(call[c].out) - srv[c].fed) :
          LET chunk == SubSeq(call[c].out, srv[c].fed + 1, srv[c].fed + n)
              limit == inspect(srv[c].limit, chunk, MaxMessage)
              s == [srv[c] EXCEPT !.fed = @ + n, !.limit = limit]
          IN srv' = [srv EXCEPT ![c] = IF limit.over THEN [s EXCEPT !.at = "limited"]
                                       ELSE [s EXCEPT !.seen = @ \o chunk]]
    BY <1>4 DEF Polls
  <2> DEFINE chunk == SubSeq(call[c].out, srv[c].fed + 1, srv[c].fed + n)
             limit == inspect(srv[c].limit, chunk, MaxMessage)
  <2>2. srv[c].at = "open" /\ ~srv[c].limit.over
    BY <1>4 DEF Polls, LimitInv, StreamFacts
  <2>3. /\ srv'[c].answers = srv[c].answers /\ srv'[c].limit = limit
        /\ limit.over => srv'[c].seen = srv[c].seen
        /\ ~limit.over => srv'[c].seen = srv[c].seen \o chunk
    BY <2>1, <1>1 DEF StreamStates
  <2>4. chunk \in Bytes
    <3>1. srv[c].fed \in Nat /\ n \in Nat /\ srv[c].fed + n <= Len(call[c].out)
          /\ srv[c].fed <= Len(call[c].out) /\ call[c].out \in Bytes
      BY <1>1, CallBytes DEF StreamFacts, StreamStates, CallOK
    <3> QED BY <3>1, BeginningIs
  <2> HIDE DEF chunk, limit
  <2>5. CASE limit.over
    BY <2>3, <2>5, <1>2 DEF View
  <2>6. CASE ~limit.over
    <3> DEFINE before == deframe_all(srv[c].seen)
               more == push(Unused(srv[c].seen), chunk).messages
               after == deframe_all(srv'[c].seen)
    <3>1. before \in Seq(Bytes) /\ more \in Seq(Bytes) /\ after = before \o more
      <4>1. srv[c].seen \in Bytes
        BY <1>1 DEF StreamStates
      <4> QED BY <4>1, <2>3, <2>4, <2>6, ParseInChunks, DeframeType
    <3>2. \E k \in 0..Len(call[c].sent) : k = Len(after) /\ after = SubSeq(call[c].sent, 1, k)
      BY <2>3, <2>6, <1>2 DEF StreamFacts, StreamInv
    <3> HIDE DEF before, more, after
    <3>3. CASE more = <<>>
      <4>1. after = before
        BY <3>1, <3>3, ConcatEmptySeq
      <4> QED BY <4>1, <2>3, <1>2 DEF View, before, after
    <3>4. CASE more # <<>>
      <4>1. Len(after) >= Len(before) + 1 /\ Len(before) \in Nat
        <5>1. Len(more) \in Nat \ {0}
          BY <3>1, <3>4, EmptySeq
        <5>2. Len(before \o more) = Len(before) + Len(more) /\ Len(before) \in Nat
          BY <3>1
        <5> QED BY <5>1, <5>2, <3>1
      <4>2. Len(call[c].sent) \in Nat
        BY <1>1 DEF CallStates
      <4>3. \E k \in (Len(before) + 1)..Len(call[c].sent) : after = SubSeq(call[c].sent, 1, k)
        BY <3>2, <4>1, <4>2
      <4>4. Rpc!Pull
        BY <4>3, <2>3, <1>2 DEF Rpc!Pull, before, after
      <4> QED BY <4>4 DEF Rpc!RpcNext
    <3> QED BY <3>3, <3>4
  <2> QED BY <2>5, <2>6
<1>5. CASE AnswersCall(c)
  <2>1. /\ srv'[c].seen = srv[c].seen /\ srv'[c].answers = srv[c].answers + 1 /\ srv[c].at = "open"
    BY <1>1, <1>5 DEF AnswersCall, StreamStates
  <2>2. Outcome(call[c].statuses) # <<"OK">>
    BY <2>1, <1>1, SucceedsAtEnd, StatusesAre DEF StreamFacts
  <2>3. Rpc!Answer
    BY <2>1, <2>2, <1>2 DEF Rpc!Answer, Outcome
  <2> QED BY <2>3 DEF Rpc!RpcNext
<1>6. CASE EndsCall(c)
  <2>1. srv'[c].seen = srv[c].seen /\ srv'[c].answers = srv[c].answers
    BY <1>1, <1>6 DEF EndsCall, StreamStates
  <2> QED BY <2>1, <1>2 DEF View
<1>7. CASE Resets(c)
  <2>1. srv'[c].seen = srv[c].seen /\ srv'[c].answers = srv[c].answers
    BY <1>1, <1>7 DEF Resets, StreamStates
  <2> QED BY <2>1, <1>2 DEF View
<1> QED BY <1>3, <1>4, <1>5, <1>6, <1>7 DEF ServerTurn

\* A stream over h2ts keeps the contract of a streaming call, whatever the other calls
\* do, whatever the chunks its bytes come in (h2ts-transport.ts stream, h2ts.rs): given
\* that there is one, and that the answers differ so that the mapping can number them.
THEOREM H2tsImplementsRpcStream ==
  ASSUME Numbered, \E c \in Calls : c \notin Unary
  PROVE  Spec => ImplementsRpcStream
<1>1. Streaming \in Calls /\ Streaming \notin Unary
  BY DEF Streaming
<1>2. Init => Rpc!RpcInit
  <2> SUFFICES ASSUME Init PROVE Rpc!RpcInit
    OBVIOUS
  <2>1. call[Streaming] = NewCall /\ srv[Streaming] = NoStream
    BY <1>1 DEF Init, ClientInit
  <2>2. deframe_all(<<>>) = <<>> /\ Numbers(<<>>) = <<>> /\ Outcome(<<>>) = <<>>
    BY ParseNothing DEF Numbers, Outcome
  <2> QED BY <2>1, <2>2 DEF Rpc!RpcInit, Numbers, Outcome, NewCall, NoStream
<1>3. TypeOK /\ CarriesInv(Streaming) /\ LimitInv(Streaming) => StreamInv(Streaming)
  BY <1>1, StreamInvIs
<1>4. /\ TypeOK /\ CauseInv(Streaming) /\ LimitInv(Streaming) /\ LimitInv(Streaming)'
      /\ StreamInv(Streaming) /\ StreamInv(Streaming)' /\ [Next]_vars
      => [Rpc!RpcNext]_(Rpc!rpcVars)
  <2> SUFFICES ASSUME StreamFacts, [Next]_vars PROVE [Rpc!RpcNext]_(Rpc!rpcVars)
    BY <1>1 DEF StreamFacts
  <2>1. CallStays(Streaming) => View' = View
    BY DEF CallStays, View
  <2>2. Turn(Streaming) \/ App(Streaming) \/ ServerTurn(Streaming) \/ CallStays(Streaming)
    BY <1>1, StepsOfCall DEF StreamFacts
  <2>3. [Rpc!RpcNext]_View
    BY <2>1, <2>2, RpcTurn, RpcApp, RpcServer
  <2> QED BY <2>3, ViewIs
<1>5. /\ (\A c \in Calls : CauseInv(c)) => CauseInv(Streaming)
      /\ (\A c \in Calls : LimitInv(c)) => LimitInv(Streaming)
      /\ (\A c \in Calls : CarriesInv(c)) => CarriesInv(Streaming)
  BY <1>1
<1>6. Spec => []TypeOK /\ []CauseInv(Streaming) /\ []LimitInv(Streaming) /\ []CarriesInv(Streaming)
  BY <1>5, H2tsTypeCorrect, CauseInvHolds, LimitInvHolds, CarriesInvHolds, PTL
<1>7. Spec => []StreamInv(Streaming)
  BY <1>3, <1>6, PTL
<1>8. Spec => [][Rpc!RpcNext]_(Rpc!rpcVars)
  BY <1>4, <1>6, <1>7, PTL DEF Spec
<1> QED BY <1>2, <1>8, PTL DEF Spec, ImplementsRpcStream, Rpc!RpcSpec
=============================================================================
