----------------------------- MODULE H2tsClient ------------------------------
(***************************************************************************)
(* Calls over one HTTP/2 connection tunnelled in a WebSocket, at the       *)
(* client: H2tsTransport (h2ts-transport.ts), the calls made on it         *)
(* (client.ts) and the stream an application iterates over (call.ts).      *)
(* Every connection ever opened is in `conns`; the transport knows one.    *)
(* What the server has written on a call's HTTP/2 stream is `srv`.         *)
(* Listeners and deserializers are taken not to throw, and one consumer at *)
(* a time to iterate.                                                      *)
(***************************************************************************)
EXTENDS Framing, FiniteSets

CONSTANTS
  Calls, Unary,     \* the calls made on the transport, and which of them are unary
  Messages,         \* what applications send
  Workloads         \* bounds: calls made -> [sends, answers, after], messages each way on
                    \* a call, and the calls that are over before it is made

ASSUME CallsAssumption == Unary \subseteq Calls /\ \A w \in Workloads : DOMAIN w \subseteq Calls
\* A message is bytes, no longer than its length prefix can say.
ASSUME MessagesAssumption == \A m \in Messages : m \in Bytes /\ Fits(Len(m))

VARIABLES
  conns,      \* states of the connections, in the order they were opened
  current,    \* `connection`: the index of the cached one, or 0
  closed,     \* close() was called
  closing,    \* connections to be closed as soon as they are open
  call,       \* the calls
  work,       \* which of the workloads this is
  iter,       \* what the application's iterator has buffered and given out
  srv         \* the server's end of each HTTP/2 stream

clientVars == <<conns, current, closed, closing, call, work, iter>>

OK == 0   CANCELLED == 1   UNKNOWN == 2   DEADLINE_EXCEEDED == 4
RESOURCE_EXHAUSTED == 8   UNAVAILABLE == 14
Unset == -1

CallStates ==
  [at : {"idle", "connecting", "requesting", "reading", "done"}, conn : Nat,
   signal : {"none", "deadline", "cancel"}, bodyClosed : BOOLEAN, out : Bytes,
   sent : Seq(Messages), read : Nat, buf : Bytes, received : Seq(Bytes), statuses : Seq(Int)]
IterStates ==
  [buffer : Seq(Bytes), waiting : BOOLEAN, values : Seq(Bytes), over : {"no", "end", "error"}]

NewCall == [at |-> "idle", conn |-> 0, signal |-> "none", bodyClosed |-> FALSE, out |-> <<>>,
            sent |-> <<>>, read |-> 0, buf |-> <<>>, received |-> <<>>, statuses |-> <<>>]
NewIter == [buffer |-> <<>>, waiting |-> FALSE, values |-> <<>>, over |-> "no"]

ClientInit ==
  /\ conns = <<>> /\ current = 0 /\ closed = FALSE /\ closing = {}
  /\ call = [c \in Calls |-> NewCall]
  /\ iter = [c \in Calls |-> NewIter]
  /\ work \in Workloads

Conn(c) == IF call[c].conn = 0 THEN "none" ELSE conns[call[c].conn]
Over(c) == call[c].at = "done"

-----------------------------------------------------------------------------
(* Connections                                                             *)

\* conn(): the cached connection, in whatever state, or a new one.
UseConnection(c, first) ==
  LET k == IF current = 0 THEN Len(conns) + 1 ELSE current IN
  /\ conns' = IF current = 0 THEN Append(conns, "connecting") ELSE conns
  /\ current' = k
  /\ call' = [call EXCEPT ![c] = [@ EXCEPT !.at = "connecting", !.conn = k, !.sent = first,
                !.out = IF first = <<>> THEN <<>> ELSE frame(first[1]), !.bodyClosed = c \in Unary]]

\* A unary call has its request from the start, and its body is then whole.
Starts(c) ==
  /\ call[c].at = "idle" /\ c \in DOMAIN work /\ \A d \in work[c].after : Over(d)
  /\ \E first \in IF c \in Unary THEN {<<m>> : m \in Messages} ELSE {<<>>} : UseConnection(c, first)
  /\ UNCHANGED <<closed, closing, iter, work, srv>>

\* The tunnel is up, or cannot be had, or breaks.
ConnectionBecomes(from, to) ==
  /\ \E k \in DOMAIN conns : conns[k] = from /\ conns' = [conns EXCEPT ![k] = to]
  /\ UNCHANGED <<current, closed, closing, call, iter, work, srv>>
Connects == ConnectionBecomes("connecting", "open")
ConnectFails == ConnectionBecomes("connecting", "failed")
ConnectionDies == ConnectionBecomes("open", "failed")

Forget == current' = 0

\* Mutant of TransportCloses: a connection still being opened is only forgotten.
TransportClosesOpen ==
  /\ ~closed /\ closed' = TRUE
  /\ Forget
  /\ closing' = closing \cup {k \in DOMAIN conns : k = current /\ conns[k] = "open"}
  /\ UNCHANGED <<conns, call, iter, work, srv>>

\* close(): the connection is forgotten, and closed once its promise resolves.
TransportCloses ==
  /\ ~closed /\ closed' = TRUE
  /\ Forget
  /\ closing' = IF current = 0 THEN closing ELSE closing \cup {current}
  /\ UNCHANGED <<conns, call, iter, work, srv>>
ConnectionCloses ==
  /\ \E k \in closing :
       /\ conns[k] \in {"open", "failed"}
       /\ closing' = closing \ {k}
       /\ conns' = [conns EXCEPT ![k] = IF @ = "open" THEN "closed" ELSE @]
  /\ UNCHANGED <<current, closed, call, iter, work, srv>>

-----------------------------------------------------------------------------
(* The stream an application reads                                         *)

Final(code) == IF code = OK THEN "end" ELSE "error"

\* push(): messages go to the waiter, if there is one, and to the buffer.
PushAll(i, messages) ==
  IF messages = <<>> THEN i
  ELSE IF i.waiting
  THEN [i EXCEPT !.waiting = FALSE, !.values = Append(@, Head(messages)), !.buffer = Tail(messages)]
  ELSE [i EXCEPT !.buffer = @ \o messages]

\* Mutant of EndOf: only who asks later learns of the end.
EndOfSilent(i, code) == i

\* finish(), fail(): a waiter is woken; others learn of the end when they ask.
EndOf(i, code) ==
  IF i.waiting THEN [i EXCEPT !.waiting = FALSE, !.over = Final(code)] ELSE i

\* Mutant of NextResult: an error is surfaced before what is buffered.
ErrorFirst(i, statuses) ==
  CASE statuses # <<>> -> [i EXCEPT !.over = Final(statuses[1])]
    [] statuses = <<>> /\ i.buffer # <<>> ->
         [i EXCEPT !.buffer = Tail(@), !.values = Append(@, Head(i.buffer))]
    [] OTHER -> [i EXCEPT !.waiting = TRUE]

\* What next() gives, at once or later: what is buffered, then the end or the error.
NextResult(i, statuses) ==
  CASE i.buffer # <<>> -> [i EXCEPT !.buffer = Tail(@), !.values = Append(@, Head(i.buffer))]
    [] i.buffer = <<>> /\ statuses # <<>> -> [i EXCEPT !.over = Final(statuses[1])]
    [] OTHER -> [i EXCEPT !.waiting = TRUE]

AppNext(c) ==
  /\ c \notin Unary /\ call[c].at # "idle"
  /\ ~iter[c].waiting /\ iter[c].over = "no"
  /\ iter' = [iter EXCEPT ![c] = NextResult(@, call[c].statuses)]
  /\ UNCHANGED <<conns, current, closed, closing, call, work, srv>>

-----------------------------------------------------------------------------
(* A call                                                                  *)

\* onStatus, or the callback of a unary call: the call is over.
Settle(c, code, r) ==
  /\ call' = [call EXCEPT ![c] = [r EXCEPT !.at = "done", !.statuses = Append(@, code)]]
  /\ iter' = [iter EXCEPT ![c] = EndOf(@, code)]

\* Mutant of abortOrUnknown: it does not ask why the call was aborted.
abortOrUnknownCancel(signal) == IF signal = "none" THEN UNKNOWN ELSE CANCELLED

abortOrUnknown(signal) ==
  CASE signal = "none" -> UNKNOWN
    [] signal = "deadline" -> DEADLINE_EXCEEDED
    [] signal = "cancel" -> CANCELLED
Fails(c) == Settle(c, abortOrUnknown(call[c].signal), call[c])

\* The connection's promise resolves: the request goes out, unless it was aborted.
IssuesRequest(c) ==
  /\ call[c].at = "connecting" /\ Conn(c) = "open"
  /\ IF call[c].signal # "none" THEN Fails(c)
     ELSE call' = [call EXCEPT ![c].at = "requesting"] /\ UNCHANGED iter
  /\ UNCHANGED <<conns, current, closed, closing, work, srv>>

\* Mutant of Breaks: a failure to connect goes unnoticed.
BreaksLater(c) ==
  /\ call[c].at \in {"requesting", "reading"}
  /\ Conn(c) \in {"failed", "closed"} \/ srv[c].at = "reset"
  /\ Fails(c)
  /\ UNCHANGED <<conns, current, closed, closing, work, srv>>

\* Mutant of Breaks: a call that is over fails once more with its connection.
BreaksAgain(c) ==
  /\ Conn(c) \in {"failed", "closed"} \/ srv[c].at = "reset"
  /\ Fails(c)
  /\ UNCHANGED <<conns, current, closed, closing, work, srv>>

\* The connection, or the HTTP/2 stream, has failed.
Breaks(c) ==
  /\ \/ call[c].at \in {"connecting", "requesting", "reading"} /\ Conn(c) \in {"failed", "closed"}
     \/ call[c].at \in {"requesting", "reading"} /\ srv[c].at = "reset"
  /\ Fails(c)
  /\ UNCHANGED <<conns, current, closed, closing, work, srv>>

\* A cancelled stream has an abort of its own: the deadline can still come after it,
\* and then has the last word.
MayStill(c) ==
  CASE call[c].signal = "none" -> {"deadline", "cancel"}
    [] call[c].signal = "cancel" /\ c \notin Unary -> {"deadline"}
    [] OTHER -> {}

\* The deadline, or a cancel, which also closes the request body. While the
\* connection is awaited it is only noted.
Signals(c) ==
  /\ call[c].at \in {"connecting", "requesting", "reading"}
  /\ \E why \in MayStill(c) :
       LET r == [call[c] EXCEPT !.signal = why, !.bodyClosed = @ \/ why = "cancel"] IN
       IF call[c].at = "connecting" THEN call' = [call EXCEPT ![c] = r] /\ UNCHANGED iter
       ELSE Settle(c, abortOrUnknown(why), r)
  /\ UNCHANGED <<conns, current, closed, closing, work, srv>>

AppSends(c) ==
  /\ call[c].at \notin {"idle", "done"} /\ ~call[c].bodyClosed /\ Len(call[c].sent) < work[c].sends
  /\ \E m \in Messages :
       call' = [call EXCEPT ![c].sent = Append(@, m), ![c].out = @ \o frame(m)]
  /\ UNCHANGED <<conns, current, closed, closing, iter, work, srv>>
AppHalfCloses(c) ==
  /\ call[c].at \notin {"idle", "done"} /\ ~call[c].bodyClosed
  /\ call' = [call EXCEPT ![c].bodyClosed = TRUE]
  /\ UNCHANGED <<conns, current, closed, closing, iter, work, srv>>

GetsHeaders(c) ==
  /\ call[c].at = "requesting" /\ Conn(c) = "open" /\ srv[c].headers
  /\ call' = [call EXCEPT ![c].at = "reading"]
  /\ UNCHANGED <<conns, current, closed, closing, iter, work, srv>>

Unread(c) == Len(srv[c].wrote) - call[c].read

\* The next n bytes, parsed; a unary call keeps its body for the end.
Parse(c, n) ==
  LET chunk == SubSeq(srv[c].wrote, call[c].read + 1, call[c].read + n) IN
  IF c \in Unary THEN [messages |-> <<>>, buf |-> call[c].buf \o chunk]
  ELSE push(call[c].buf, chunk)

\* reader.read(), one chunk.
Reads(c) ==
  /\ call[c].at = "reading" /\ Conn(c) = "open"
  /\ \E n \in 1..Unread(c) :
       /\ call' = [call EXCEPT ![c] = [call[c] EXCEPT !.read = @ + n, !.buf = Parse(c, n).buf,
                      !.received = @ \o Parse(c, n).messages]]
       /\ iter' = IF c \in Unary THEN iter
                   ELSE [iter EXCEPT ![c] = PushAll(@, Parse(c, n).messages)]
  /\ UNCHANGED <<conns, current, closed, closing, work, srv>>

httpToStatus(http) == IF http = 503 THEN UNAVAILABLE ELSE UNKNOWN

\* Mutant of statusFromResponse: trailers only.
statusFromTrailers(end) == IF end.trailers # Unset THEN end.trailers ELSE OK

\* The trailers, else the headers, else the HTTP status.
statusFromResponse(end) ==
  CASE end.trailers # Unset -> end.trailers
    [] end.trailers = Unset /\ end.headers # Unset -> end.headers
    [] OTHER -> IF end.http = 200 THEN OK ELSE httpToStatus(end.http)

\* A unary call takes the first message of its body, or an empty one.
ReadsEnd(c) ==
  /\ call[c].at = "reading" /\ Conn(c) = "open" /\ Unread(c) = 0 /\ srv[c].at = "ended"
  /\ LET messages == deframe_all(call[c].buf)
         first == IF messages = <<>> THEN <<>> ELSE messages[1]
     IN Settle(c, statusFromResponse(srv[c].end),
               IF c \in Unary THEN [call[c] EXCEPT !.received = <<first>>] ELSE call[c])
  /\ UNCHANGED <<conns, current, closed, closing, work, srv>>

-----------------------------------------------------------------------------
\* A turn of a call that the browser owes; the application's turns; the network's.
Turn(c) == IssuesRequest(c) \/ Breaks(c) \/ GetsHeaders(c) \/ Reads(c) \/ ReadsEnd(c)
App(c) == Starts(c) \/ Signals(c) \/ AppSends(c) \/ AppHalfCloses(c) \/ AppNext(c)
Connection == Connects \/ ConnectFails \/ ConnectionDies \/ ConnectionCloses
=============================================================================
