------------------------------ MODULE H2tsCalls ------------------------------
(***************************************************************************)
(* Calls over the h2ts tunnel end to end. The server is tonic, external,   *)
(* reached in process through the size limit of h2ts.rs. HTTP/2 keeps the  *)
(* bytes of a stream in order and is otherwise external.                   *)
(***************************************************************************)
EXTENDS H2tsClient

CONSTANTS
  MaxMessage,   \* max_message_bytes
  Answers,      \* what the backend answers, in order
  Endings       \* [trailers, headers, http]: how it may end

ASSUME LimitAssumption == MaxMessage \in Nat
\* The backend's messages fit their length too, and there are enough of them.
ASSUME AnswersAssumption ==
  /\ Answers \in Seq(Bytes) /\ \A k \in DOMAIN Answers : Fits(Len(Answers[k]))
  /\ \A w \in Workloads : \A c \in DOMAIN w : w[c].answers \in 0..Len(Answers)
\* tonic says OK in its trailers only: without them it fails in its headers, or in HTTP.
ASSUME EndingsAssumption ==
  /\ Endings \subseteq [trailers : Int, headers : Int, http : Int]
  /\ \A end \in Endings :
       end.trailers = Unset => end.headers # OK /\ (end.headers = Unset => end.http # 200)

vars == <<clientVars, srv>>

NoEnd == [trailers |-> Unset, headers |-> Unset, http |-> 200]
NoStream == [at |-> "none", fed |-> 0, limit |-> NoLimitYet, seen |-> <<>>,
             headers |-> FALSE, wrote |-> <<>>, answers |-> 0, end |-> NoEnd]

StreamStates ==
  [at : {"none", "open", "limited", "ended", "reset"}, fed : Nat, limit : LimitState,
   seen : Bytes, headers : BOOLEAN, wrote : Bytes, answers : Nat,
   end : [trailers : Int, headers : Int, http : Int]]

Serving(c) == srv[c].at \in {"open", "limited"}

-----------------------------------------------------------------------------
(* The server                                                              *)

Opens(c) ==
  /\ srv[c].at = "none" /\ call[c].at = "requesting" /\ Conn(c) = "open"
  /\ srv' = [srv EXCEPT ![c].at = "open"]
  /\ UNCHANGED clientVars

\* One chunk of the request body, of any size: passed on, or refused whole.
Polls(c) ==
  /\ srv[c].at = "open" /\ Conn(c) = "open"
  /\ \E n \in 1..(Len(call[c].out) - srv[c].fed) :
       LET chunk == SubSeq(call[c].out, srv[c].fed + 1, srv[c].fed + n)
           limit == inspect(srv[c].limit, chunk, MaxMessage)
           s == [srv[c] EXCEPT !.fed = @ + n, !.limit = limit]
       IN srv' = [srv EXCEPT ![c] = IF limit.over THEN [s EXCEPT !.at = "limited"]
                                    ELSE [s EXCEPT !.seen = @ \o chunk]]
  /\ UNCHANGED clientVars

AnswersCall(c) ==
  /\ srv[c].at = "open" /\ Conn(c) = "open"
  /\ srv[c].answers < work[c].answers
  /\ srv' = [srv EXCEPT ![c] = [srv[c] EXCEPT !.headers = TRUE, !.answers = @ + 1,
               !.wrote = @ \o frame(Answers[srv[c].answers + 1])]]
  /\ UNCHANGED clientVars

\* Trailers, or headers alone. A request over the limit ends in the limit's status.
EndsCall(c) ==
  /\ Serving(c) /\ Conn(c) = "open"
  /\ \E end \in Endings :
       /\ srv[c].at = "limited" => end.trailers = RESOURCE_EXHAUSTED
       /\ (srv[c].headers => end.headers = Unset) /\ (srv[c].headers => end.http = 200)
       /\ (c \in Unary /\ end.trailers = OK) => srv[c].answers = 1
       /\ srv' = [srv EXCEPT ![c] = [@ EXCEPT !.at = "ended", !.headers = TRUE, !.end = end]]
  /\ UNCHANGED clientVars

\* The stream is reset by the server, by a client that has aborted, or with its connection.
Resets(c) ==
  /\ Serving(c)
  /\ srv' = [srv EXCEPT ![c].at = "reset"]
  /\ UNCHANGED clientVars

Aborted(c) == call[c].signal # "none" /\ Over(c)
LearnsOfAbort(c) == (Aborted(c) \/ Conn(c) \in {"failed", "closed"}) /\ Resets(c)

-----------------------------------------------------------------------------
Init == ClientInit /\ srv = [c \in Calls |-> NoStream]

ServerTurn(c) == Opens(c) \/ Polls(c) \/ AnswersCall(c) \/ EndsCall(c) \/ Resets(c)

Terminated ==
  /\ closed /\ closing = {} /\ \A c \in DOMAIN work : Over(c) /\ ~Serving(c)
  /\ UNCHANGED vars

Next ==
  \/ \E c \in Calls : Turn(c) \/ App(c) \/ ServerTurn(c)
  \/ Connection \/ TransportCloses
  \/ Terminated

\* Attempts to connect end, the browser runs its turns, resets arrive.
Fairness ==
  /\ WF_vars(Connects \/ ConnectFails) /\ WF_vars(ConnectionCloses)
  /\ \A c \in Calls : WF_vars(Turn(c)) /\ WF_vars(LearnsOfAbort(c))

Spec == Init /\ [][Next]_vars /\ Fairness

-----------------------------------------------------------------------------
(* Properties                                                              *)

\* What a call and its stream at the server have to do with each other, and with the
\* connections: nothing is read or fed that was not written, and a call ends once.
CallOK(c) ==
  /\ call[c].conn \in 0..Len(conns)
  /\ call[c].at = "idle" => call[c] = NewCall /\ srv[c].at = "none"
  /\ call[c].at # "idle" => call[c].conn # 0 /\ c \in DOMAIN work
  /\ Len(call[c].statuses) <= 1 /\ (call[c].at = "done" <=> call[c].statuses # <<>>)
  /\ srv[c].at = "none" => srv[c] = NoStream
  /\ srv[c].fed <= Len(call[c].out) /\ call[c].read <= Len(srv[c].wrote)
  /\ c \in DOMAIN work => srv[c].answers <= work[c].answers

\* The states of the transport, its calls and their streams (h2ts-transport.ts, h2ts.rs).
TypeOK ==
  /\ conns \in Seq({"connecting", "open", "failed", "closed"}) /\ current \in 0..Len(conns)
  /\ closed \in BOOLEAN /\ closing \subseteq DOMAIN conns /\ work \in Workloads
  /\ call \in [Calls -> CallStates] /\ iter \in [Calls -> IterStates]
  /\ srv \in [Calls -> StreamStates]
  /\ \A c \in Calls : CallOK(c)

\* However the request is cut into chunks, the backend is refused a message that
\* declares more than the limit, and nothing else (h2ts.rs GrpcSizeLimit::inspect).
LimitIsExact ==
  \A c \in Calls :
    LET fed == SubSeq(call[c].out, 1, srv[c].fed) IN
    /\ srv[c].limit.over <=> DeclaresOver(fed, MaxMessage)
    /\ ~srv[c].limit.over => srv[c].seen = fed
    /\ srv[c].limit.over => ~DeclaresOver(srv[c].seen, MaxMessage)

\* An application that iterates gets the messages in order, every one of them before
\* an end, and an end only for OK (call.ts: "Deliver any buffered messages before
\* surfacing an error/end").
IteratorIsWhole ==
  \A c \in Calls \ Unary :
    LET i == iter[c] IN
    /\ i.values \o i.buffer = call[c].received
    /\ i.over # "no" =>
         i.buffer = <<>> /\ call[c].statuses # <<>> /\ i.over = Final(call[c].statuses[1])

\* A unary call that succeeds has the backend's message, and the backend ended well
\* (h2ts-transport.ts unary).
UnaryIsWhole ==
  \A c \in Unary :
    call[c].statuses = <<OK>> =>
      srv[c].at = "ended" /\ srv[c].end.trailers = OK /\ call[c].received = <<Answers[1]>>

\* A call fails as cancelled or late only if it was, and as the backend's failure only
\* if the backend said so (abortOrUnknown, statusFromResponse).
FailureHasCause ==
  \A c \in Calls : call[c].statuses # <<>> =>
    LET s == call[c].statuses[1]
        said == {srv[c].end.trailers, srv[c].end.headers}
    IN /\ (s = CANCELLED /\ s \notin said) => call[c].signal = "cancel"
       /\ (s = DEADLINE_EXCEEDED /\ s \notin said) => call[c].signal = "deadline"
       /\ (s = UNKNOWN /\ s \notin said) =>
            call[c].signal = "none" /\ (Conn(c) # "open" \/ srv[c].at = "reset" \/ srv[c].end.http # 200)

-----------------------------------------------------------------------------
\* The streaming call of RpcStream, carried by the tunnel.
Streaming == CHOOSE c \in Calls : c \notin Unary
NumberOf(m) == CHOOSE k \in DOMAIN Answers : Answers[k] = m
Rpc == INSTANCE RpcStream WITH
  Requests <- Messages, Outcomes <- {"OK", "error"},
  requests <- call[Streaming].sent,
  pulled <- deframe_all(srv[Streaming].seen),
  answers <- srv[Streaming].answers,
  received <- [k \in DOMAIN call[Streaming].received |-> NumberOf(call[Streaming].received[k])],
  outcome <- [k \in DOMAIN call[Streaming].statuses |->
                IF call[Streaming].statuses[k] = OK THEN "OK" ELSE "error"]

\* A stream over h2ts keeps the contract of a streaming call: prefixes on both sides,
\* one status, nothing after it, OK only for the whole answer.
ImplementsRpcStream == Rpc!RpcSpec

\* A call whose deadline has passed, that is cancelled, or whose connection has failed
\* is over in the end, and so is its stream at the server.
CallsSettle ==
  \A c \in Calls :
    (call[c].signal # "none" \/ Conn(c) \in {"failed", "closed"}) ~> (Over(c) /\ ~Serving(c))

\* A next() that waits is answered once the call is over.
NextResolves == \A c \in Calls \ Unary : (iter[c].waiting /\ Over(c)) ~> ~iter[c].waiting

Gone(k) == conns[k] \in {"failed", "closed"}

\* close() closes the connection it finds and forgets, even one still being opened
\* (a connection opened by a later call is cached again, and stays: H2tsTransport.close).
Forgotten(k) == closed /\ k \in DOMAIN conns /\ k # current
CloseCloses == \A k \in 1..Cardinality(Calls) : Forgotten(k) ~> (k \in DOMAIN conns /\ Gone(k))
=============================================================================
