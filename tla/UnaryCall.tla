------------------------------ MODULE UnaryCall ------------------------------
(***************************************************************************)
(* A unary call over Fetch end to end: FetchClient, FetchServer, a         *)
(* connection that may break and an arbitrary backend, with what the call  *)
(* promises its application and its backend.                               *)
(***************************************************************************)
EXTENDS FetchClient

vars == <<serverVars, clientVars>>

LinkBreaks ==
  /\ fetching = "sent" /\ link = "up"
  /\ link' = "down"
  /\ UNCHANGED <<req, got, schema, handler, call, reply, response, timers, held, clientVars>>

Terminated == fetching = "settled" /\ handler.at \in {"done", "dropped"} /\ UNCHANGED vars

Server == fetching # "new" /\ (Handler \/ Backend \/ Tick) /\ UNCHANGED clientVars

Init == ServerInit /\ ClientInit
Next == Client \/ Server \/ LinkBreaks \/ Terminated

\* hyper drops what a closed connection was waiting for, timers fire, time passes.
Fairness ==
  /\ WF_vars(Dropped /\ UNCHANGED clientVars)
  /\ WF_vars((CallTimeout \/ BodyTimeout) /\ UNCHANGED clientVars)
  /\ WF_vars(Tick /\ UNCHANGED clientVars)
  /\ WF_vars(ClientSends \/ ClientReceives \/ ClientFails \/ DeadlineFires)

Spec == Init /\ [][Next]_vars /\ Fairness

-----------------------------------------------------------------------------
(* Properties                                                              *)

\* The handler's place fits the kind of request and the state of the call it makes.
InPlace ==
  /\ handler.at \in Before => call.at = "none"
  /\ handler.at = "lead" => Proto
  /\ handler.at = "body" => ~Proto
  /\ call.at = "called" <=> handler.at = "called"
  /\ call.at = "answered" <=> handler.at \in {"pumping", "collecting"}
  /\ handler.at = "pumping" => Proto
  /\ handler.at = "collecting" => ~Proto

\* Places, timers and counters stay in range (fetch.rs, the handler's state).
TypeOK ==
  /\ req \in Requests /\ got \in 0..Len(req.bytes)
  /\ link \in {"up", "down"} /\ schema \in Schemas
  /\ handler \in [at : HandlerStates, skip : {0, 1}, saw : BOOLEAN]
  /\ DOMAIN call = DOMAIN NoCall /\ call.at \in CallStates /\ call.fed \in BOOLEAN
  /\ Proto => call.request \in Bytes
  /\ InPlace
  /\ reply \in [headers : Codes, messages : Seq(Bytes), trailers : Codes, sent : Nat]
  /\ ReplyOK(reply) /\ reply.sent <= Len(Answer)
  /\ response \in Responses
  /\ timers \in [client : Unset..req.timeout, call : Unset..req.timeout]
  /\ held \in 0..HeldBound
  /\ fetching \in {"new", "sent", "settled"} /\ signal \in {"none", "deadline", "cancel"}
  /\ outcomes \in Seq(Outcomes) /\ Len(outcomes) <= 2

\* What the backend said: its message, and its status where it put one.
AnswerMessage == FlattenSeq(reply.messages)
AnswerCode ==
  LET said == {reply.trailers, reply.headers} \ {Unset} IN
  IF said = {} THEN OK ELSE CHOOSE code \in said : TRUE

\* A message reaches the application only if the backend sent it whole and ended
\* well: a response cut by a deadline, by a limit or by the network is never taken
\* for an answer (fetch.rs unary_proto's body, frame.ts takeBlock).
AnswerIsWhole ==
  \A k \in DOMAIN outcomes :
    outcomes[k].is = "value" =>
      call.at = "ended" /\ AnswerCode = OK /\ outcomes[k].message = AnswerMessage

\* What the application makes of an answer it should get: its status, or its message.
Expected(emptyJson) ==
  IF Len(response.body) > ClientMax THEN Fails(UNKNOWN)
  ELSE IF AnswerCode # OK THEN Fails(AnswerCode)
  ELSE IF AnswerMessage = <<>> /\ ~Proto /\ emptyJson THEN Fails(UNKNOWN)
  ELSE IF AnswerMessage \in Garbled THEN Fails(IF Proto THEN UNKNOWN ELSE INTERNAL)
  ELSE Value(AnswerMessage)

Undisturbed == link = "up" /\ signal = "none" /\ call.at = "ended" /\ outcomes # <<>>

\* Where nothing disturbs the call, the first outcome the application sees is what
\* the backend ended with: its status code, from the trailers or from the headers, or
\* its message. (fetch.rs, fetch-transport.ts; a JSON answer without fields apart.)
OutcomeIsBackends == Undisturbed => outcomes[1] = Expected(TRUE)

\* PROTOCOL.md: the body of a JSON response "is the bare JSON message". An OK answer
\* should then reach the application as an answer, the default message too.
EmptyIsAnswered == Undisturbed => outcomes[1] = Expected(FALSE)

\* A failure that is not the backend's status has a cause of its own: the first
\* outcome is a cancel, an expired deadline, a size over the limit or a request that
\* could not be made only where there was one (fetch.rs, fetch-transport.ts).
FailureHasCause ==
  outcomes # <<>> /\ outcomes[1].is = "error" /\ outcomes[1].code # AnswerCode =>
      LET c == outcomes[1].code IN
      /\ c = CANCELLED => signal = "cancel"
      /\ c = DEADLINE_EXCEEDED =>
           req.timeout > 0 /\ (signal = "deadline" \/ held >= req.timeout)
      /\ c = RESOURCE_EXHAUSTED => Len(req.bytes) > MaxMessage
      /\ c \in {INVALID_ARGUMENT, UNIMPLEMENTED} => call.at = "none" /\ ~Proto

-----------------------------------------------------------------------------
(* Routing                                                                 *)

\* A JSON request that reaches the backend reaches the method of the first binding
\* of its verb whose template its path matches, with the message that the path, the
\* query and the body give field by field; with no binding it reaches the method its
\* path names. (httprule.rs; PROTOCOL.md on REST bindings.)
RouteIsDeclared ==
  call.at # "none" /\ ~Proto =>
    IF Candidates(req.verb, req.parts) = {}
    THEN call.method = req.parts /\ call.request = req.json
    ELSE LET b == Chosen(req.verb, req.parts) IN
         /\ call.method = b.method
         /\ \A path \in DOMAIN Kinds :
              Get(call.request, path) = RouteMessage(b, req.parts, req.query, req.json)[path]

\* A protobuf request reaches the backend as the one message the client sent,
\* however its bytes arrived, and never one over the limit. (frame_upstream_request)
RequestIsWhole ==
  call.at # "none" /\ Proto /\ req.sdk =>
    /\ call.fed => deframe_all(call.request) = <<SubSeq(req.bytes, LenBytes + 1, Len(req.bytes))>>
    /\ Len(call.request) <= HeaderLen + MaxMessage

-----------------------------------------------------------------------------
(* Deadlines                                                               *)

\* The server waits for the backend one deadline for a JSON answer and for the
\* headers of a protobuf one, and at most one more for the body (fetch.rs, deadline_at).
DeadlineKept ==
  Live => held <= IF handler.at = "pumping" THEN 2 * req.timeout ELSE req.timeout

\* A call to the backend ends if it has a deadline, and whenever its client has
\* settled or gone (fetch.rs: "dropping the future cancels the call").
BackendReleased ==
  Live /\ (req.timeout > 0 \/ link = "down") ~> ~Live
=============================================================================
