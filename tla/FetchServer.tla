----------------------------- MODULE FetchServer -----------------------------
(***************************************************************************)
(* One unary call over Fetch at the server (src/rust/crates/grpc-webnext/  *)
(* src/fetch.rs): a protobuf call is streamed through, a JSON or REST call *)
(* is buffered and transcoded. The client's connection (`link`) and the    *)
(* backend are external. A timer is the time it has left; time passes      *)
(* (Tick) only while no timer is due.                                      *)
(***************************************************************************)
EXTENDS Framing, HttpRule

CONSTANTS
  Requests,       \* [sdk, ct, verb, parts, query, json, bytes, timeout] (0: no deadline)
  Schemas,        \* what a call may find: "none", "loading" or "loaded"
  KnownMethods,   \* paths of the methods in the schema
  ImplicitCodec,  \* allow_implicit_codec
  MaxMessage,     \* max_message_bytes
  Replies,        \* [headers, messages, trailers]: grpc-status in each, or Unset
  Garbled         \* messages that do not decode

VARIABLES
  req, got,       \* the request, and how much of its body has been read
  link,           \* "up" until the client aborts or the network breaks
  schema, handler, call, reply, response,
  timers, held    \* time left; time the backend call has been waited for

serverVars == <<req, got, link, schema, handler, call, reply, response, timers, held>>

Unset == -1
OK == 0   CANCELLED == 1   UNKNOWN == 2   INVALID_ARGUMENT == 3   DEADLINE_EXCEEDED == 4
RESOURCE_EXHAUSTED == 8   UNIMPLEMENTED == 12   INTERNAL == 13   UNAVAILABLE == 14

Proto == req.ct = "proto"
Live == call.at \in {"called", "answered"}

ASSUME RequestsAssumption ==
  \A r \in Requests :
    /\ r.sdk \in BOOLEAN /\ r.ct \in {"proto", "json", "plain", "other"}
    /\ r.verb \in STRING /\ r.parts \in Names /\ r.query \in Pairs
    /\ r.json = Bad \/ IsMessage(r.json)
    /\ r.bytes \in Bytes /\ r.timeout \in Nat
    /\ r.sdk => r.ct \in {"proto", "json"}
    /\ r.sdk /\ r.ct = "proto" =>   \* encodeRequestBody: one block
         LET m == SubSeq(r.bytes, LenBytes + 1, Len(r.bytes)) IN
         r.bytes = block(m) /\ Fits(Len(m))

\* What a gRPC backend answers to a unary call: a status at most once, in the
\* headers if nothing follows them, and at most one message.
Codes == {Unset} \cup Byte
ReplyOK(r) ==
  /\ r.headers \in Codes /\ r.trailers \in Codes /\ Unset \in {r.headers, r.trailers}
  /\ r.messages \in Seq(Bytes) /\ Len(r.messages) <= 1
  /\ \A k \in DOMAIN r.messages : Fits(Len(r.messages[k]))

ASSUME RepliesAssumption == \A r \in Replies : ReplyOK(r)
ASSUME GarbledAssumption == <<>> \notin Garbled   \* no bytes are the default message
ASSUME MaxMessageAssumption == MaxMessage \in Nat

\* JSON text of a message, as bytes: never empty.
Json(m) == <<123>> \o m \o <<125>>

NoCall == [at |-> "none", method |-> <<>>, request |-> <<>>, fed |-> FALSE]
NoReply == [headers |-> Unset, messages |-> <<>>, trailers |-> Unset, sent |-> 0]
NoResponse == [http |-> Unset, status |-> Unset, body |-> <<>>, eof |-> "open"]

HandlerStates == {"idle", "schema", "lead", "body", "called", "pumping", "collecting", "done", "dropped"}
Before == {"idle", "schema", "lead", "body"}
CallStates == {"none", "called", "answered", "ended", "refused", "broken", "dropped"}
Responses == [http : {Unset, 200, 400, 413, 415}, status : Codes, body : Bytes,
              eof : {"open", "end", "error"}]

-----------------------------------------------------------------------------
(* Responses                                                               *)

Whole(http, status, body) == [http |-> http, status |-> status, body |-> body, eof |-> "end"]
text_response(http) == Whole(http, Unset, <<>>)
json_fetch_response(code, m) == Whole(200, code, IF code = OK THEN m ELSE <<>>)
fetch_status(code) == Whole(200, Unset, encode_response_body(<<>>, code))
webnext_error(code) == IF Proto THEN fetch_status(code) ELSE json_fetch_response(code, <<>>)

\* Mutant of read_status: a trailers-only answer is not looked for.
read_status_trailers(trailers, headers) == IF trailers = Unset THEN OK ELSE trailers

\* The status of the trailers, or of the headers (a trailers-only answer), or OK.
read_status(trailers, headers) ==
  CASE trailers # Unset -> trailers
    [] trailers = Unset /\ headers # Unset -> headers
    [] OTHER -> OK

\* The handler answers and is done; the call it may have made is over or dropped.
Finish(r, callAt) ==
  /\ handler' = [handler EXCEPT !.at = "done"]
  /\ response' = r
  /\ call' = [call EXCEPT !.at = callAt]
  /\ timers' = [timers EXCEPT !.call = Unset]
  /\ UNCHANGED <<req, link, schema, held>>

Refuse(r) == Finish(r, "none") /\ UNCHANGED reply

-----------------------------------------------------------------------------
(* Arrival: the schema may have to be waited for, with no deadline.        *)

Stand(at) == handler' = [handler EXCEPT !.at = at]

\* A protobuf call goes on without a schema, but not to an annotated path.
BeginProto(loaded) ==
  IF loaded /\ match_ws(req.parts).ok THEN Refuse(text_response(415))
  ELSE Stand("lead") /\ UNCHANGED <<req, link, schema, call, reply, response, timers, held>>

Begin(loaded, code) ==
  /\ UNCHANGED got
  /\ CASE Proto -> BeginProto(loaded)
       [] ~Proto /\ loaded ->
            Stand("body") /\ UNCHANGED <<req, link, schema, call, reply, response, timers, held>>
       [] OTHER -> Refuse(webnext_error(code))

Arrive ==
  /\ handler.at = "idle" /\ link = "up"
  /\ CASE req.ct = "other" -> Refuse(text_response(415)) /\ UNCHANGED got
       [] req.ct # "other" /\ schema = "loading" ->
            Stand("schema") /\ UNCHANGED <<req, got, link, schema, call, reply, response, timers, held>>
       [] OTHER -> Begin(schema = "loaded", UNIMPLEMENTED)

SchemaArrives == handler.at = "schema" /\ Begin(TRUE, OK)
SchemaGivesUp == handler.at = "schema" /\ Begin(FALSE, UNAVAILABLE)

-----------------------------------------------------------------------------
(* Reading the request                                                     *)

Left == Len(req.bytes) - got
Lead(n) == got' = got + n /\ n \in 1..Left

\* The local deadline starts here; the call is dropped when it is due.
Dispatch(method, request, fed) ==
  /\ Stand("called")
  /\ call' = [at |-> "called", method |-> method, request |-> request, fed |-> fed]
  /\ timers' = [timers EXCEPT !.call = IF req.timeout = 0 THEN Unset ELSE req.timeout]
  /\ UNCHANGED <<req, link, schema, reply, response, held>>

\* Mutant of FrameLead: message bytes that came along with the length are lost.
FrameLeadOnly ==
  LET lead == SubSeq(req.bytes, 1, got') IN
  IF Len(lead) < LenBytes
  THEN UNCHANGED <<req, link, schema, handler, call, reply, response, timers, held>>
  ELSE IF uint(SubSeq(lead, 1, LenBytes)) > MaxMessage THEN Refuse(text_response(413))
  ELSE Dispatch(req.parts, <<0>> \o SubSeq(lead, 1, LenBytes), FALSE)

\* frame_upstream_request: the length decides, then all is passed on behind a flag byte.
FrameLead ==
  LET lead == SubSeq(req.bytes, 1, got') IN
  IF Len(lead) < LenBytes
  THEN UNCHANGED <<req, link, schema, handler, call, reply, response, timers, held>>
  ELSE IF uint(SubSeq(lead, 1, LenBytes)) > MaxMessage THEN Refuse(text_response(413))
  ELSE Dispatch(req.parts, <<0>> \o lead, FALSE)

ReadLead == handler.at = "lead" /\ \E n \in 1..Left : Lead(n) /\ FrameLead
LeadEnds ==
  /\ handler.at = "lead" /\ (Left = 0 \/ link = "down")
  /\ Refuse(text_response(400)) /\ UNCHANGED got

\* Mutant of ReadBody: the limit itself is refused.
ReadBodyStrict ==
  /\ handler.at = "body"
  /\ \E n \in 1..Left :
       /\ Lead(n)
       /\ IF got' >= MaxMessage THEN Refuse(webnext_error(RESOURCE_EXHAUSTED))
          ELSE UNCHANGED <<req, link, schema, handler, call, reply, response, timers, held>>

\* collect_bounded
ReadBody ==
  /\ handler.at = "body"
  /\ \E n \in 1..Left :
       /\ Lead(n)
       /\ IF got' > MaxMessage THEN Refuse(webnext_error(RESOURCE_EXHAUSTED))
          ELSE UNCHANGED <<req, link, schema, handler, call, reply, response, timers, held>>
BodyCut ==
  /\ handler.at = "body" /\ link = "down"
  /\ Refuse(webnext_error(INTERNAL)) /\ UNCHANGED got

\* The main path of a method, for the SDK's JSON or, with the flag, any JSON.
MainPath ==
  LET allowed == req.ct # "plain" \/ ImplicitCodec
      message == deserialize_message(req.json, <<>>)
  IN CASE ~allowed -> Refuse(text_response(415))
       [] allowed /\ req.parts \notin KnownMethods -> Refuse(webnext_error(UNIMPLEMENTED))
       [] allowed /\ req.parts \in KnownMethods /\ message = Bad ->
            Refuse(webnext_error(INVALID_ARGUMENT))
       [] OTHER -> Dispatch(req.parts, message, TRUE)

json_fetch ==
  /\ handler.at = "body" /\ Left = 0
  /\ UNCHANGED got
  /\ LET t == transcode(req.verb, req.parts, req.query, req.json) IN
     CASE t.is = "bad" -> Refuse(webnext_error(INVALID_ARGUMENT))
       [] t.is = "call" -> Dispatch(t.method, t.message, TRUE)
       [] t.is = "none" -> MainPath

-----------------------------------------------------------------------------
(* The call                                                                *)

\* The backend pulls the rest of a protobuf request while the call goes on.
Forward ==
  /\ Live /\ ~call.fed
  /\ \E n \in 1..Left :
       Lead(n) /\ call' = [call EXCEPT !.request = @ \o SubSeq(req.bytes, got + 1, got + n)]
  /\ UNCHANGED <<req, link, schema, handler, reply, response, timers, held>>
ForwardEnds ==
  /\ Live /\ ~call.fed /\ Left = 0
  /\ call' = [call EXCEPT !.fed = TRUE]
  /\ UNCHANGED <<req, got, link, schema, handler, reply, response, timers, held>>

BackendRefuses ==
  /\ call.at = "called"
  /\ Finish(webnext_error(UNAVAILABLE), "refused") /\ UNCHANGED <<got, reply>>

\* Mutant of BodyDeadline: none.
NoBodyDeadline == Unset

\* The local deadline of a protobuf response, counted from its headers.
BodyDeadline == IF req.timeout = 0 THEN Unset ELSE req.timeout

\* Response headers. A protobuf call is answered at once, under a second full deadline.
BackendAnswers ==
  /\ call.at = "called"
  /\ \E r \in Replies :
       reply' = [headers |-> r.headers, messages |-> r.messages, trailers |-> r.trailers, sent |-> 0]
  /\ call' = [call EXCEPT !.at = "answered"]
  /\ IF Proto
     THEN /\ Stand("pumping")
          /\ response' = [response EXCEPT !.http = 200]
          /\ timers' = [timers EXCEPT !.call = BodyDeadline]
     ELSE Stand("collecting") /\ UNCHANGED <<response, timers>>
  /\ UNCHANGED <<req, got, link, schema, held>>

Answer == FlattenSeq([k \in DOMAIN reply.messages |-> frame(reply.messages[k])])

\* The flag byte is dropped, what follows is passed on as it comes.
BackendSends ==
  /\ call.at = "answered"
  /\ \E n \in 1..(Len(Answer) - reply.sent) :
       LET data == SubSeq(Answer, reply.sent + 1, reply.sent + n)
           rest == SubSeq(data, handler.skip + 1, n)
       IN /\ reply' = [reply EXCEPT !.sent = @ + n]
          /\ IF Proto
             THEN /\ handler' = [handler EXCEPT !.skip = 0, !.saw = @ \/ rest # <<>>]
                  /\ response' = [response EXCEPT !.body = @ \o rest]
             ELSE UNCHANGED <<handler, response>>
  /\ UNCHANGED <<req, got, link, schema, call, timers, held>>

\* The trailer block that closes a protobuf response, after an empty message if none came.
Closed(code) ==
  [response EXCEPT !.body = @ \o (IF handler.saw THEN <<>> ELSE block(<<>>)) \o encode_trailer_block(code),
                   !.eof = "end"]

Transcoded(code) ==
  LET messages == deframe_all(Answer)
      m == IF messages = <<>> THEN <<>> ELSE messages[1]
  IN CASE code = OK /\ m # <<>> /\ m \in Garbled -> webnext_error(INTERNAL)
       [] code = OK /\ m # <<>> /\ m \notin Garbled -> json_fetch_response(OK, Json(m))
       [] OTHER -> json_fetch_response(code, <<>>)

BackendEnds ==
  /\ call.at = "answered" /\ reply.sent = Len(Answer)
  /\ LET code == read_status(reply.trailers, reply.headers) IN
     Finish(IF Proto THEN Closed(code) ELSE Transcoded(code), "ended")
  /\ UNCHANGED <<got, reply>>

BackendBreaks ==
  /\ call.at = "answered"
  /\ Finish(IF Proto THEN [response EXCEPT !.eof = "error"] ELSE webnext_error(UNAVAILABLE), "broken")
  /\ UNCHANGED <<got, reply>>

-----------------------------------------------------------------------------
(* Deadlines, and the client's leaving                                     *)

Due == timers.call = 0

\* Mutant of CallTimeout: the call goes on after its deadline.
CallTimeoutDetached ==
  /\ Due /\ handler.at \in {"called", "collecting"}
  /\ Finish(webnext_error(DEADLINE_EXCEEDED), call.at) /\ UNCHANGED <<got, reply>>

\* In establishing a protobuf call, or anywhere in a JSON one.
CallTimeout ==
  /\ Due /\ handler.at \in {"called", "collecting"}
  /\ Finish(webnext_error(DEADLINE_EXCEEDED), "dropped") /\ UNCHANGED <<got, reply>>

\* Mutant of BodyTimeout: the trailer block is sent whatever came before it.
BodyTimeoutTrailer ==
  /\ Due /\ handler.at = "pumping"
  /\ Finish(Closed(read_status(reply.trailers, reply.headers)), "dropped") /\ UNCHANGED <<got, reply>>

\* In a protobuf response: once part of a message is out no status can follow.
BodyTimeout ==
  /\ Due /\ handler.at = "pumping"
  /\ Finish(IF handler.saw THEN [response EXCEPT !.eof = "end"] ELSE Closed(DEADLINE_EXCEEDED), "dropped")
  /\ UNCHANGED <<got, reply>>

\* Mutant of Dropped: the call was spawned and goes on.
DroppedDetached ==
  /\ link = "down" /\ handler.at \notin {"done", "dropped"}
  /\ handler' = [handler EXCEPT !.at = "dropped"]
  /\ response' = [response EXCEPT !.eof = "error"]
  /\ timers' = [timers EXCEPT !.call = Unset]
  /\ UNCHANGED <<req, got, link, schema, call, reply, held>>

\* hyper drops the handler, or the body it is streaming, and the call with it.
Dropped ==
  /\ link = "down" /\ handler.at \notin {"done", "dropped"}
  /\ handler' = [handler EXCEPT !.at = "dropped"]
  /\ call' = IF Live THEN [call EXCEPT !.at = "dropped"] ELSE call
  /\ response' = [response EXCEPT !.eof = "error"]
  /\ timers' = [timers EXCEPT !.call = Unset]
  /\ UNCHANGED <<req, got, link, schema, reply, held>>

\* Time passes for the timers, and for a call under a deadline (counted to HeldBound).
HeldBound == 2 * req.timeout + 1
Waited == Live /\ req.timeout > 0
Tick ==
  /\ \A t \in DOMAIN timers : timers[t] # 0
  /\ (\E t \in DOMAIN timers : timers[t] > 0) \/ (Waited /\ held < HeldBound)
  /\ timers' = [t \in DOMAIN timers |-> IF timers[t] > 0 THEN timers[t] - 1 ELSE timers[t]]
  /\ held' = IF Waited /\ held < HeldBound THEN held + 1 ELSE held
  /\ UNCHANGED <<req, got, link, schema, handler, call, reply, response>>

-----------------------------------------------------------------------------
ServerInit ==
  /\ req \in Requests /\ got = 0
  /\ link = "up"
  /\ schema \in Schemas
  /\ handler = [at |-> "idle", skip |-> 1, saw |-> FALSE]
  /\ call = NoCall /\ reply = NoReply /\ response = NoResponse
  /\ timers = [client |-> Unset, call |-> Unset]
  /\ held = 0

Handler ==
  \/ Arrive \/ SchemaArrives \/ SchemaGivesUp
  \/ ReadLead \/ LeadEnds \/ ReadBody \/ BodyCut \/ json_fetch
  \/ CallTimeout \/ BodyTimeout \/ Dropped

Backend ==
  \/ Forward \/ ForwardEnds
  \/ BackendRefuses \/ BackendAnswers \/ BackendSends \/ BackendEnds \/ BackendBreaks
=============================================================================
