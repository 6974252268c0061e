----------------------------- MODULE FetchClient -----------------------------
(***************************************************************************)
(* One unary call at the client: FetchTransport.unary                      *)
(* (fetch-transport.ts), the framing of its bodies (frame.ts), and         *)
(* Client.makeUnaryRequest with its call context (client.ts, context.ts).  *)
(* The deadline timer and an explicit cancel abort the fetch, which breaks *)
(* the connection. A request without `sdk` comes from another HTTP client, *)
(* which only reads the response.                                          *)
(***************************************************************************)
EXTENDS FetchServer

CONSTANTS
  ClientMax   \* maxMessageBytes of the client: bounds a whole response body

ASSUME ClientMaxAssumption == ClientMax \in Nat

VARIABLES
  fetching,   \* "new", "sent" or "settled"
  signal,     \* why the call was aborted: "none", "deadline" or "cancel"
  outcomes    \* what the callback was called with

clientVars == <<fetching, signal, outcomes>>

Value(m) == [is |-> "value", message |-> m]
Fails(code) == [is |-> "error", code |-> code]

statusForAbort(s) == IF s = "deadline" THEN DEADLINE_EXCEEDED ELSE CANCELLED

\* A failure that is not the abort's is UNKNOWN.
Outcomes == [is : {"value"}, message : Bytes] \cup [is : {"error"}, code : Byte]

errorForFailure == Fails(IF signal = "none" THEN UNKNOWN ELSE statusForAbort(signal))

-----------------------------------------------------------------------------
(* Reading a response                                                      *)

\* deserialize throws on what does not decode; JSON.parse does on an empty text.
Deserialized(m) == IF m \in Garbled THEN errorForFailure ELSE Value(m)
FromJson(text) ==
  IF text = <<>> THEN errorForFailure ELSE Deserialized(SubSeq(text, 2, Len(text) - 1))

ByStatus(code, value) == IF code = OK THEN value ELSE Fails(code)

decodeFetchResponseBody(body) ==
  LET d == decode_response_body(body) IN
  IF ~d.ok THEN errorForFailure ELSE ByStatus(d.code, Deserialized(d.message))

Outcome(r) ==
  CASE r.http # 200 -> Fails(UNAVAILABLE)
    [] r.http = 200 /\ Len(r.body) > ClientMax -> errorForFailure
    [] r.http = 200 /\ Len(r.body) <= ClientMax /\ req.ct = "json" ->
         ByStatus(IF r.status = Unset THEN OK ELSE r.status, FromJson(r.body))
    [] OTHER -> decodeFetchResponseBody(r.body)

\* The callback runs in the promise chain: if it throws, the catch calls it again.
CallBack(outcome) ==
  \/ outcomes' = <<outcome>>
  \/ outcomes' = <<outcome, errorForFailure>>

\* dispose() clears the timer.
Settle(outcome) ==
  /\ fetching' = "settled"
  /\ IF req.sdk THEN CallBack(outcome) ELSE UNCHANGED outcomes
  /\ timers' = [timers EXCEPT !.client = Unset]

-----------------------------------------------------------------------------
ClientSends ==
  /\ fetching = "new" /\ fetching' = "sent"
  /\ timers' = [timers EXCEPT !.client =
       IF req.sdk /\ req.timeout > 0 THEN req.timeout ELSE Unset]
  /\ UNCHANGED <<req, got, link, schema, handler, call, reply, response, held, signal, outcomes>>

ClientReceives ==
  /\ fetching = "sent" /\ link = "up" /\ response.eof = "end"
  /\ Settle(Outcome(response))
  /\ UNCHANGED <<req, got, link, schema, handler, call, reply, response, held, signal>>

\* The body breaks off, or the connection does.
ClientFails ==
  /\ fetching = "sent" /\ (link = "down" \/ response.eof = "error")
  /\ Settle(errorForFailure)
  /\ UNCHANGED <<req, got, link, schema, handler, call, reply, response, held, signal>>

\* The abort rejects the fetch, whatever has arrived.
Abort(reason) ==
  /\ fetching = "sent"
  /\ signal' = reason
  /\ link' = "down"
  /\ fetching' = "settled"
  /\ outcomes' = IF req.sdk THEN <<Fails(statusForAbort(reason))>> ELSE <<>>
  /\ timers' = [timers EXCEPT !.client = Unset]
  /\ UNCHANGED <<req, got, schema, handler, call, reply, response, held>>

DeadlineFires == timers.client = 0 /\ Abort("deadline")
AppCancels == Abort("cancel")

ClientInit == fetching = "new" /\ signal = "none" /\ outcomes = <<>>

Client == ClientSends \/ ClientReceives \/ ClientFails \/ DeadlineFires \/ AppCancels
=============================================================================
