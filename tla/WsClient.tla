------------------------------ MODULE WsClient ------------------------------
(***************************************************************************)
(* SingleStreamConn, the TypeScript client's end of one WebSocket          *)
(* (src/node/packages/client/src/ws-transport.ts), and the browser         *)
(* WebSocket under it (external). Every action is one turn of the event    *)
(* loop: a call of the application, or one event of the socket.            *)
(***************************************************************************)
EXTENDS Naturals, Sequences

CONSTANTS
  Json,        \* TRUE for the JSON codec, FALSE for proto
  Deadline,    \* TRUE iff the call has a deadline
  AppPayload,  \* messages the application may send
  NoPayload,   \* the payload field of a frame that carries none
  MaxSends     \* bound: messages the application sends

ASSUME ClientAssumption ==
  /\ Json \in BOOLEAN /\ Deadline \in BOOLEAN /\ NoPayload \notin AppPayload /\ MaxSends \in Nat

VARIABLES
  ws,         \* the browser socket: "connecting", "open", "closing", "closed"
  open_,      \* the open event was seen, no close event since
  pending,    \* frames queued until the socket opens
  finished,   \* the call has its status
  statuses,   \* statuses handed to onStatus
  delivered,  \* messages handed to onMessage
  sent,       \* messages the application has sent on a call with no status
  ended,      \* bound: the application half-closes once
  up          \* frames the socket has put on the connection, not yet read

clientVars == <<ws, open_, pending, finished, statuses, delivered, sent, ended, up>>

Frame(kind, p, t) ==
  [ty |-> IF Json THEN "text" ELSE "bin", kind |-> kind, p |-> p, t |-> t]

\* The eager open frame. In JSON it is a bare object, which after the open
\* would read as a half-close.
OpenFrame == Frame(IF Json THEN "HalfClose" ELSE "Subscribe", NoPayload, Deadline)

\* Every frame the client encodes.
ClientFrames ==
  {OpenFrame, Frame("HalfClose", NoPayload, FALSE), Frame("Reset", NoPayload, FALSE)}
    \cup {Frame("Message", p, FALSE) : p \in AppPayload}

\* send() on a socket that is closing or closed discards the frame.
Transmit(frames) == up' = IF ws = "open" THEN up \o frames ELSE up

sendRaw(f) ==
  IF open_ THEN Transmit(<<f>>) /\ UNCHANGED pending
  ELSE pending' = Append(pending, f) /\ UNCHANGED up

\* Mutant of finish: it forgets that the call already has a status.
finishAgain(code) == finished' = TRUE /\ statuses' = Append(statuses, code)

finish(code) ==
  IF finished THEN UNCHANGED <<finished, statuses>>
  ELSE finished' = TRUE /\ statuses' = Append(statuses, code)

\* close() sends the Close frame; before the open it only abandons the connection.
CloseSocket(frames) ==
  /\ ws' = IF ws \in {"connecting", "open"} THEN "closing" ELSE ws
  /\ Transmit(Append(frames, Frame("Close", NoPayload, FALSE)))

-----------------------------------------------------------------------------
(* The application                                                         *)

AppSends(p) ==
  /\ ~finished /\ Len(sent) < MaxSends
  /\ sent' = Append(sent, p)
  /\ sendRaw(Frame("Message", p, FALSE))
  /\ UNCHANGED <<ws, open_, finished, statuses, delivered, ended>>

AppHalfCloses ==
  /\ ~finished /\ ~ended
  /\ ended' = TRUE
  /\ sendRaw(Frame("HalfClose", NoPayload, FALSE))
  /\ UNCHANGED <<ws, open_, finished, statuses, delivered, sent>>

\* cancel(), or the call's signal: terminate sends a Reset, finishes, closes.
Terminate(code) ==
  /\ ~finished
  /\ IF open_ THEN UNCHANGED pending
     ELSE pending' = Append(pending, Frame("Reset", NoPayload, FALSE))
  /\ finish(code)
  /\ CloseSocket(IF open_ THEN <<Frame("Reset", NoPayload, FALSE)>> ELSE <<>>)
  /\ UNCHANGED <<open_, delivered, sent, ended>>

\* WebSocketTransport.close(): the socket is closed, its close event finishes.
TransportCloses ==
  /\ ~finished /\ ws \in {"connecting", "open"}
  /\ CloseSocket(<<>>)
  /\ UNCHANGED <<open_, pending, finished, statuses, delivered, sent, ended>>

-----------------------------------------------------------------------------
(* The socket's events                                                     *)

OnOpen ==
  /\ ws = "connecting"
  /\ ws' = "open" /\ open_' = TRUE
  /\ up' = up \o pending /\ pending' = <<>>
  /\ UNCHANGED <<finished, statuses, delivered, sent, ended>>

\* onMessage: nothing once finished; a socket that is closing delivers nothing.
OnFrame(f) ==
  /\ ws \in {"open", "closing"}
  /\ IF finished \/ ws = "closing" THEN UNCHANGED <<finished, statuses, delivered>>
     ELSE CASE f.kind = "Message" ->
                 delivered' = Append(delivered, f.n) /\ UNCHANGED <<finished, statuses>>
            [] f.kind \in {"Trailer", "Reset"} -> finish(f.code) /\ UNCHANGED delivered
            [] OTHER -> UNCHANGED <<finished, statuses, delivered>>
  /\ UNCHANGED <<ws, open_, pending, sent, ended, up>>

statusForClose(code) == IF code = "none" THEN "UNAVAILABLE" ELSE code

\* Mutant of OnClose: a close with no private code is taken for a clean end.
OnCloseTrusting(code) ==
  /\ ws # "closed"
  /\ ws' = "closed" /\ open_' = FALSE
  /\ IF code = "none" THEN UNCHANGED <<finished, statuses>> ELSE finish(statusForClose(code))
  /\ UNCHANGED <<pending, delivered, sent, ended, up>>

\* The close event, with the gRPC code its private close code carries or
\* "none"; an error event does the same and always without a code.
OnClose(code) ==
  /\ ws # "closed"
  /\ ws' = "closed" /\ open_' = FALSE
  /\ finish(statusForClose(code))
  /\ UNCHANGED <<pending, delivered, sent, ended, up>>

ClientInit ==
  /\ ws = "connecting" /\ open_ = FALSE
  /\ pending = <<OpenFrame>>
  /\ finished = FALSE /\ statuses = <<>> /\ delivered = <<>>
  /\ sent = <<>> /\ ended = FALSE /\ up = <<>>
=============================================================================
