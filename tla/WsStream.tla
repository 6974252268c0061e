------------------------------ MODULE WsStream ------------------------------
(***************************************************************************)
(* One streaming call over a WebSocket: the TypeScript client (WsClient)   *)
(* and the server (WsServer) joined by a connection that keeps order and   *)
(* may break. `up` holds what the server has not read; what the client has *)
(* not read is the part of `wire` after `cpos`.                            *)
(***************************************************************************)
EXTENDS WsClient, WsServerProperties

VARIABLES
  cpos,  \* frames of `wire` the client's socket has taken
  link   \* "up", or "cut": nothing more crosses the connection

streamVars == <<vars, clientVars, cpos, link>>

\* The client offers its codec's subprotocol, which pins the server's.
ASSUME CodecAssumption ==
  /\ \A h \in Handshakes : h.codec = (IF Json THEN "text" ELSE "bin") /\ h.route = "method"
  /\ NoPayload = Empty
\* The client is one of the peers the server may have, and its call is a stream
\* the server may open.
ASSUME ClientIsAPeer == ClientFrames \subseteq PeerFrames /\ MaxStreams # 0

Client ==
  /\ \/ \E p \in AppPayload : AppSends(p)
     \/ AppHalfCloses
     \/ Terminate("CANCELLED")
     \/ (Deadline /\ Terminate("DEADLINE_EXCEEDED"))
     \/ TransportCloses
  /\ UNCHANGED <<vars, cpos, link>>

ClientOpens == link = "up" /\ OnOpen /\ UNCHANGED <<vars, cpos, link>>

\* The client's socket takes the next frame; a Close frame ends it.
ClientReads ==
  /\ link = "up" /\ ws \in {"open", "closing"} /\ cpos < Len(wire)
  /\ LET f == wire[cpos + 1] IN
       IF f.kind = "Close" THEN OnClose(f.code) ELSE OnFrame(f)
  /\ cpos' = cpos + 1
  /\ UNCHANGED <<vars, link>>

\* The socket closes without a Close frame from the server: the server has
\* dropped it, the client's own close has timed out, or the link is cut.
ClientDrops ==
  /\ \/ link = "cut"
     \/ reader = "done" /\ cpos = Len(wire)
     \/ ws = "closing"
  /\ OnClose("none")
  /\ UNCHANGED <<vars, cpos, link>>

ServerReads ==
  /\ peer = "open" /\ up # <<>> /\ Head(up).kind # "Close"
  /\ ReadFrame(Head(up))
  /\ up' = Tail(up)
  /\ UNCHANGED <<ws, open_, pending, finished, statuses, delivered, sent, ended, cpos, link>>

\* The client's Close is next to be read, or its socket is gone.
ServerSeesClose ==
  /\ peer = "open" /\ reader = "reading"
  /\ \/ up # <<>> /\ Head(up).kind = "Close"
     \/ up = <<>> /\ ws = "closed"
  /\ peer' = "closed"
  /\ UNCHANGED <<readerVars, taskVars, bodyVars, verdict, outVars, params, clientVars, cpos, link>>

\* The connection breaks: frames in flight are lost, and the server notices at
\* once, or late, or only by its keepalive.
LinkBreaks ==
  /\ \/ peer = "open" /\ ws # "closed" /\ peer' \in {"closed", "vanished"}
     \/ peer = "vanished" /\ peer' = "closed"
  /\ link' = "cut" /\ up' = <<>>
  /\ UNCHANGED <<readerVars, taskVars, bodyVars, verdict, outVars, params,
                 ws, open_, pending, finished, statuses, delivered, sent, ended, cpos>>

Server == ServerStep /\ UNCHANGED <<clientVars, cpos, link>>

StreamTerminated == Finished /\ ws = "closed" /\ UNCHANGED streamVars

StreamInit == Init /\ ClientInit /\ cpos = 0 /\ link = "up"

StreamNext ==
  \/ Client \/ ClientOpens \/ ClientReads \/ ClientDrops
  \/ Server \/ ServerReads \/ ServerSeesClose \/ LinkBreaks
  \/ StreamTerminated

StreamSpec == StreamInit /\ [][StreamNext]_streamVars

\* The browser's and the server's schedulers run what can run. The application
\* owes nothing, and a client learns of a cut only if the connection reports it.
StreamFairness ==
  /\ WF_streamVars(ClientOpens) /\ WF_streamVars(ClientReads)
  /\ WF_streamVars((link = "up" \/ peer = "closed") /\ ClientDrops)
  /\ WF_streamVars(ServerReads) /\ WF_streamVars(ServerSeesClose)
  /\ ServerFairness

\* With a backend that may stop reading its request stream, and one that goes
\* on reading it or drops it.
IdleBackendSpec == StreamSpec /\ StreamFairness
FairStreamSpec == IdleBackendSpec /\ BackendKeepsReading

-----------------------------------------------------------------------------
\* The call keeps the promises of RpcStream: the backend receives a prefix of
\* what the application sent, the application a prefix of what the backend
\* answered, one status at most, nothing after it, and OK only for the whole
\* answer - across cancels, deadlines, resets, limits and broken connections.
Rpc == INSTANCE RpcStream WITH
  Requests <- AppPayload, Outcomes <- Codes \cup {"CANCELLED"},
  requests <- sent, pulled <- got[1], answers <- produced[1],
  received <- delivered, outcome <- statuses
ImplementsRpcStream == Rpc!RpcSpec

\* Whichever way a call ends in CANCELLED or at its deadline on the client, the
\* stream behind it stops (ws-transport.ts terminate, ws.rs Reset and Close).
CancelledByClient == statuses \in {<<"CANCELLED">>, <<"DEADLINE_EXCEEDED">>}
CancelReachesServer ==
  \A i \in Tasks : (CancelledByClient /\ Live(i) /\ link = "up") ~> (~Live(i) \/ link = "cut")

\* Once the backend has ended the response, the client's call has a status,
\* unless the connection dies unnoticed.
StatusDelivered ==
  \A i \in Tasks : (verdict[i] # "none") ~> (statuses # <<>> \/ peer = "vanished")

\* The read loop has refused a message over the size limit (ws.rs:193-200): a
\* Reset, and the task aborted with its Close unsent, though PROTOCOL.md:270-272
\* has the server close the socket after every terminal frame.
Refused == \E k \in 1..Len(wire) : wire[k].kind = "Reset" /\ wire[k].code = "RESOURCE_EXHAUSTED"

\* The client's socket is not held for ever once its call has ended, unless the
\* read loop has refused an oversize message or the connection dies unnoticed.
SocketReleased ==
  finished ~> (ws = "closed" \/ peer = "vanished" \/ (Refused /\ ws = "open"))
=============================================================================
