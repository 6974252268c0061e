------------------------------ MODULE WsServer ------------------------------
(***************************************************************************)
(* The server end of one grpc-webnext WebSocket                            *)
(* (src/rust/crates/grpc-webnext/src/ws.rs).                               *)
(*                                                                         *)
(* Four kinds of process share the connection:                             *)
(*   - the READER (serve's loop and handle_frame): reads one frame at a    *)
(*     time and, while a send of its own waits for room, reads nothing;    *)
(*   - one TASK per opened stream (run_stream): calls the backend and      *)
(*     pumps its response into the outbound queue;                         *)
(*   - the WRITER: moves the outbound queue onto the socket;               *)
(*   - the BACKEND (tonic router or upstream, external): pulls request     *)
(*     messages and produces a response, an ending, or an error.           *)
(* The peer is arbitrary: it may send any frame of any kind at any time,   *)
(* close the socket, or fall silent.                                       *)
(***************************************************************************)
EXTENDS Naturals, Sequences

CONSTANTS
  ReqCap,      \* capacity of a stream's request queue (16 in the code)
  OutCap,      \* capacity of the outbound queue (64 in the code)
  KeepAlive,   \* TRUE iff ws_keepalive is set
  Handshakes,  \* what handshakes resolve to (see Handshake)
  Payload,     \* request payloads a peer may send
  Oversize,    \* those longer than max_message_bytes
  Malformed,   \* those with no transcoding to the request type
  Empty,       \* the empty payload
  PeerFrames,  \* frames the peer may send
  MaxFrames,   \* bound: frames the reader takes from the socket
  MaxStreams,  \* bound: streams opened on the socket
  MaxResp      \* bound: messages in one response

\* WsParams and the gate's verdict: the codec the subprotocol pins or "none",
\* a method route or an annotated one with or without a body, the status the
\* handshake is rejected with or "none". Annotated routes are text-locked.
Handshake ==
  [codec : {"none", "text", "bin"}, route : {"method"},
   reject : {"none", "UNIMPLEMENTED", "FAILED_PRECONDITION"}]
    \cup [codec : {"text"}, route : {"body", "nobody"}, reject : {"none", "FAILED_PRECONDITION"}]

ASSUME ConfigAssumption == KeepAlive \in BOOLEAN /\ Handshakes \subseteq Handshake
\* The queue has room for what handle_frame pushes before the task exists.
ASSUME CapAssumption ==
  /\ ReqCap \in Nat \ {0} /\ OutCap \in Nat \ {0}
  /\ \A h \in Handshakes : h.route = "nobody" => ReqCap >= 2
ASSUME PayloadAssumption ==
  Empty \notin Payload /\ Oversize \subseteq Payload /\ Malformed \subseteq Payload
ASSUME BoundAssumption == MaxFrames \in Nat /\ MaxStreams \in Nat /\ MaxResp \in Nat

VARIABLES
  reader,    \* where serve's loop is
  hold,      \* payload the reader is waiting to push
  codec,     \* locked codec of the connection, "none" until inferred
  opened,    \* a Subscribe has been decoded
  stream,    \* the task in the loop's `stream` slot, 0 for None
  feeding,   \* that slot's req_tx is Some
  seen,      \* frames taken from the socket
  ntask,     \* tasks spawned
  tpc,       \* where each task is
  tmo,       \* the task has a timeout
  aborted,   \* abort() was called on the task
  produced,  \* response messages the task has taken from the body
  reqq,      \* request queue of each task
  rx,        \* who has the queue's receiver: the task, the backend, nobody
  fed,       \* payloads accepted from the peer for the stream, in order
  got,       \* payloads the backend has pulled, in order
  eos,       \* the backend has seen the end of the request stream
  verdict,   \* how the backend ended the response body
  outq,      \* outbound queue
  writer,    \* the writer task
  wire,      \* every frame written to the socket
  peer,      \* "open", "closed" (the reader will see it), "vanished" (it won't)
  params     \* what this connection's handshake resolved to

readerVars == <<reader, hold, codec, opened, stream, feeding, seen>>
taskVars   == <<ntask, tpc, tmo, aborted, produced>>
bodyVars   == <<reqq, rx, fed, got, eos>>
outVars    == <<outq, writer, wire>>
vars       == <<readerVars, taskVars, bodyVars, verdict, outVars, peer, params>>

-----------------------------------------------------------------------------
(* Frames. A frame of the peer has the WebSocket message type, what it     *)
(* decodes to, a payload, and whether it asks for a timeout (which only an *)
(* opening frame is read for). A text frame has no Subscribe form: the     *)
(* first one that decodes opens the stream. "Control" stands for pings and *)
(* pongs, "Junk" for what decodes to nothing handle_frame acts on.         *)

Types  == {"bin", "text"}
Frames ==
  [ty : {"bin"}, kind : {"Subscribe"}, p : Payload \cup {Empty}, t : BOOLEAN]
    \cup [ty : Types, kind : {"Message"}, p : Payload, t : BOOLEAN]
    \cup [ty : Types, kind : {"HalfClose", "Reset", "Control", "Junk"}, p : {Empty}, t : BOOLEAN]

ASSUME FramesAssumption == PeerFrames \subseteq Frames

Codes == {"none", "OK", "ERROR", "INVALID_ARGUMENT", "RESOURCE_EXHAUSTED",
          "UNIMPLEMENTED", "FAILED_PRECONDITION", "UNAVAILABLE", "INTERNAL",
          "DEADLINE_EXCEEDED"}

Tasks == 1 .. MaxStreams

\* A frame to the peer: from task `of`, or from the reader when `of` is 0.
Out(kind, of, n, code) == [kind |-> kind, of |-> of, n |-> n, code |-> code]
OutFrames == [kind : {"Header", "Message", "Trailer", "Reset", "Close"},
              of : 0 .. MaxStreams, n : Nat, code : Codes]

-----------------------------------------------------------------------------
(* Decoding: the codec lock, then decode_binary / decode_text.             *)

Locked(f) == IF codec = "none" THEN f.ty ELSE codec

DecodeBinary(f) ==
  IF f.kind = "Junk" \/ (f.kind # "Subscribe" /\ ~opened) THEN "None" ELSE f.kind

\* Mutant of DecodeText: asks for a free slot instead of a first frame.
DecodeTextBySlot(f) ==
  IF f.kind = "Junk" THEN "None" ELSE IF stream = 0 THEN "Subscribe" ELSE f.kind

DecodeText(f) ==
  IF f.kind = "Junk" THEN "None" ELSE IF ~opened THEN "Subscribe" ELSE f.kind

\* A ping or pong reaches no decoder, whatever the codec.
Decode(f) ==
  IF f.kind = "Control" \/ f.ty # Locked(f) THEN "None"
  ELSE IF f.ty = "bin" THEN DecodeBinary(f) ELSE DecodeText(f)

\* The loop takes frame f from the socket and it decodes to `kind`.
Take(f, kind) ==
  /\ reader = "reading"
  /\ seen < MaxFrames
  /\ Decode(f) = kind
  /\ seen' = seen + 1
  /\ codec' = IF f.kind = "Control" THEN codec ELSE Locked(f)
  /\ opened' = (opened \/ kind = "Subscribe")
  /\ UNCHANGED <<verdict, outVars, peer, params>>

-----------------------------------------------------------------------------
(* handle_frame                                                            *)

\* abort() asks task i to stop; it stops at its next await (Cancelled).
Abort(i) == aborted' = [aborted EXCEPT ![i] = TRUE]

\* Mutant of TakeStream: the JoinHandle is dropped, which detaches the task.
ForgetStream ==
  /\ stream' = 0
  /\ feeding' = FALSE
  /\ UNCHANGED aborted

\* stream.take(): the slot is emptied, its req_tx dropped, its task aborted.
TakeStream ==
  /\ stream' = 0
  /\ feeding' = FALSE
  /\ IF stream = 0 THEN UNCHANGED aborted ELSE Abort(stream)

\* Reader states in which it waits to queue a Reset, and the code it carries.
ReplyCode == [reply_open  |-> "INVALID_ARGUMENT",
              reply_size  |-> "RESOURCE_EXHAUSTED",
              reply_abort |-> "RESOURCE_EXHAUSTED"]

ReadIgnored(f) ==
  /\ Take(f, "None")
  /\ UNCHANGED <<reader, hold, stream, feeding, taskVars, bodyVars>>

\* Subscribe while the slot is taken, even by a task that has ended.
SubscribeAgain(f) ==
  /\ Take(f, "Subscribe")
  /\ stream # 0
  /\ reader' = "reply_open"
  /\ UNCHANGED <<hold, stream, feeding, taskVars, bodyVars>>

SubscribeOversize(f) ==
  /\ Take(f, "Subscribe")
  /\ stream = 0 /\ f.p \in Oversize
  /\ reader' = "reply_size"
  /\ UNCHANGED <<hold, stream, feeding, taskVars, bodyVars>>

\* What a fresh request queue holds: the inline message, and on a body-less
\* annotated route the one empty payload its request is built from.
FirstPayloads(f) ==
  (IF f.p = Empty THEN <<>> ELSE <<f.p>>)
    \o (IF params.route = "nobody" THEN <<Empty>> ELSE <<>>)

Subscribe(f) ==
  /\ Take(f, "Subscribe")
  /\ stream = 0 /\ f.p \notin Oversize
  /\ ntask < MaxStreams
  /\ LET i == ntask + 1 IN
       /\ ntask' = i
       /\ stream' = i
       /\ feeding' = (params.route # "nobody")
       /\ tpc' = [tpc EXCEPT ![i] = IF f.ty = "text" THEN "resolve" ELSE "call"]
       /\ tmo' = [tmo EXCEPT ![i] = f.t]
       /\ reqq' = [reqq EXCEPT ![i] = FirstPayloads(f)]
       /\ fed' = [fed EXCEPT ![i] = FirstPayloads(f)]
       /\ rx' = [rx EXCEPT ![i] = IF f.ty = "text" THEN "task" ELSE "backend"]
  /\ UNCHANGED <<reader, hold, aborted, produced, got, eos>>

MessageOversize(f) ==
  /\ Take(f, "Message")
  /\ f.p \in Oversize
  /\ reader' = "reply_abort"
  /\ UNCHANGED <<hold, stream, feeding, taskVars, bodyVars>>

\* Mutant of Message: a half-close does not take the sender away.
MessageAfterHalfClose(f) ==
  /\ Take(f, "Message")
  /\ f.p \notin Oversize /\ stream # 0
  /\ reader' = "pushing"
  /\ hold' = f.p
  /\ fed' = [fed EXCEPT ![stream] = Append(@, f.p)]
  /\ UNCHANGED <<stream, feeding, taskVars, reqq, rx, got, eos>>

\* tx.send(payload).await begins; it ends in PushDone.
Message(f) ==
  /\ Take(f, "Message")
  /\ f.p \notin Oversize /\ feeding
  /\ reader' = "pushing"
  /\ hold' = f.p
  /\ fed' = [fed EXCEPT ![stream] = Append(@, f.p)]
  /\ UNCHANGED <<stream, feeding, taskVars, reqq, rx, got, eos>>

MessageIgnored(f) ==
  /\ Take(f, "Message")
  /\ f.p \notin Oversize /\ ~feeding
  /\ UNCHANGED <<reader, hold, stream, feeding, taskVars, bodyVars>>

HalfClose(f) ==
  /\ Take(f, "HalfClose")
  /\ feeding' = FALSE
  /\ UNCHANGED <<reader, hold, stream, taskVars, bodyVars>>

Reset(f) ==
  /\ Take(f, "Reset")
  /\ TakeStream
  /\ UNCHANGED <<reader, hold, ntask, tpc, tmo, produced, bodyVars>>

ReadFrame(f) ==
  \/ ReadIgnored(f) \/ SubscribeAgain(f) \/ SubscribeOversize(f) \/ Subscribe(f)
  \/ MessageOversize(f) \/ Message(f) \/ MessageIgnored(f)
  \/ HalfClose(f) \/ Reset(f)

\* Mutant of PushDone: try_send, which drops the payload when there is no room.
TryPush ==
  /\ reader = "pushing"
  /\ IF rx[stream] # "gone" /\ Len(reqq[stream]) < ReqCap
     THEN reqq' = [reqq EXCEPT ![stream] = Append(@, hold)]
     ELSE UNCHANGED reqq
  /\ reader' = "reading" /\ hold' = Empty
  /\ UNCHANGED <<codec, opened, stream, feeding, seen, taskVars,
                 rx, fed, got, eos, verdict, outVars, peer, params>>

\* The awaited tx.send completes: there is room, or the receiver is gone.
PushDone ==
  /\ reader = "pushing"
  /\ \/ /\ rx[stream] # "gone"
        /\ Len(reqq[stream]) < ReqCap
        /\ reqq' = [reqq EXCEPT ![stream] = Append(@, hold)]
     \/ rx[stream] = "gone" /\ UNCHANGED reqq
  /\ reader' = "reading" /\ hold' = Empty
  /\ UNCHANGED <<codec, opened, stream, feeding, seen, taskVars,
                 rx, fed, got, eos, verdict, outVars, peer, params>>

\* Mutant of Enqueue: an unbounded outbound channel.
EnqueueUnbounded(f) ==
  \/ writer = "running" /\ outq' = Append(outq, f)
  \/ writer = "done" /\ UNCHANGED outq

\* Mutant of Enqueue: try_send, which drops the frame when there is no room.
EnqueueTry(f) ==
  IF writer = "running" /\ Len(outq) < OutCap THEN outq' = Append(outq, f) ELSE UNCHANGED outq

\* An outbound send completes: there is room, or the writer is gone.
Enqueue(f) ==
  \/ writer = "running" /\ Len(outq) < OutCap /\ outq' = Append(outq, f)
  \/ writer = "done" /\ UNCHANGED outq

\* The awaited send_reset completes; an oversize Message then drops the stream.
ReplyDone ==
  /\ reader \in DOMAIN ReplyCode
  /\ Enqueue(Out("Reset", 0, 0, ReplyCode[reader]))
  /\ IF reader = "reply_abort" THEN TakeStream
     ELSE UNCHANGED <<stream, feeding, aborted>>
  /\ reader' = "reading"
  /\ UNCHANGED <<hold, codec, opened, seen, ntask, tpc, tmo, produced,
                 bodyVars, verdict, writer, wire, peer, params>>

-----------------------------------------------------------------------------
(* The loop's exits, and what follows it in serve.                         *)

LeaveLoop ==
  /\ reader = "reading"
  /\ reader' = "joining"
  /\ TakeStream
  /\ UNCHANGED <<hold, codec, opened, seen, ntask, tpc, tmo, produced,
                 bodyVars, verdict, outVars, peer, params>>

\* ws_stream.next() yields None, an error, or the peer's Close.
EndOfInput == peer = "closed" /\ LeaveLoop

\* The keepalive deadline passed with no inbound frame.
KeepaliveExpires == KeepAlive /\ LeaveLoop

\* writer.await returns.
Join ==
  /\ reader = "joining" /\ writer = "done"
  /\ reader' = "done"
  /\ UNCHANGED <<hold, codec, opened, stream, feeding, seen, taskVars,
                 bodyVars, verdict, outVars, peer, params>>

\* The gate rejected the handshake: one private-code Close, no stream.
RejectHandshake ==
  /\ reader = "rejecting"
  /\ reader' = "done"
  /\ IF peer = "closed" THEN UNCHANGED wire
     ELSE wire' = <<Out("Close", 0, 0, params.reject)>>
  /\ UNCHANGED <<hold, codec, opened, stream, feeding, seen, taskVars,
                 bodyVars, verdict, outq, writer, peer, params>>

-----------------------------------------------------------------------------
(* run_stream, one per task                                                *)

Goto(i, pc) == tpc' = [tpc EXCEPT ![i] = pc]

\* Nothing but the task's control moves.
Advance(i, from, to) ==
  /\ tpc[i] = from
  /\ Goto(i, to)
  /\ UNCHANGED <<readerVars, ntask, tmo, aborted, produced, outVars, peer, params>>

\* JSON: the schema's transcoder for the method, or the capability gap (no
\* schema or no such method, both UNIMPLEMENTED here; one not yet loaded is
\* UNAVAILABLE in the code). The request body then goes to backend.call.
Resolve(i) ==
  \/ /\ Advance(i, "resolve", "call")
     /\ rx' = [rx EXCEPT ![i] = "backend"]
     /\ UNCHANGED <<reqq, fed, got, eos, verdict>>
  \/ Advance(i, "resolve", "gap") /\ UNCHANGED <<bodyVars, verdict>>

BackendAnswers(i) == Advance(i, "call", "header") /\ UNCHANGED <<bodyVars, verdict>>
BackendRefuses(i) == Advance(i, "call", "refused") /\ UNCHANGED <<bodyVars, verdict>>

\* body.frame() completes a message.
BackendYields(i) ==
  /\ tpc[i] = "pump"
  /\ produced[i] < MaxResp
  /\ produced' = [produced EXCEPT ![i] = @ + 1]
  /\ Goto(i, "message")
  /\ UNCHANGED <<readerVars, ntask, tmo, aborted, bodyVars, verdict, outVars, peer, params>>

\* The body ends with a status, or breaks off without one.
BackendEnds(i, v) ==
  /\ Advance(i, "pump", "trailer")
  /\ verdict' = [verdict EXCEPT ![i] = v]
  /\ UNCHANGED bodyVars

\* read_status: a status nobody sent reads as 0.
read_status(v) == IF v = "ERROR" THEN "ERROR" ELSE "OK"

\* The JSON codec cannot render the response message.
EncodeFails(i) ==
  /\ codec = "text"
  /\ Advance(i, "message", "unencodable")
  /\ UNCHANGED <<bodyVars, verdict>>

\* Mutant of Pumping: the timeout wraps the closing send too.
PumpingAndClosing ==
  {"call", "header", "pump", "message", "trailer", "refused", "unencodable", "close"}

\* The states inside `pump`, all of which the timeout cuts short.
Pumping == {"call", "header", "pump", "message", "trailer", "refused", "unencodable"}

\* Mutants of TimeoutExpires: it skips the trailer, or falls into the pump's own.
TimeoutCloses(i) ==
  /\ tmo[i]
  /\ \E pc \in Pumping : Advance(i, pc, "close")
  /\ UNCHANGED <<bodyVars, verdict>>
TimeoutAsTrailer(i) ==
  /\ tmo[i]
  /\ \E pc \in Pumping : Advance(i, pc, "trailer")
  /\ UNCHANGED <<bodyVars, verdict>>

TimeoutExpires(i) ==
  /\ tmo[i]
  /\ \E pc \in Pumping : Advance(i, pc, "expired")
  /\ UNCHANGED <<bodyVars, verdict>>

\* The frame each sending state sends, and the state that follows.
TaskFrame(i) ==
  CASE tpc[i] = "header"      -> Out("Header", i, 0, "none")
    [] tpc[i] = "message"     -> Out("Message", i, produced[i], "none")
    [] tpc[i] = "trailer"     -> Out("Trailer", i, 0, read_status(verdict[i]))
    [] tpc[i] = "expired"     -> Out("Trailer", i, 0, "DEADLINE_EXCEEDED")
    [] tpc[i] = "gap"         -> Out("Reset", i, 0, "UNIMPLEMENTED")
    [] tpc[i] = "refused"     -> Out("Reset", i, 0, "UNAVAILABLE")
    [] tpc[i] = "unencodable" -> Out("Reset", i, 0, "INTERNAL")
    [] tpc[i] = "close"       -> Out("Close", i, 0, "none")

Terminating == {"trailer", "expired", "gap", "refused", "unencodable"}

\* Mutant of AfterSend: the task ends without closing the socket.
AfterSendNoClose(i) ==
  CASE tpc[i] = "header"  -> "pump"
    [] tpc[i] = "message" -> IF writer = "done" THEN "close" ELSE "pump"
    [] OTHER              -> "done"

AfterSend(i) ==
  CASE tpc[i] = "header"  -> "pump"
    [] tpc[i] = "message" -> IF writer = "done" THEN "close" ELSE "pump"
    [] tpc[i] = "close"   -> "done"
    [] OTHER              -> "close"

\* A task that returns or is cancelled drops a receiver it still holds.
DropReceiver(i) ==
  IF rx[i] = "task"
  THEN rx' = [rx EXCEPT ![i] = "gone"] /\ reqq' = [reqq EXCEPT ![i] = <<>>]
  ELSE UNCHANGED <<rx, reqq>>

TaskSends(i) ==
  /\ tpc[i] \in Terminating \cup {"header", "message", "close"}
  /\ Enqueue(TaskFrame(i))
  /\ Goto(i, AfterSend(i))
  /\ IF tpc[i] = "close" THEN DropReceiver(i) ELSE UNCHANGED <<rx, reqq>>
  /\ UNCHANGED <<readerVars, ntask, tmo, aborted, produced, fed, got, eos,
                 verdict, writer, wire, peer, params>>

\* An aborted task reaches an await and is dropped there.
Cancelled(i) ==
  /\ aborted[i] /\ tpc[i] # "done"
  /\ Goto(i, "done")
  /\ DropReceiver(i)
  /\ UNCHANGED <<readerVars, ntask, tmo, aborted, produced, fed, got, eos,
                 verdict, outVars, peer, params>>

-----------------------------------------------------------------------------
(* The backend's end of the request stream (external).                     *)

\* A payload with no transcoding reaches the backend as an empty message.
Transcoded(p) == IF codec = "text" /\ p \in Malformed THEN Empty ELSE p

BackendPulls(i) ==
  /\ rx[i] = "backend" /\ reqq[i] # <<>>
  /\ got' = [got EXCEPT ![i] = Append(@, Transcoded(Head(reqq[i])))]
  /\ reqq' = [reqq EXCEPT ![i] = Tail(@)]
  /\ UNCHANGED <<readerVars, taskVars, rx, fed, eos, verdict, outVars, peer, params>>

\* The queue is drained and its last sender dropped.
BackendSeesEnd(i) ==
  /\ rx[i] = "backend" /\ ~eos[i]
  /\ reqq[i] = <<>> /\ ~(stream = i /\ feeding)
  /\ eos' = [eos EXCEPT ![i] = TRUE]
  /\ UNCHANGED <<readerVars, taskVars, reqq, rx, fed, got, verdict, outVars, peer, params>>

\* The backend drops the request body: it is done with it, or was cancelled.
BackendDrops(i) ==
  /\ rx[i] = "backend"
  /\ rx' = [rx EXCEPT ![i] = "gone"]
  /\ reqq' = [reqq EXCEPT ![i] = <<>>]
  /\ UNCHANGED <<readerVars, taskVars, fed, got, eos, verdict, outVars, peer, params>>

-----------------------------------------------------------------------------
(* The writer and the peer                                                 *)

\* Our Close is on the socket: nothing can follow it.
CloseSent == \E k \in DOMAIN wire : wire[k].kind = "Close"

WriterSends ==
  /\ writer = "running" /\ outq # <<>>
  /\ peer # "closed" /\ ~CloseSent
  /\ wire' = Append(wire, Head(outq))
  /\ outq' = Tail(outq)
  /\ UNCHANGED <<readerVars, taskVars, bodyVars, verdict, writer, peer, params>>

\* The writer breaks out of its loop, dropping what is still queued.
WriterStops ==
  /\ writer' = "done"
  /\ outq' = <<>>
  /\ UNCHANGED <<readerVars, taskVars, bodyVars, verdict, wire, peer, params>>

\* A send fails: of a queued frame, or of a keepalive ping.
WriterFails ==
  /\ writer = "running"
  /\ outq # <<>> \/ KeepAlive
  /\ peer # "open" \/ CloseSent
  /\ WriterStops

\* outbound_rx.recv() yields None: the queue is drained, every sender dropped.
WriterEnds ==
  /\ writer = "running" /\ outq = <<>>
  /\ reader = "joining"
  /\ \A i \in 1 .. ntask : tpc[i] = "done"
  /\ WriterStops

\* The socket closes or breaks, or the peer falls silent; TCP may notice that.
PeerLeaves ==
  /\ \/ peer = "open" /\ peer' \in {"closed", "vanished"}
     \/ peer = "vanished" /\ peer' = "closed"
  /\ UNCHANGED <<readerVars, taskVars, bodyVars, verdict, outVars, params>>

-----------------------------------------------------------------------------

Init ==
  /\ params \in Handshakes
  /\ reader = IF params.reject = "none" THEN "reading" ELSE "rejecting"
  /\ hold = Empty
  /\ codec = params.codec
  /\ opened = FALSE /\ stream = 0 /\ feeding = FALSE
  /\ seen = 0 /\ ntask = 0
  /\ tpc = [i \in Tasks |-> "none"]
  /\ tmo = [i \in Tasks |-> FALSE]
  /\ aborted = [i \in Tasks |-> FALSE]
  /\ produced = [i \in Tasks |-> 0]
  /\ reqq = [i \in Tasks |-> <<>>]
  /\ rx = [i \in Tasks |-> "gone"]
  /\ fed = [i \in Tasks |-> <<>>]
  /\ got = [i \in Tasks |-> <<>>]
  /\ eos = [i \in Tasks |-> FALSE]
  /\ verdict = [i \in Tasks |-> "none"]
  /\ outq = <<>> /\ wire = <<>>
  /\ writer = IF reader = "rejecting" THEN "done" ELSE "running"
  /\ peer = "open"

Reader == PushDone \/ ReplyDone \/ EndOfInput \/ Join \/ RejectHandshake
Writer == WriterSends \/ WriterFails \/ WriterEnds
Verdicts == {"OK", "ERROR", "broken"}
BackendResponds(i) ==
  \/ BackendAnswers(i) \/ BackendRefuses(i) \/ BackendYields(i)
  \/ \E v \in Verdicts : BackendEnds(i, v)
Task(i) == Resolve(i) \/ EncodeFails(i) \/ TimeoutExpires(i) \/ TaskSends(i) \/ Cancelled(i)
BackendReads(i) == BackendPulls(i) \/ BackendSeesEnd(i) \/ BackendDrops(i)

\* What the server does on its own, with the peer's frames left out.
ServerStep ==
  \/ Reader \/ KeepaliveExpires \/ Writer
  \/ \E i \in Tasks : Task(i) \/ BackendResponds(i) \/ BackendReads(i)

\* serve has returned and nothing of the connection is left running.
Finished == reader = "done" /\ \A i \in Tasks : tpc[i] \in {"none", "done"} /\ rx[i] = "gone"
Terminated == Finished /\ peer # "open" /\ UNCHANGED vars

Next ==
  \/ ServerStep
  \/ peer = "open" /\ \E f \in PeerFrames : ReadFrame(f)
  \/ PeerLeaves
  \/ Terminated

Spec == Init /\ [][Next]_vars

\* tokio polls every task that can move, a socket write ends in success or an
\* error, and timers fire. The keepalive is owed only against a silent peer.
ServerFairness ==
  /\ WF_vars(Reader) /\ WF_vars(peer = "vanished" /\ KeepaliveExpires) /\ WF_vars(Writer)
  /\ \A i \in Tasks :
       /\ WF_vars(Resolve(i)) /\ WF_vars(TaskSends(i)) /\ WF_vars(Cancelled(i))
       /\ WF_vars(TimeoutExpires(i))
       /\ WF_vars(tpc[i] = "done" /\ BackendDrops(i))

\* A backend owes nothing while its call runs.
FairSpec == Spec /\ ServerFairness

\* A backend that goes on reading its request stream, or drops it.
BackendKeepsReading == \A i \in Tasks : WF_vars(BackendPulls(i) \/ BackendDrops(i))

=============================================================================
