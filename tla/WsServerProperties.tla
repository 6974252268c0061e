------------------------- MODULE WsServerProperties -------------------------
(* What the server end of a WebSocket promises (model: WsServer).          *)
EXTENDS WsServer, SequencesExt

TaskPCs == {"none", "resolve", "call", "header", "pump", "message", "trailer", "expired",
            "gap", "refused", "unencodable", "close", "done"}

Payloads == Payload \cup {Empty}
ReaderOK ==
  /\ reader \in {"rejecting", "reading", "pushing", "joining", "done"} \cup DOMAIN ReplyCode
  /\ hold \in Payloads
  /\ codec \in {"none"} \cup Types
  /\ opened \in BOOLEAN /\ feeding \in BOOLEAN
  /\ stream \in 0 .. ntask
  /\ feeding => stream # 0
  /\ seen \in 0 .. MaxFrames
TaskOK ==
  /\ ntask \in 0 .. MaxStreams
  /\ tpc \in [Tasks -> TaskPCs]
  /\ tmo \in [Tasks -> BOOLEAN] /\ aborted \in [Tasks -> BOOLEAN]
  /\ produced \in [Tasks -> 0 .. MaxResp]
  /\ verdict \in [Tasks -> {"none"} \cup Verdicts]
BodyOK ==
  /\ reqq \in [Tasks -> Seq(Payloads)]
  /\ \A i \in Tasks : Len(reqq[i]) <= ReqCap
  /\ rx \in [Tasks -> {"task", "backend", "gone"}]
  /\ fed \in [Tasks -> Seq(Payloads)]
  /\ got \in [Tasks -> Seq(Payloads)]
  /\ eos \in [Tasks -> BOOLEAN]
OutOK ==
  /\ outq \in Seq(OutFrames) /\ Len(outq) <= OutCap
  /\ wire \in Seq(OutFrames)
  /\ writer \in {"running", "done"}

\* Every variable keeps its type, and no queue outgrows its capacity: a send
\* waits for room (mpsc::channel(16) and (64) in ws.rs).
TypeOK ==
  ReaderOK /\ TaskOK /\ BodyOK /\ OutOK
    /\ peer \in {"open", "closed", "vanished"} /\ params \in Handshakes

-----------------------------------------------------------------------------
Live(i) == tpc[i] \notin {"none", "done"}

\* No stream is orphaned: a running task that nobody has aborted is the one in
\* the connection's slot, and serve is still there to abort it. (run_stream is
\* spawned detached; only the slot ties it to its socket.)
NoOrphanStream ==
  \A i \in Tasks : Live(i) /\ ~aborted[i] => stream = i /\ reader \notin {"joining", "done"}

\* Payloads a stream has accepted and the backend has not yet pulled.
InFlight(i) == reqq[i] \o (IF reader = "pushing" /\ stream = i THEN <<hold>> ELSE <<>>)

\* Request messages reach the backend complete, in order, once: what it has
\* pulled and what is in flight is what the peer was let send, until the
\* backend itself drops the stream. What it pulled before that is a prefix.
RequestsInOrder ==
  \A i \in Tasks :
    LET pulled == got[i]
        accepted == [k \in DOMAIN fed[i] |-> Transcoded(fed[i][k])]
        waiting == [k \in DOMAIN InFlight(i) |-> Transcoded(InFlight(i)[k])]
    IN IF rx[i] # "gone" THEN accepted = pulled \o waiting ELSE IsPrefix(pulled, accepted)

\* The end of the request stream the backend sees is the end: every payload
\* accepted for the stream was pulled before it, and none is accepted after.
EndOfRequestsIsLast == \A i \in Tasks : eos[i] => Len(got[i]) = Len(fed[i])

-----------------------------------------------------------------------------
\* Everything the server has sent, written or still queued.
Sent == wire \o outq

Status == {"Trailer", "Reset"}

\* The frame at j is the last of task i's before position k.
LastBefore(s, i, j, k) == j \in 1 .. k - 1 /\ s[j].of = i /\ \A m \in j + 1 .. k - 1 : s[m].of # i

\* The frame a task may send first, and the one it may send after f.
MayStart(f) == f.kind \in {"Header"} \cup Status
MayFollow(f, g) ==
  \/ f.kind \in {"Header", "Message"} /\ g.kind = "Message" /\ g.n = f.n + 1
  \/ f.kind \in {"Header", "Message"} /\ g.kind \in Status
  \/ f.kind \in Status /\ g.kind = "Close"

Placed(s, i, k) ==
  \/ MayStart(s[k]) /\ \A j \in 1 .. k - 1 : s[j].of # i
  \/ \E j \in 1 .. k - 1 : LastBefore(s, i, j, k) /\ MayFollow(s[j], s[k])

\* One task's frames follow the protocol's grammar: Header, then the response
\* messages in order without a gap, then one Trailer or Reset, then one Close.
ResponseGrammar == \A i \in Tasks : \A k \in DOMAIN Sent : Sent[k].of = i => Placed(Sent, i, k)

\* The normal Close follows a terminal frame: a peer is never closed on with a
\* 1000 and no status. (run_stream: "its status already delivered".)
CloseFollowsStatus ==
  \A i \in Tasks : \A k \in DOMAIN wire :
    wire[k].kind = "Close" /\ wire[k].of = i =>
      \E j \in 1 .. k - 1 : wire[j].of = i /\ wire[j].kind \in Status

\* A status is not lost: a task that ran to its end has its terminal frame on
\* the wire or in the queue, unless the peer has left or our Close went first.
StatusNotLost ==
  \A i \in Tasks : tpc[i] = "done" /\ ~aborted[i] /\ peer = "open" /\ ~CloseSent =>
    \E k \in DOMAIN Sent : Sent[k].of = i /\ Sent[k].kind \in Status

\* An OK trailer is the whole answer: when a task reports OK, every response
\* message it took from the backend is on the wire before the trailer.
OkMeansComplete ==
  \A k \in DOMAIN wire : wire[k].kind = "Trailer" /\ wire[k].code = "OK" =>
    LET i == wire[k].of IN
      /\ verdict[i] \notin {"none", "ERROR"}
      /\ \A n \in 1 .. produced[i] :
           \E j \in 1 .. k - 1 : wire[j] = Out("Message", i, n, "none")

\* A socket of a JSON connection opens one stream at most: its first frame is
\* the only one decode_text turns into a Subscribe.
JsonOpensOnce == codec = "text" => ntask <= 1

-----------------------------------------------------------------------------
Gone == peer = "closed" \/ (KeepAlive /\ peer = "vanished")

\* handle_frame waits in tx.send, which nothing but the backend can end: it is to pull
\* a request or to drop its receiver.
Stalled == reader = "pushing" /\ rx[stream] = "backend" /\ Len(reqq[stream]) >= ReqCap

\* Once the peer is gone, and the server can tell, everything the connection started comes to
\* an end: the read loop, the stream task, the writer, the backend's call. Only a backend that
\* neither pulls nor drops its requests again may prevent that, by holding the read loop up in
\* a send.
ShutdownCompletes == (<>Gone) => (<>Finished \/ <>[]Stalled)

-----------------------------------------------------------------------------
(* Claims of the documents, each checked by a run of its own.              *)

\* PROTOCOL.md: a Trailer carries the terminal gRPC status of an RPC that
\* reached the upstream (normal completion or an error status it returned).
OkMeansBackendOk ==
  \A k \in DOMAIN wire : wire[k].kind = "Trailer" /\ wire[k].code = "OK" =>
    verdict[wire[k].of] # "broken"
=============================================================================
