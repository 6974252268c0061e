--------------------------- MODULE WsStreamProofs ---------------------------
(***************************************************************************)
(* Proofs about WsStream, the client and the server joined, for every      *)
(* instance of it.                                                         *)
(*   ServerIsWsServer       the server's part of a call is a behaviour of  *)
(*     WsServer, so that all that is proved of WsServer holds here;        *)
(*   WsImplementsRpcStream  the call keeps the contract of RpcStream.      *)
(* What the client has in flight is followed by place: FlowInv numbers the *)
(* messages of its queue by where they stand in `sent`, ReadInv compares   *)
(* what it has delivered with the frames of `wire` it has taken.           *)
(***************************************************************************)
EXTENDS WsStream, WsServerProofs

ServerInv == TypeOK /\ SlotInv /\ OpenInv /\ RequestsInv /\ OrderInv /\ RepliesInv

-----------------------------------------------------------------------------
(* More about the frames of the server: who they are from, what a status   *)
(* other than a Trailer says, and how far they number the messages.        *)

FrameFact(f) ==
  /\ f.of <= ntask
  /\ f.kind = "Header" => f.n = 0
  /\ f.kind \in {"Close", "Reset"} => f.code # "OK"
  /\ f.kind = "Message" => f.n <= produced[f.of]
FramesInv == \A k \in DOMAIN Sent : FrameFact(Sent[k])

\* The frames a step may send: a task's, a refusal of the reader's, or the close
\* of a rejected handshake.
Speaks(i) == i \in Tasks /\ tpc[i] \in Terminating \cup {"header", "message", "close"}
NewFrame(f) ==
  \/ \E i \in Tasks : Speaks(i) /\ f = TaskFrame(i)
  \/ \E r \in DOMAIN ReplyCode : f = Out("Reset", 0, 0, ReplyCode[r])
  \/ f = Out("Close", 0, 0, params.reject)

\* What is sent is what was sent, cut short or with one such frame more.
SentGrows ==
  \A k \in DOMAIN Sent' : (k \in DOMAIN Sent /\ Sent'[k] = Sent[k]) \/ NewFrame(Sent'[k])

\* A send leaves what was written, and adds at most the frame sent.
LEMMA EnqueueGrows ==
  ASSUME TypeOK, NEW f \in OutFrames, NewFrame(f), Enqueue(f), UNCHANGED <<writer, wire>>
  PROVE  SentGrows
<1>1. CASE Sent' = Sent
  BY <1>1 DEF SentGrows
<1>2. CASE Sent' = Append(Sent, f)
  <2>1. \A k \in DOMAIN Append(Sent, f) : k \in DOMAIN Sent \/ k = Len(Sent) + 1
    BY SentType
  <2>2. /\ \A k \in DOMAIN Sent : Append(Sent, f)[k] = Sent[k]
        /\ Append(Sent, f)[Len(Sent) + 1] = f
    BY SentType
  <2> QED BY <1>2, <2>1, <2>2 DEF SentGrows
<1> QED BY <1>1, <1>2, EnqueueSends

\* How each step of the server changes what is sent and what is written.
LEMMA StepSends ==
  ASSUME TypeOK, RepliesInv, [Next]_vars
  PROVE  SentGrows /\ Begins(wire, wire')
<1>1. wire \in Seq(OutFrames) /\ Len(wire) \in Nat /\ DOMAIN wire = 1 .. Len(wire)
  BY SentType
<1>2. Begins(wire, wire)
  BY <1>1 DEF Begins
<1>3. CASE UNCHANGED outVars
  <2>1. Sent' = Sent /\ wire' = wire
    BY <1>3 DEF outVars, Sent
  <2> QED BY <2>1, <1>2 DEF SentGrows
<1>4. CASE WriterSends
  <2>1. Sent' = Sent
    BY <1>4, WriterSendsSame
  <2>2. Begins(wire, wire')
    <3>1. wire' = Append(wire, Head(outq)) /\ Head(outq) \in OutFrames
      BY <1>4, SentType DEF WriterSends
    <3> QED BY <3>1, <1>1, AppendIs
  <2> QED BY <2>1, <2>2 DEF SentGrows
<1>5. CASE WriterFails \/ WriterEnds
  <2>1. wire' = wire /\ outq' = <<>>
    BY <1>5 DEF WriterFails, WriterEnds, WriterStops
  <2>2. Sent' = wire
    BY <2>1, <1>1 DEF Sent
  <2> QED BY <2>1, <2>2, <1>2, WireBegins DEF SentGrows
<1>6. ASSUME NEW i \in Tasks, TaskSends(i) PROVE SentGrows /\ Begins(wire, wire')
  <2>1. TaskFrame(i) \in OutFrames
    BY <1>6, TaskFrameIsFrame DEF TaskSends
  <2>2. NewFrame(TaskFrame(i))
    BY <1>6 DEF TaskSends, NewFrame, Speaks
  <2>3. Enqueue(TaskFrame(i)) /\ UNCHANGED <<writer, wire>>
    BY <1>6 DEF TaskSends
  <2> QED BY <2>1, <2>2, <2>3, <1>2, EnqueueGrows
<1>7. CASE ReplyDone
  <2> DEFINE f == Out("Reset", 0, 0, ReplyCode[reader])
  <2>1. f \in OutFrames /\ NewFrame(f)
    BY <1>7, OutIsFrame, BoundAssumption DEF ReplyDone, NewFrame, ReplyCode, Codes
  <2>2. Enqueue(f) /\ UNCHANGED <<writer, wire>>
    BY <1>7 DEF ReplyDone
  <2> HIDE DEF f
  <2> QED BY <2>1, <2>2, <1>2, EnqueueGrows
<1>8. CASE RejectHandshake
  <2>1. Sent = <<>> /\ wire = <<>> /\ outq = <<>>
    <3>1. Sent = <<>>
      BY <1>8 DEF RejectHandshake, RepliesInv, WriterInv
    <3>2. wire = <<>> /\ outq = <<>>
      <4>1. Len(wire \o outq) = Len(wire) + Len(outq) /\ Len(wire) \in Nat /\ Len(outq) \in Nat
        BY SentType
      <4>2. Len(wire \o outq) = 0
        BY <3>1 DEF Sent
      <4>3. Len(wire) = 0 /\ Len(outq) = 0
        BY <4>1, <4>2
      <4> QED BY <4>3, SentType, EmptySeq
    <3> QED BY <3>1, <3>2
  <2> DEFINE f == Out("Close", 0, 0, params.reject)
  <2>2. outq' = outq /\ (wire' = wire \/ wire' = <<f>>)
    BY <1>8 DEF RejectHandshake
  <2>3. NewFrame(f)
    BY DEF NewFrame
  <2> HIDE DEF f
  <2>4. Begins(wire, wire')
    BY <2>1, <2>2, <1>2 DEF Begins
  <2>5. Sent' = <<>> \/ Sent' = <<f>>
    BY <2>1, <2>2 DEF Sent
  <2> QED BY <2>3, <2>4, <2>5 DEF SentGrows
<1>9. ASSUME NEW i \in Tasks, Task(i) \/ BackendResponds(i) \/ BackendReads(i), ~TaskSends(i)
      PROVE  UNCHANGED outVars
  BY <1>9
  DEF Task, Resolve, EncodeFails, TimeoutExpires, Cancelled, BackendResponds, BackendAnswers,
      BackendRefuses, BackendYields, BackendEnds, Advance, BackendReads, BackendPulls,
      BackendSeesEnd, BackendDrops
<1>10. ASSUME NEW f \in PeerFrames, ReadFrame(f) PROVE UNCHANGED outVars
  BY <1>10
  DEF ReadFrame, ReadIgnored, SubscribeAgain, SubscribeOversize, Subscribe, MessageOversize,
      Message, MessageIgnored, HalfClose, Reset, Take
<1>11. CASE PushDone \/ EndOfInput \/ Join \/ KeepaliveExpires \/ PeerLeaves
  BY <1>3, <1>11 DEF PushDone, EndOfInput, LeaveLoop, Join, KeepaliveExpires, PeerLeaves
<1>12. CASE UNCHANGED vars
  BY <1>3, <1>12 DEF vars
<1> QED
  BY <1>3, <1>4, <1>5, <1>6, <1>7, <1>8, <1>9, <1>10, <1>11, <1>12
  DEF Next, ServerStep, Reader, Writer, Terminated

\* Tasks and answers are only ever added, and a task that is closing stays so.
LEMMA ServerMoves ==
  ASSUME TypeOK, SlotInv, [Next]_vars
  PROVE  /\ ntask' >= ntask
         /\ \A i \in Tasks : /\ produced'[i] >= produced[i]
                             /\ tpc[i] \in {"close", "done"} => tpc'[i] \in {"close", "done"}
<1>1. /\ ntask \in Nat /\ \A i \in Tasks : produced[i] \in Nat /\ i \in Nat
  BY BoundAssumption DEF TypeOK, TaskOK, Tasks
<1>2. CASE UNCHANGED taskVars
  BY <1>1, <1>2 DEF taskVars
<1>3. ASSUME NEW f \in PeerFrames, ReadFrame(f)
      PROVE  /\ ntask' >= ntask /\ produced' = produced
             /\ \A i \in Tasks : i # ntask + 1 => tpc'[i] = tpc[i]
  <2>1. CASE Subscribe(f)
    BY <1>1, <2>1 DEF Subscribe, TypeOK, TaskOK
  <2>2. CASE Reset(f)
    BY <1>1, <2>2 DEF Reset
  <2> QED
    BY <1>1, <1>3, <2>1, <2>2
    DEF ReadFrame, ReadIgnored, SubscribeAgain, SubscribeOversize, MessageOversize, Message,
        MessageIgnored, HalfClose, taskVars
<1>4. ASSUME NEW f \in PeerFrames, ReadFrame(f)
      PROVE  /\ ntask' >= ntask
             /\ \A i \in Tasks : /\ produced'[i] >= produced[i]
                                 /\ tpc[i] \in {"close", "done"} => tpc'[i] \in {"close", "done"}
  <2>1. \A i \in Tasks : tpc[i] \in {"close", "done"} => i # ntask + 1
    BY <1>1 DEF SlotInv
  <2> QED BY <1>1, <1>3, <1>4, <2>1
<1>5. ASSUME NEW i \in Tasks, Task(i) \/ BackendResponds(i)
      PROVE  /\ ntask' = ntask
             /\ produced' = produced \/ produced' = [produced EXCEPT ![i] = @ + 1]
             /\ \E pc : tpc' = [tpc EXCEPT ![i] = pc] /\ (tpc[i] \in {"close", "done"} => pc = "done")
  <2>1. CASE TaskSends(i)
    BY <2>1 DEF TaskSends, Goto, AfterSend, Terminating
  <2>2. CASE Cancelled(i)
    BY <2>2 DEF Cancelled, Goto
  <2> QED
    BY <1>5, <2>1, <2>2
    DEF Task, Resolve, EncodeFails, TimeoutExpires, BackendResponds, BackendAnswers,
        BackendRefuses, BackendYields, BackendEnds, Advance, Goto, Pumping
<1>6. ASSUME NEW i \in Tasks, Task(i) \/ BackendResponds(i)
      PROVE  /\ ntask' >= ntask
             /\ \A j \in Tasks : /\ produced'[j] >= produced[j]
                                 /\ tpc[j] \in {"close", "done"} => tpc'[j] \in {"close", "done"}
  BY <1>1, <1>5, <1>6 DEF TypeOK, TaskOK
<1>7. ASSUME NEW i \in Tasks, BackendReads(i) PROVE UNCHANGED taskVars
  BY <1>7 DEF BackendReads, BackendPulls, BackendSeesEnd, BackendDrops
<1>8. CASE Reader \/ KeepaliveExpires \/ Writer \/ PeerLeaves \/ UNCHANGED vars
  BY <1>1, <1>8
  DEF Reader, PushDone, ReplyDone, EndOfInput, LeaveLoop, Join, RejectHandshake, KeepaliveExpires,
      Writer, WriterSends, WriterFails, WriterEnds, WriterStops, PeerLeaves, vars, taskVars
<1>9. CASE UNCHANGED taskVars \/ \E f \in PeerFrames : ReadFrame(f)
  BY <1>2, <1>4, <1>9
<1>10. CASE \E i \in Tasks : Task(i) \/ BackendResponds(i)
  BY <1>6, <1>10
<1> QED
  BY <1>7, <1>8, <1>9, <1>10 DEF Next, ServerStep, Terminated

\* The facts of a frame stay true as tasks and answers are added.
LEMMA FactsStay ==
  ASSUME TypeOK, SlotInv, [Next]_vars, NEW f \in OutFrames, FrameFact(f),
         f.kind = "Message" => f.of # 0
  PROVE  FrameFact(f)'
<1>1. f.of \in 0 .. MaxStreams /\ f.n \in Nat /\ ntask \in Nat /\ ntask' \in Nat
  BY TypeStep, BoundAssumption DEF OutFrames, TypeOK, TaskOK
<1>2. f.of # 0 => f.of \in Tasks /\ produced[f.of] \in Nat /\ produced'[f.of] \in Nat
  BY <1>1, TypeStep, BoundAssumption DEF TypeOK, TaskOK, Tasks
<1>3. ntask' >= ntask /\ (f.of # 0 => produced'[f.of] >= produced[f.of])
  BY <1>2, ServerMoves
<1> QED BY <1>1, <1>2, <1>3 DEF FrameFact

\* They are true of a frame as it is sent.
LEMMA NewFacts ==
  ASSUME TypeOK, SlotInv, NEW f, NewFrame(f)
  PROVE  FrameFact(f) /\ f \in OutFrames /\ (f.kind = "Message" => f.of # 0)
<1>1. CASE \E r \in DOMAIN ReplyCode : f = Out("Reset", 0, 0, ReplyCode[r])
  <2>1. f \in OutFrames
    BY <1>1, OutIsFrame, BoundAssumption DEF ReplyCode, Codes
  <2> QED BY <1>1, <2>1, BoundAssumption DEF FrameFact, Out, ReplyCode, TypeOK, TaskOK
<1>2. CASE f = Out("Close", 0, 0, params.reject)
  <2>1. params.reject \in {"none", "UNIMPLEMENTED", "FAILED_PRECONDITION"}
    BY ConfigAssumption DEF TypeOK, Handshake
  <2>2. f \in OutFrames
    BY <1>2, <2>1, OutIsFrame, BoundAssumption DEF Codes
  <2> QED BY <1>2, <2>1, <2>2, BoundAssumption DEF FrameFact, Out, TypeOK, TaskOK
<1>3. ASSUME NEW i \in Tasks, Speaks(i), f = TaskFrame(i)
      PROVE  FrameFact(f) /\ f \in OutFrames /\ (f.kind = "Message" => f.of # 0)
  <2>1. f \in OutFrames
    BY <1>3, TaskFrameIsFrame DEF Speaks
  <2>2. i <= ntask /\ i # 0 /\ produced[i] \in Nat
    BY <1>3, BoundAssumption DEF Speaks, Terminating, SlotInv, TypeOK, TaskOK, Tasks
  <2> QED BY <1>3, <2>1, <2>2 DEF FrameFact, TaskFrame, Speaks, Terminating, Out
<1> QED BY <1>1, <1>2, <1>3 DEF NewFrame

\* Messages are from tasks.
LEMMA MessagesFromTasks ==
  ASSUME TypeOK, RepliesInv, NEW k \in DOMAIN Sent
  PROVE  Sent[k] \in OutFrames /\ (Sent[k].kind = "Message" => Sent[k].of # 0)
<1>1. Sent[k] \in OutFrames
  BY SentType
<1> QED BY <1>1 DEF RepliesInv, ChannelInv, Ordered

LEMMA FramesStep == TypeOK /\ SlotInv /\ RepliesInv /\ FramesInv /\ [Next]_vars => FramesInv'
<1> SUFFICES ASSUME TypeOK, SlotInv, RepliesInv, FramesInv, [Next]_vars, NEW k \in DOMAIN Sent'
             PROVE  FrameFact(Sent[k])'
  BY DEF FramesInv
<1> PICK f : f = Sent'[k]
  OBVIOUS
<1>1. f \in OutFrames /\ FrameFact(f) /\ (f.kind = "Message" => f.of # 0)
  <2>1. CASE k \in DOMAIN Sent /\ f = Sent[k]
    BY <2>1, MessagesFromTasks DEF FramesInv
  <2>2. CASE NewFrame(f)
    BY <2>2, NewFacts
  <2> QED BY <2>1, <2>2, StepSends DEF SentGrows
<1>2. FrameFact(f)'
  BY <1>1, FactsStay
<1> QED BY <1>2 DEF FrameFact

-----------------------------------------------------------------------------
(* The frames in flight, and the server of the composition.                *)

Msg(p) == Frame("Message", p, FALSE)
UpFrames == ClientFrames \cup {Frame("Close", NoPayload, FALSE)}
QueueInv == up \in Seq(UpFrames) /\ pending \in Seq(UpFrames)

\* Frames that neither open the stream nor carry a message.
Plain(fs) == fs \in Seq(UpFrames) /\ \A k \in DOMAIN fs : fs[k].kind \notin {"Subscribe", "Message"}

\* What the client's frames are.
LEMMA FrameIs ==
  /\ \A f \in UpFrames :
       /\ f.ty = IF Json THEN "text" ELSE "bin"
       /\ f.kind \in {"Subscribe", "HalfClose", "Message", "Reset", "Close"}
       /\ f.kind = "Message" => f.p \in AppPayload
       /\ f.kind = "Subscribe" => f = OpenFrame /\ ~Json
       /\ f.kind # "Close" => f \in PeerFrames
  /\ OpenFrame \in UpFrames /\ OpenFrame.kind # "Message" /\ OpenFrame.p = NoPayload
  /\ \A p \in AppPayload : Msg(p) \in UpFrames /\ Msg(p).kind = "Message" /\ Msg(p).p = p
<1>1. \A f \in ClientFrames : f \in PeerFrames
  BY ClientIsAPeer
<1>2. ASSUME NEW f \in UpFrames
      PROVE  /\ f.ty = IF Json THEN "text" ELSE "bin"
             /\ f.kind \in {"Subscribe", "HalfClose", "Message", "Reset", "Close"}
             /\ f.kind = "Message" => f.p \in AppPayload
             /\ f.kind = "Subscribe" => f = OpenFrame /\ ~Json
             /\ f.kind # "Close" => f \in PeerFrames
  <2>1. CASE f = OpenFrame \/ f = Frame("HalfClose", NoPayload, FALSE) \/ f = Frame("Reset", NoPayload, FALSE)
    BY <1>1, <2>1 DEF ClientFrames, OpenFrame, Frame
  <2>2. CASE \E p \in AppPayload : f = Frame("Message", p, FALSE)
    BY <1>1, <2>2 DEF ClientFrames, Frame
  <2>3. CASE f = Frame("Close", NoPayload, FALSE)
    BY <2>3 DEF Frame
  <2> QED BY <2>1, <2>2, <2>3 DEF UpFrames, ClientFrames
<1>3. OpenFrame \in UpFrames /\ OpenFrame.kind # "Message" /\ OpenFrame.p = NoPayload
  BY DEF UpFrames, ClientFrames, OpenFrame, Frame
<1>4. \A p \in AppPayload : Msg(p) \in UpFrames /\ Msg(p).kind = "Message" /\ Msg(p).p = p
  BY DEF UpFrames, ClientFrames, Frame, Msg
<1> QED BY <1>2, <1>3, <1>4

\* The frames the client sends besides its messages.
LEMMA PlainFrames ==
  LET r == Frame("Reset", NoPayload, FALSE)
      c == Frame("Close", NoPayload, FALSE)
      h == Frame("HalfClose", NoPayload, FALSE)
  IN  Plain(<<>>) /\ Plain(<<r>>) /\ Plain(<<c>>) /\ Plain(<<h>>) /\ Plain(<<r, c>>)
  BY DEF Plain, UpFrames, ClientFrames, Frame

\* What a turn of the client puts on the connection, and what it queues.
Transmits(fs) == up' = IF ws = "open" THEN up \o fs ELSE up
SendsNone ==
  /\ sent' = sent
  /\ \E fs : Plain(fs) /\ Transmits(fs)
  /\ \E fs : Plain(fs) /\ pending' = pending \o fs
SendsOne(p) ==
  /\ sent' = Append(sent, p)
  /\ IF open_ THEN Transmits(<<Msg(p)>>) /\ pending' = pending
     ELSE pending' = pending \o <<Msg(p)>> /\ up' = up

LEMMA ClientSends ==
  ASSUME QueueInv, Client
  PROVE  SendsNone \/ \E p \in AppPayload : SendsOne(p)
<1> DEFINE r == Frame("Reset", NoPayload, FALSE)
           c == Frame("Close", NoPayload, FALSE)
           h == Frame("HalfClose", NoPayload, FALSE)
<1>1. Plain(<<>>) /\ Plain(<<r>>) /\ Plain(<<c>>) /\ Plain(<<h>>) /\ Plain(<<r, c>>)
  BY PlainFrames
<1>2. up \o <<>> = up /\ pending \o <<>> = pending
  BY DEF QueueInv
<1>3. \A p \in AppPayload : Append(pending, Msg(p)) = pending \o <<Msg(p)>>
  BY FrameIs, AppendIsConcat DEF QueueInv
<1>4. \A f \in {r, h} : Append(pending, f) = pending \o <<f>>
  BY AppendIsConcat DEF QueueInv, UpFrames, ClientFrames
<1> HIDE DEF r, c, h
<1>5. Append(<<>>, c) = <<c>> /\ Append(<<r>>, c) = <<r, c>>
  <2>1. Append(<<>>, c) = <<c>>
    OBVIOUS
  <2>2. <<r>> \in Seq({r, c}) /\ <<r, c>> \in Seq({r, c})
    OBVIOUS
  <2>3. /\ Append(<<r>>, c) \in Seq({r, c}) /\ Len(Append(<<r>>, c)) = 2
        /\ Append(<<r>>, c)[1] = r /\ Append(<<r>>, c)[2] = c
    BY <2>2
  <2>4. Len(<<r, c>>) = 2 /\ <<r, c>>[1] = r /\ <<r, c>>[2] = c
    OBVIOUS
  <2>5. \A i \in 1 .. 2 : i = 1 \/ i = 2
    OBVIOUS
  <2>6. Append(<<r>>, c) = <<r, c>>
    <3> DEFINE s == Append(<<r>>, c)
               t == <<r, c>>
    <3>1. /\ s \in Seq({r, c}) /\ t \in Seq({r, c}) /\ Len(s) = Len(t)
          /\ \A i \in 1 .. Len(s) : s[i] = t[i]
      BY <2>2, <2>3, <2>4, <2>5
    <3> HIDE DEF s, t
    <3>2. s = t
      BY <3>1, SeqEqual
    <3> QED BY <3>2 DEF s, t
  <2> QED BY <2>1, <2>6
<1>6. ASSUME NEW p \in AppPayload, AppSends(p) PROVE SendsOne(p)
  BY <1>3, <1>6 DEF AppSends, sendRaw, Transmit, SendsOne, Transmits, Msg
<1>7. CASE AppHalfCloses
  <2>1. sent' = sent /\ sendRaw(h)
    BY <1>7 DEF AppHalfCloses, h
  <2>2. \/ up' = (IF ws = "open" THEN up \o <<h>> ELSE up) /\ pending' = pending
        \/ up' = up /\ pending' = pending \o <<h>>
    BY <2>1, <1>4 DEF sendRaw, Transmit
  <2> QED BY <2>1, <2>2, <1>1, <1>2 DEF SendsNone, Transmits
<1>8. ASSUME NEW code, Terminate(code) PROVE SendsNone
  <2>1. sent' = sent /\ pending' \in {pending, pending \o <<r>>}
    BY <1>4, <1>8 DEF Terminate, r
  <2>2. up' \in {IF ws = "open" THEN up \o <<r, c>> ELSE up, IF ws = "open" THEN up \o <<c>> ELSE up}
    BY <1>5, <1>8 DEF Terminate, CloseSocket, Transmit, r, c
  <2> QED BY <2>1, <2>2, <1>1, <1>2 DEF SendsNone, Transmits
<1>9. CASE TransportCloses
  <2>1. sent' = sent /\ pending' = pending /\ up' = IF ws = "open" THEN up \o <<c>> ELSE up
    BY <1>5, <1>9 DEF TransportCloses, CloseSocket, Transmit, c
  <2> QED BY <2>1, <1>1, <1>2 DEF SendsNone, Transmits
<1> QED BY <1>6, <1>7, <1>8, <1>9 DEF Client

LEMMA QueueInit == StreamInit => QueueInv
  BY FrameIs DEF StreamInit, ClientInit, QueueInv

LEMMA QueueStep == QueueInv /\ [StreamNext]_streamVars => QueueInv'
<1> SUFFICES ASSUME QueueInv, [StreamNext]_streamVars PROVE QueueInv'
  OBVIOUS
<1>1. CASE Client
  <2>1. CASE SendsNone
    BY <2>1 DEF SendsNone, Transmits, Plain, QueueInv
  <2>2. ASSUME NEW p \in AppPayload, SendsOne(p) PROVE QueueInv'
    <3>1. <<Msg(p)>> \in Seq(UpFrames)
      BY FrameIs
    <3>2. up \o <<Msg(p)>> \in Seq(UpFrames) /\ pending \o <<Msg(p)>> \in Seq(UpFrames)
      BY <3>1 DEF QueueInv
    <3> QED BY <2>2, <3>2 DEF SendsOne, Transmits, QueueInv
  <2> QED BY <1>1, <2>1, <2>2, ClientSends
<1>2. CASE ClientOpens
  BY <1>2 DEF ClientOpens, OnOpen, QueueInv
<1>3. CASE ServerReads
  BY <1>3 DEF ServerReads, QueueInv
<1>4. CASE LinkBreaks
  BY <1>4 DEF LinkBreaks, QueueInv
<1>5. CASE UNCHANGED <<up, pending>>
  BY <1>5 DEF QueueInv
<1> QED
  BY <1>1, <1>2, <1>3, <1>4, <1>5
  DEF StreamNext, ClientReads, OnFrame, OnClose, ClientDrops, Server, ServerSeesClose,
      StreamTerminated, streamVars, clientVars

\* Each step of the composition is a step of a WsServer or leaves the server alone.
LEMMA StepOfServer == QueueInv /\ [StreamNext]_streamVars => [Next]_vars
<1> SUFFICES ASSUME QueueInv, [StreamNext]_streamVars PROVE [Next]_vars
  OBVIOUS
<1>1. CASE Client \/ ClientOpens \/ ClientReads \/ ClientDrops \/ StreamTerminated \/ UNCHANGED streamVars
  BY <1>1 DEF Client, ClientOpens, ClientReads, ClientDrops, StreamTerminated, streamVars
<1>2. CASE Server
  BY <1>2 DEF Server, Next
<1>3. CASE ServerReads
  <2>1. Head(up) \in UpFrames
    BY <1>3 DEF ServerReads, QueueInv
  <2>2. Head(up) \in PeerFrames
    BY <1>3, <2>1, FrameIs DEF ServerReads
  <2> QED BY <1>3, <2>2 DEF ServerReads, Next
<1>4. CASE ServerSeesClose \/ LinkBreaks
  <2>1. PeerLeaves
    BY <1>4 DEF ServerSeesClose, LinkBreaks, PeerLeaves
  <2> QED BY <2>1 DEF Next
<1> QED BY <1>1, <1>2, <1>3, <1>4 DEF StreamNext

\* The server joined to the client runs as one whose peer is arbitrary: every theorem
\* about WsServer holds of it, whatever the client, its application and the connection do.
THEOREM ServerIsWsServer == StreamSpec => Spec
<1>1. StreamInit => Init
  BY DEF StreamInit
<1> QED BY <1>1, QueueInit, QueueStep, StepOfServer, PTL DEF StreamSpec, Spec

\* What is known of the server in every reachable state.
LEMMA ServerHolds == StreamSpec => [](ServerInv /\ FramesInv)
<1>1. Init => ServerInv
  BY TypeInit, SlotInit, OpenInit, RequestsInit, OrderInit, RepliesInit DEF ServerInv
<1>2. Init => FramesInv
  BY DEF Init, Sent, FramesInv
<1>3. ServerInv /\ [Next]_vars => ServerInv'
  BY TypeStep, SlotStep, OpenStep, RequestsStep, OrderStep, RepliesStep DEF ServerInv
<1>4. ServerInv /\ FramesInv /\ [Next]_vars => FramesInv'
  BY FramesStep DEF ServerInv
<1> QED BY <1>1, <1>2, <1>3, <1>4, ServerIsWsServer, PTL DEF Spec

-----------------------------------------------------------------------------
(* The opening. The first frame the server reads is the open frame, which  *)
(* opens the one stream of the connection; no other frame opens one.       *)

OpeningInv ==
  /\ codec = IF Json THEN "text" ELSE "bin"
  /\ ntask <= 1
  /\ \A j \in DOMAIN up : up[j].kind = "Subscribe" => ~opened /\ j = 1
  /\ \A j \in DOMAIN pending : pending[j].kind = "Subscribe" => j = 1
  /\ ws = "connecting" => up = <<>> /\ ~opened /\ ~open_ /\ pending # <<>> /\ pending[1] = OpenFrame
  /\ ws = "open" => open_
  /\ ~opened /\ peer = "open" /\ ws # "connecting" =>
       \/ up = <<>> /\ ws # "open"
       \/ up # <<>> /\ up[1] = OpenFrame

\* What the frames of the client decode to.
LEMMA DecodesAs ==
  ASSUME OpeningInv, NEW f \in UpFrames, f.kind # "Close"
  PROVE  /\ opened /\ f.kind # "Subscribe" => Decode(f) = f.kind
         /\ ~opened /\ f = OpenFrame => Decode(f) = "Subscribe"
<1>1. f.ty = codec /\ codec \in {"text", "bin"} /\ f.kind \in {"Subscribe", "HalfClose", "Message", "Reset"}
  BY FrameIs DEF OpeningInv
<1>2. Decode(f) = IF codec = "bin" THEN DecodeBinary(f) ELSE DecodeText(f)
  BY <1>1 DEF Decode, Locked
<1>3. ~opened /\ f = OpenFrame => Decode(f) = "Subscribe"
  BY <1>1, <1>2 DEF DecodeBinary, DecodeText, OpenFrame, Frame, OpeningInv
<1> QED BY <1>1, <1>2, <1>3 DEF DecodeBinary, DecodeText

\* What the server may make of the next frame.
LEMMA ReadsWhat ==
  ASSUME ServerInv, QueueInv, OpeningInv, ServerReads, NEW f, f = Head(up)
  PROVE  /\ up # <<>> /\ f = up[1] /\ f \in UpFrames /\ ws # "connecting"
         /\ f.kind # "Close" /\ f \in PeerFrames /\ ReadFrame(f) /\ peer = "open"
         /\ ~opened => f = OpenFrame /\ Subscribe(f) /\ stream = 0
         /\ opened =>
              \/ f.kind = "Message" /\ (MessageOversize(f) \/ Message(f) \/ MessageIgnored(f))
              \/ f.kind = "HalfClose" /\ HalfClose(f)
              \/ f.kind = "Reset" /\ Reset(f)
<1>1. up # <<>> /\ f.kind # "Close" /\ ReadFrame(f) /\ peer = "open"
  BY DEF ServerReads
<1>2. f = up[1] /\ f \in UpFrames /\ 1 \in DOMAIN up /\ ws # "connecting"
  BY <1>1 DEF QueueInv, OpeningInv
<1>3. f \in PeerFrames
  BY <1>1, <1>2, FrameIs
<1>4. ASSUME ~opened PROVE f = OpenFrame /\ Subscribe(f) /\ stream = 0
  <2>1. f = OpenFrame
    BY <1>1, <1>2, <1>4 DEF OpeningInv
  <2>2. Decode(f) = "Subscribe"
    BY <1>1, <1>2, <1>4, <2>1, DecodesAs
  <2>3. stream = 0
    BY <1>4 DEF ServerInv, OpenInv, TypeOK, ReaderOK
  <2>4. f.p \notin Oversize
    BY <2>1, FrameIs, CodecAssumption, PayloadAssumption
  <2>5. ~SubscribeAgain(f) /\ ~SubscribeOversize(f)
    BY <2>3, <2>4 DEF SubscribeAgain, SubscribeOversize
  <2>6. \A kind : kind # "Subscribe" => ~Take(f, kind)
    BY <2>2 DEF Take
  <2>7. Subscribe(f)
    BY <1>1, <2>5, <2>6 DEF ReadFrame, ReadIgnored, MessageOversize, Message, MessageIgnored, HalfClose, Reset
  <2> QED BY <2>1, <2>3, <2>7
<1>5. ASSUME opened
      PROVE  \/ f.kind = "Message" /\ (MessageOversize(f) \/ Message(f) \/ MessageIgnored(f))
             \/ f.kind = "HalfClose" /\ HalfClose(f)
             \/ f.kind = "Reset" /\ Reset(f)
  <2>1. f.kind # "Subscribe"
    BY <1>2, <1>5 DEF OpeningInv
  <2>2. Decode(f) = f.kind /\ f.kind \in {"HalfClose", "Message", "Reset"}
    BY <1>1, <1>2, <1>5, <2>1, DecodesAs, FrameIs
  <2>3. \A kind : Take(f, kind) => kind = f.kind
    BY <2>2 DEF Take
  <2> QED
    BY <1>1, <2>2, <2>3
    DEF ReadFrame, ReadIgnored, SubscribeAgain, SubscribeOversize, Subscribe, MessageOversize,
        Message, MessageIgnored, HalfClose, Reset
<1> QED BY <1>1, <1>2, <1>3, <1>4, <1>5

\* What a turn of the client does to the socket.
LEMMA ClientMoves ==
  ASSUME Client
  PROVE  /\ open_' = open_ /\ delivered' = delivered /\ ~finished
         /\ ws' = ws \/ (ws' = "closing" /\ ws \in {"connecting", "open"})
         /\ UNCHANGED <<vars, cpos, link>>
  BY DEF Client, AppSends, AppHalfCloses, Terminate, CloseSocket, TransportCloses

\* What the server does on its own opens nothing and accepts nothing.
LEMMA ServerKeeps ==
  ASSUME Server
  PROVE  /\ UNCHANGED <<clientVars, cpos, link, peer, opened, ntask, fed>>
         /\ feeding' => feeding /\ (reader = "reply_abort" => reader' = "reply_abort")
         /\ reader' = "reply_abort" => reader = "reply_abort"
<1>1. UNCHANGED <<clientVars, cpos, link>>
  BY DEF Server
<1>2. CASE Writer
  BY <1>1, <1>2 DEF Writer, WriterSends, WriterFails, WriterEnds, WriterStops, readerVars, taskVars, bodyVars
<1>3. CASE \E i \in Tasks : Task(i) \/ BackendResponds(i) \/ BackendReads(i)
  BY <1>1, <1>3
  DEF Task, Resolve, EncodeFails, TimeoutExpires, TaskSends, Cancelled,
      BackendResponds, BackendAnswers, BackendRefuses, BackendYields, BackendEnds, Advance,
      BackendReads, BackendPulls, BackendSeesEnd, BackendDrops, readerVars, taskVars, bodyVars
<1>4. CASE Reader \/ KeepaliveExpires
  BY <1>1, <1>4
  DEF Reader, PushDone, ReplyDone, ReplyCode, TakeStream, EndOfInput, LeaveLoop, Join, RejectHandshake,
      KeepaliveExpires, taskVars, bodyVars
<1> QED BY <1>1, <1>2, <1>3, <1>4 DEF Server, ServerStep

LEMMA OpeningInit == StreamInit => OpeningInv
<1> SUFFICES ASSUME StreamInit PROVE OpeningInv
  OBVIOUS
<1>1. codec = IF Json THEN "text" ELSE "bin"
  BY CodecAssumption DEF StreamInit, Init
<1> QED BY <1>1 DEF StreamInit, Init, ClientInit, OpeningInv

\* Every step keeps OpeningInv.
LEMMA OpeningStep ==
  ServerInv /\ QueueInv /\ OpeningInv /\ [StreamNext]_streamVars => OpeningInv'
<1> SUFFICES ASSUME ServerInv, QueueInv, OpeningInv, [StreamNext]_streamVars PROVE OpeningInv'
  OBVIOUS
<1>1. codec' = IF Json THEN "text" ELSE "bin"
  BY CodecStep, StepOfServer DEF OpeningInv
<1>2. CASE Client
  <2>1. UNCHANGED <<opened, ntask, peer, open_>> /\ (ws' = ws \/ (ws' = "closing" /\ ws \in {"connecting", "open"}))
    BY <1>2, ClientMoves DEF vars, readerVars, taskVars
  <2>2. PICK fs \in Seq(UpFrames), gs \in Seq(UpFrames) :
          /\ \A k \in DOMAIN fs : fs[k].kind # "Subscribe"
          /\ \A k \in DOMAIN gs : gs[k].kind # "Subscribe"
          /\ up' = up \o fs /\ (ws # "open" => up' = up)
          /\ pending' = pending \o gs
    <3>1. \A q \in Seq(UpFrames) : q = q \o <<>>
      OBVIOUS
    <3>2. <<>> \in Seq(UpFrames) /\ \A k \in DOMAIN <<>> : <<>>[k].kind # "Subscribe"
      OBVIOUS
    <3>3. CASE SendsNone
      BY <3>1, <3>2, <3>3 DEF SendsNone, Transmits, Plain, QueueInv
    <3>4. ASSUME NEW p \in AppPayload, SendsOne(p)
          PROVE  \E fs \in Seq(UpFrames), gs \in Seq(UpFrames) :
                   /\ \A k \in DOMAIN fs : fs[k].kind # "Subscribe"
                   /\ \A k \in DOMAIN gs : gs[k].kind # "Subscribe"
                   /\ up' = up \o fs /\ (ws # "open" => up' = up)
                   /\ pending' = pending \o gs
      <4>1. <<Msg(p)>> \in Seq(UpFrames) /\ \A k \in DOMAIN <<Msg(p)>> : <<Msg(p)>>[k].kind # "Subscribe"
        BY FrameIs
      <4> QED BY <3>1, <3>2, <3>4, <4>1 DEF SendsOne, Transmits, QueueInv
    <3> QED BY <1>2, <3>3, <3>4, ClientSends
  <2>3. \A j \in DOMAIN up' : (j \in DOMAIN up /\ up'[j] = up[j]) \/ up'[j].kind # "Subscribe"
    BY <2>2 DEF QueueInv
  <2>4. up # <<>> => up' # <<>> /\ up'[1] = up[1]
    BY <2>2 DEF QueueInv
  <2>5. \A j \in DOMAIN pending' : (j \in DOMAIN pending /\ pending'[j] = pending[j]) \/ pending'[j].kind # "Subscribe"
    BY <2>2 DEF QueueInv
  <2>6. pending # <<>> => pending' # <<>> /\ pending'[1] = pending[1]
    BY <2>2 DEF QueueInv
  <2> QED BY <1>1, <2>1, <2>2, <2>3, <2>4, <2>5, <2>6 DEF OpeningInv
<1>3. CASE ClientOpens
  <2>1. ws = "connecting" /\ ws' = "open" /\ open_' /\ up' = up \o pending /\ pending' = <<>>
    BY <1>3 DEF ClientOpens, OnOpen
  <2>2. UNCHANGED <<opened, ntask, peer>>
    BY <1>3 DEF ClientOpens, vars, readerVars, taskVars
  <2>3. up' = pending
    BY <2>1 DEF OpeningInv, QueueInv
  <2> QED BY <1>1, <2>1, <2>2, <2>3 DEF OpeningInv
<1>4. CASE ClientReads \/ ClientDrops
  <2>1. UNCHANGED <<opened, ntask, peer, up, pending>>
    BY <1>4 DEF ClientReads, ClientDrops, OnFrame, OnClose, vars, readerVars, taskVars
  <2>2. (ws' = ws /\ open_' = open_) \/ ws' = "closed"
    BY <1>4 DEF ClientReads, ClientDrops, OnFrame, OnClose
  <2>3. ws' = "closed" => up = <<>> \/ ws # "connecting"
    BY DEF OpeningInv
  <2> QED BY <1>1, <2>1, <2>2, <2>3 DEF OpeningInv
<1>5. CASE Server
  BY <1>1, <1>5, ServerKeeps DEF OpeningInv, clientVars
<1>6. CASE ServerReads
  <2> DEFINE f == Head(up)
  <2>1. /\ up # <<>> /\ ws # "connecting"
        /\ ~opened => Subscribe(f)
        /\ opened => MessageOversize(f) \/ Message(f) \/ MessageIgnored(f) \/ HalfClose(f) \/ Reset(f)
    BY <1>6, ReadsWhat
  <2>2. /\ up' = Tail(up) /\ UNCHANGED <<ws, open_, pending>>
    BY <1>6 DEF ServerReads
  <2>3. opened' /\ (opened => ntask' = ntask) /\ (~opened => ntask' = ntask + 1)
    BY <2>1 DEF Subscribe, MessageOversize, Message, MessageIgnored, HalfClose, Reset, Take, taskVars
  <2>4. ntask' <= 1
    BY <2>3 DEF OpeningInv, ServerInv, OpenInv, TypeOK, TaskOK
  <2>5. \A j \in DOMAIN up' : j + 1 \in DOMAIN up /\ up'[j] = up[j + 1] /\ j + 1 # 1
    BY <2>1, <2>2 DEF QueueInv
  <2> HIDE DEF f
  <2> QED BY <1>1, <2>1, <2>2, <2>3, <2>4, <2>5 DEF OpeningInv
<1>7. CASE ServerSeesClose
  BY <1>1, <1>7 DEF ServerSeesClose, OpeningInv, readerVars, taskVars, clientVars
<1>8. CASE LinkBreaks
  BY <1>1, <1>8 DEF LinkBreaks, OpeningInv, readerVars, taskVars
<1>9. CASE StreamTerminated \/ UNCHANGED streamVars
  BY <1>9 DEF StreamTerminated, streamVars, vars, readerVars, taskVars, clientVars, OpeningInv
<1> QED BY <1>2, <1>3, <1>4, <1>5, <1>6, <1>7, <1>8, <1>9 DEF StreamNext

-----------------------------------------------------------------------------
(* The answer. What the client has delivered, against the frames of the    *)
(* server it has taken from the socket, and the status it has given.       *)

Outcomes == Codes \cup {"CANCELLED"}

CallInv ==
  /\ ~finished => statuses = <<>> /\ ws # "closed"
  /\ finished => \E c \in Outcomes : statuses = <<c>>
  /\ statuses = <<"OK">> => tpc[1] \in {"close", "done"}

\* A call that still listens has delivered, of the frames taken, every message:
\* the last header or message of the stream's task gives their number.
Caught ==
  /\ \A j \in 1 .. cpos : wire[j].kind = "Message" => wire[j].n <= Len(delivered)
  /\ \A j \in 1 .. cpos :
       LastBefore(wire, 1, j, cpos + 1) /\ wire[j].kind \in Answering => wire[j].n = Len(delivered)
  /\ (\A j \in 1 .. cpos : wire[j].of # 1) => delivered = <<>>
Listening == ~finished /\ ws \in {"connecting", "open"}
ReadInv ==
  /\ cpos \in 0 .. Len(wire)
  /\ delivered \in Seq(Nat) /\ Len(delivered) <= produced[1]
  /\ delivered = [k \in 1 .. Len(delivered) |-> k]
  /\ Listening => Caught

\* The stream's task is the only one.
LEMMA TheTask ==
  1 \in Tasks /\ \A i \in Tasks : i # 0 /\ i \in Nat
  BY ClientIsAPeer, BoundAssumption DEF Tasks

\* What the next frame says to a call that listens.
LEMMA NextFrame ==
  ASSUME ServerInv, FramesInv, OpeningInv, ReadInv, Listening, cpos < Len(wire),
         NEW f, f = wire[cpos + 1]
  PROVE  /\ f.kind = "Message" => f.of = 1 /\ f.n = Len(delivered) + 1 /\ f.n <= produced[1]
         /\ f.kind = "Header" => f.of = 1 /\ f.n = 0 /\ delivered = <<>>
         /\ f.kind = "Trailer" /\ f.code = "OK" =>
              Len(delivered) = produced[1] /\ tpc[1] \in {"close", "done"}
<1> DEFINE k == cpos + 1
<1>1. /\ wire \in Seq(OutFrames) /\ Sent \in Seq(OutFrames) /\ Len(wire) \in Nat /\ Begins(wire, Sent)
      /\ k \in 1 .. Len(wire) /\ k \in 1 .. Len(wire) + 1 /\ k \in DOMAIN Sent /\ Sent[k] = f /\ cpos \in Nat
  <2>1. TypeOK /\ cpos \in 0 .. Len(wire)
    BY DEF ServerInv, ReadInv
  <2>2. /\ wire \in Seq(OutFrames) /\ Sent \in Seq(OutFrames) /\ Len(wire) \in Nat
        /\ Begins(wire, Sent) /\ DOMAIN wire = 1 .. Len(wire)
        /\ \A j \in DOMAIN wire : j \in DOMAIN Sent /\ Sent[j] = wire[j]
    BY <2>1, SentType, WireBegins
  <2>3. k \in 1 .. Len(wire) /\ k \in 1 .. Len(wire) + 1 /\ cpos \in Nat
    BY <2>1, <2>2
  <2> QED BY <2>2, <2>3
<1>2. f \in OutFrames
  BY <1>1
<1>3. f.of # 0 => f.of = 1
  <2>1. f.of <= ntask /\ ntask <= 1 /\ ntask \in Nat
    BY <1>1, BoundAssumption DEF FramesInv, FrameFact, OpeningInv, ServerInv, TypeOK, TaskOK
  <2>2. f.of \in Nat
    BY <1>2, BoundAssumption DEF OutFrames
  <2> QED BY <2>1, <2>2
<1>4. Ordered(wire, k) /\ Whole(Sent, k)
  <2>1. Ordered(Sent, k) /\ Whole(Sent, k)
    BY <1>1 DEF ServerInv, RepliesInv, ChannelInv
  <2> QED BY <2>1, <1>1, OrderAgrees
<1>5. f.kind \in {"Message", "Header", "Trailer"} => f.of = 1 /\ Placed(wire, 1, k)
  BY <1>1, <1>3, <1>4 DEF Ordered
<1>6. Len(delivered) \in Nat /\ f.n \in Nat /\ produced[1] \in Nat
  BY <1>2, TheTask DEF ReadInv, OutFrames, ServerInv, TypeOK, TaskOK
<1>7. ASSUME f.kind = "Message" PROVE f.n = Len(delivered) + 1 /\ f.n <= produced[1]
  <2>1. PICK j \in 1 .. k - 1 : LastBefore(wire, 1, j, k) /\ MayFollow(wire[j], f)
    BY <1>5, <1>7 DEF Placed, MayStart, Status
  <2>2. j \in 1 .. cpos /\ wire[j].kind \in Answering /\ f.n = wire[j].n + 1
    BY <1>1, <1>7, <2>1 DEF MayFollow, Status, Answering
  <2>3. wire[j].n = Len(delivered)
    BY <2>1, <2>2 DEF ReadInv, Caught
  <2>4. f.n <= produced[1]
    BY <1>1, <1>5, <1>7 DEF FramesInv, FrameFact
  <2> QED BY <2>2, <2>3, <2>4
<1>8. ASSUME f.kind = "Header" PROVE f.n = 0 /\ delivered = <<>>
  <2>1. \A j \in 1 .. cpos : wire[j].of # 1
    BY <1>1, <1>5, <1>8 DEF Placed, MayFollow, Status
  <2> QED BY <1>1, <1>8, <2>1 DEF FramesInv, FrameFact, ReadInv, Caught
<1>9. ASSUME f.kind = "Trailer", f.code = "OK"
      PROVE  Len(delivered) = produced[1] /\ tpc[1] \in {"close", "done"}
  <2>1. tpc[1] \in {"close", "done"} /\ Before(Sent, 1, produced[1], k)
    BY <1>1, <1>4, <1>5, <1>9 DEF Whole
  <2>2. Before(wire, 1, produced[1], k)
    BY <1>1, <2>1, BeforeAgrees
  <2>3. ASSUME produced[1] > 0 PROVE produced[1] <= Len(delivered)
    <3>1. produced[1] \in 1 .. produced[1]
      BY <1>6, <2>3
    <3>2. PICK j \in 1 .. k - 1 : wire[j] = Out("Message", 1, produced[1], "none")
      BY <2>2, <3>1 DEF Before
    <3>3. j \in 1 .. cpos /\ wire[j].kind = "Message" /\ wire[j].n = produced[1]
      BY <1>1, <3>2 DEF Out
    <3> QED BY <3>3 DEF ReadInv, Caught
  <2> QED BY <1>6, <2>1, <2>3 DEF ReadInv
<1> QED BY <1>5, <1>7, <1>8, <1>9

\* What a close or a reset never says.
LEMMA NotOk ==
  ASSUME ServerInv, FramesInv, cpos < Len(wire), cpos \in 0 .. Len(wire), NEW f, f = wire[cpos + 1]
  PROVE  f \in OutFrames /\ f.code \in Codes /\ (f.kind \in {"Close", "Reset"} => f.code # "OK")
<1>1. wire \in Seq(OutFrames) /\ Len(wire) \in Nat /\ cpos + 1 \in DOMAIN wire
  BY SentType DEF ServerInv
<1>2. cpos + 1 \in DOMAIN Sent /\ Sent[cpos + 1] = f
  BY <1>1, WireBegins DEF ServerInv
<1>3. f \in OutFrames
  BY <1>1
<1> QED BY <1>2, <1>3 DEF FramesInv, FrameFact, OutFrames

\* The status a finish leaves.
LEMMA FinishGives ==
  ASSUME CallInv, NEW c, finish(c)
  PROVE  /\ finished'
         /\ finished => statuses' = statuses
         /\ ~finished => statuses' = <<c>>
<1>1. ~finished => Append(statuses, c) = <<c>>
  BY DEF CallInv
<1> QED BY <1>1 DEF finish

\* What a turn of the client, or of its socket, does to its status: nothing, or its
\* first one, which is OK only by a trailer read while the call listens.
Concludes(c) == statuses = <<>> /\ statuses' = <<c>> /\ finished' /\ ~finished
TrailerRead ==
  /\ ClientReads /\ Listening
  /\ wire[cpos + 1].kind = "Trailer" /\ wire[cpos + 1].code = "OK"
LEMMA ClientStatus ==
  ASSUME ServerInv, FramesInv, CallInv, ReadInv, Client \/ ClientOpens \/ ClientReads \/ ClientDrops
  PROVE  /\ UNCHANGED <<finished, statuses>> \/ \E c \in Outcomes : Concludes(c) /\ (c = "OK" => TrailerRead)
         /\ ws' = "closed" => finished' \/ ws = "closed"
<1>1. CASE Client
  <2>1. ASSUME NEW c \in {"CANCELLED", "DEADLINE_EXCEEDED"}, Terminate(c)
        PROVE  Concludes(c) /\ c \in Outcomes /\ c # "OK" /\ (ws' = "closed" => finished')
    BY <2>1, FinishGives DEF Terminate, Concludes, CallInv, Outcomes, Codes
  <2>2. CASE UNCHANGED <<finished, statuses>>
    BY <1>1, <2>2, ClientMoves
  <2> QED BY <1>1, <2>1, <2>2 DEF Client, AppSends, AppHalfCloses, TransportCloses
<1>2. CASE ClientOpens
  BY <1>2 DEF ClientOpens, OnOpen
<1>3. ASSUME NEW code \in Codes, code # "OK", OnClose(code)
      PROVE  /\ UNCHANGED <<finished, statuses>> \/ \E c \in Outcomes : Concludes(c) /\ c # "OK"
             /\ finished'
  <2>1. statusForClose(code) \in Outcomes /\ statusForClose(code) # "OK" /\ finish(statusForClose(code))
    BY <1>3 DEF OnClose, statusForClose, Outcomes, Codes
  <2>2. /\ finished'
        /\ finished => statuses' = statuses
        /\ ~finished => statuses = <<>> /\ statuses' = <<statusForClose(code)>>
    BY <2>1, FinishGives DEF CallInv
  <2>3. CASE finished
    BY <2>2, <2>3
  <2>4. CASE ~finished
    <3>1. Concludes(statusForClose(code))
      BY <2>2, <2>4 DEF Concludes
    <3> QED BY <2>1, <2>2, <3>1
  <2> QED BY <2>3, <2>4
<1>4. CASE ClientDrops
  BY <1>3, <1>4 DEF ClientDrops, Codes
<1>5. CASE ClientReads
  <2> DEFINE f == wire[cpos + 1]
  <2>1. f.code \in Codes /\ (f.kind \in {"Close", "Reset"} => f.code # "OK")
    BY <1>5, NotOk DEF ClientReads, ReadInv
  <2>2. CASE f.kind = "Close"
    BY <1>3, <1>5, <2>1, <2>2 DEF ClientReads
  <2>3. CASE f.kind # "Close"
    <3>1. OnFrame(f) /\ ws' = ws /\ ws \in {"open", "closing"}
      BY <1>5, <2>3 DEF ClientReads, OnFrame
    <3>2. CASE ~finished /\ ws # "closing" /\ f.kind \in {"Trailer", "Reset"}
      <4>1. finish(f.code)
        BY <3>1, <3>2 DEF OnFrame
      <4>2. Concludes(f.code) /\ f.code \in Outcomes
        BY <2>1, <3>2, <4>1, FinishGives DEF Concludes, CallInv, Outcomes
      <4>3. f.code = "OK" => TrailerRead
        BY <1>5, <2>1, <3>1, <3>2 DEF TrailerRead, Listening
      <4> QED BY <3>1, <4>2, <4>3
    <3>3. CASE ~(~finished /\ ws # "closing" /\ f.kind \in {"Trailer", "Reset"})
      BY <3>1, <3>3 DEF OnFrame
    <3> QED BY <3>2, <3>3
  <2> QED BY <2>2, <2>3
<1> QED BY <1>1, <1>2, <1>4, <1>5

\* The steps of the server, and of the connection, as the client sees them.
ServerTurn == Server \/ ServerReads \/ ServerSeesClose \/ LinkBreaks \/ StreamTerminated \/ UNCHANGED streamVars
ClientTurn == Client \/ ClientOpens \/ ClientReads \/ ClientDrops

LEMMA Turns == [StreamNext]_streamVars => ServerTurn \/ ClientTurn
  BY DEF StreamNext, ServerTurn, ClientTurn

LEMMA ServerTurnKeeps ==
  ASSUME ServerTurn
  PROVE  UNCHANGED <<ws, open_, pending, finished, statuses, delivered, sent, ended, cpos>>
  BY ServerKeeps DEF ServerTurn, ServerReads, ServerSeesClose, LinkBreaks, StreamTerminated, streamVars, clientVars

LEMMA ClientTurnKeeps ==
  ASSUME ClientTurn
  PROVE  UNCHANGED vars
  BY DEF ClientTurn, Client, ClientOpens, ClientReads, ClientDrops

\* A new call has no status and has delivered nothing.
LEMMA CallInit == StreamInit => CallInv /\ ReadInv
<1> SUFFICES ASSUME StreamInit PROVE CallInv /\ ReadInv
  OBVIOUS
<1>1. /\ finished = FALSE /\ statuses = <<>> /\ delivered = <<>> /\ ws = "connecting"
      /\ cpos = 0 /\ wire = <<>> /\ produced[1] = 0
  BY TheTask DEF StreamInit, ClientInit, Init
<1>2. <<>> = [k \in 1 .. Len(<<>>) |-> k] /\ <<>> # <<"OK">>
  OBVIOUS
<1> QED BY <1>1, <1>2 DEF CallInv, ReadInv, Caught

\* Every step keeps CallInv.
LEMMA CallStep ==
  ServerInv /\ FramesInv /\ QueueInv /\ OpeningInv /\ CallInv /\ ReadInv /\ [StreamNext]_streamVars => CallInv'
<1> SUFFICES ASSUME ServerInv, FramesInv, QueueInv, OpeningInv, CallInv, ReadInv, [StreamNext]_streamVars
             PROVE  CallInv'
  OBVIOUS
<1>1. CASE ServerTurn
  <2>1. UNCHANGED <<finished, statuses, ws>>
    BY <1>1, ServerTurnKeeps
  <2>2. tpc[1] \in {"close", "done"} => tpc'[1] \in {"close", "done"}
    BY StepOfServer, ServerMoves, TheTask DEF ServerInv
  <2> QED BY <2>1, <2>2 DEF CallInv
<1>2. CASE ClientTurn
  <2>1. tpc' = tpc
    BY <1>2, ClientTurnKeeps DEF vars, taskVars
  <2>2. TrailerRead => tpc[1] \in {"close", "done"}
    BY NextFrame DEF TrailerRead, ClientReads
  <2>3. /\ UNCHANGED <<finished, statuses>> \/ \E c \in Outcomes : Concludes(c) /\ (c = "OK" => TrailerRead)
        /\ ws' = "closed" => finished' \/ ws = "closed"
    BY <1>2, ClientStatus DEF ClientTurn
  <2>4. CASE UNCHANGED <<finished, statuses>>
    BY <2>1, <2>3, <2>4 DEF CallInv
  <2>5. ASSUME NEW c \in Outcomes, Concludes(c), c = "OK" => TrailerRead PROVE CallInv'
    <3>1. finished' /\ statuses' = <<c>> /\ (<<c>> = <<"OK">> => c = "OK")
      BY <2>5 DEF Concludes
    <3> QED BY <2>1, <2>2, <2>5, <3>1 DEF CallInv
  <2> QED BY <2>3, <2>4, <2>5
<1> QED BY <1>1, <1>2, Turns

\* While nothing is read, a call goes on listening at most, and what it has is the same.
LEMMA ReadStays ==
  ASSUME ServerInv, ServerInv', ReadInv, UNCHANGED <<cpos, delivered>>, Begins(wire, wire'),
         produced'[1] >= produced[1], Listening' => Listening
  PROVE  ReadInv'
<1>1. /\ wire \in Seq(OutFrames) /\ Len(wire) \in Nat /\ Len(wire') \in Nat /\ Len(wire) <= Len(wire')
      /\ \A j \in 1 .. Len(wire) : wire'[j] = wire[j]
  BY SentType DEF ServerInv, Begins, TypeOK, OutOK
<1>2. cpos \in 0 .. Len(wire') /\ \A j \in 1 .. cpos : wire'[j] = wire[j]
  BY <1>1 DEF ReadInv
<1>3. Len(delivered) <= produced'[1]
  <2>1. produced[1] \in Nat /\ produced'[1] \in Nat /\ Len(delivered) \in Nat
    BY TheTask, BoundAssumption DEF ServerInv, TypeOK, TaskOK, ReadInv
  <2> QED BY <2>1 DEF ReadInv
<1>4. Caught => Caught'
  <2> SUFFICES ASSUME Caught PROVE Caught'
    OBVIOUS
  <2>1. \A j \in 1 .. cpos : \A m \in j + 1 .. cpos + 1 - 1 : m \in 1 .. cpos
    BY DEF ReadInv
  <2>2. \A j \in 1 .. cpos : LastBefore(wire, 1, j, cpos + 1)' => LastBefore(wire, 1, j, cpos + 1)
    BY <1>2, <2>1 DEF LastBefore
  <2> QED BY <1>2, <2>2 DEF Caught
<1> QED BY <1>2, <1>3, <1>4 DEF ReadInv

\* Every step keeps ReadInv.
LEMMA ReadStep ==
  /\ ServerInv /\ ServerInv' /\ FramesInv /\ QueueInv /\ OpeningInv /\ CallInv /\ ReadInv
  /\ [StreamNext]_streamVars
  => ReadInv'
<1> SUFFICES ASSUME ServerInv, ServerInv', FramesInv, QueueInv, OpeningInv, CallInv, ReadInv, [StreamNext]_streamVars
             PROVE  ReadInv'
  OBVIOUS
<1>1. wire \in Seq(OutFrames) /\ Begins(wire, wire) /\ produced[1] \in Nat /\ Len(wire) \in Nat
  BY SentType, TheTask, BoundAssumption DEF ServerInv, Begins, TypeOK, TaskOK
<1>2. CASE ServerTurn
  <2>1. Begins(wire, wire') /\ produced'[1] >= produced[1]
    BY StepOfServer, StepSends, ServerMoves, TheTask DEF ServerInv
  <2>2. UNCHANGED <<cpos, delivered, ws, finished>>
    BY <1>2, ServerTurnKeeps
  <2> QED BY <2>1, <2>2, ReadStays DEF Listening
<1>3. CASE Client \/ ClientOpens \/ ClientDrops
  <2>1. UNCHANGED <<cpos, delivered, wire, produced>>
    BY <1>3, ClientMoves DEF ClientOpens, OnOpen, ClientDrops, OnClose, vars, outVars, taskVars
  <2>2. finished' \/ UNCHANGED finished
    BY <1>3, ClientStatus DEF Concludes
  <2>3. Listening' => Listening
    BY <1>3, <2>2, ClientMoves DEF Listening, ClientOpens, OnOpen, ClientDrops, OnClose
  <2> QED BY <1>1, <2>1, <2>3, ReadStays
<1>4. CASE ClientReads
  <2> DEFINE f == wire[cpos + 1]
             n == Len(delivered)
  <2>1. /\ UNCHANGED <<wire, produced>> /\ cpos' = cpos + 1 /\ cpos < Len(wire) /\ ws \in {"open", "closing"}
        /\ IF f.kind = "Close" THEN OnClose(f.code) ELSE OnFrame(f)
    BY <1>4 DEF ClientReads, vars, outVars, taskVars
  <2>2. cpos \in Nat /\ cpos + 1 \in 0 .. Len(wire) /\ n \in Nat /\ f \in OutFrames /\ f.n \in Nat
    <3>1. cpos \in Nat /\ n \in Nat /\ cpos + 1 \in 0 .. Len(wire) /\ cpos + 1 \in 1 .. Len(wire)
      BY <1>1, <2>1 DEF ReadInv
    <3>2. f \in OutFrames
      BY <1>1, <3>1
    <3> QED BY <3>1, <3>2 DEF OutFrames
  <2>3. CASE ~Listening' /\ delivered' = delivered
    BY <2>1, <2>2, <2>3 DEF ReadInv
  <2>4. CASE f.kind = "Close"
    BY <2>1, <2>3, <2>4 DEF OnClose, Listening
  <2>5. CASE f.kind # "Close" /\ (finished \/ ws = "closing")
    BY <2>1, <2>3, <2>5 DEF OnFrame, Listening
  <2>6. CASE f.kind # "Close" /\ ~finished /\ ws = "open"
    <3>1. Listening /\ Caught
      BY <2>6 DEF Listening, ReadInv
    <3>2. /\ f.kind = "Message" => f.of = 1 /\ f.n = n + 1 /\ f.n <= produced[1]
          /\ f.kind = "Header" => f.of = 1 /\ f.n = 0 /\ delivered = <<>>
      BY <2>1, <3>1, NextFrame
    <3>3. CASE f.kind \in {"Trailer", "Reset"}
      <4>1. finish(f.code) /\ delivered' = delivered
        BY <2>1, <2>6, <3>3 DEF OnFrame
      <4> QED BY <2>3, <4>1, FinishGives DEF Listening
    <3>4. CASE f.kind \in {"Message", "Header"}
      <4> DEFINE m == Len(delivered')
      <4>1. /\ f.kind = "Message" => delivered' = Append(delivered, f.n)
            /\ f.kind = "Header" => delivered' = delivered
        BY <2>1, <2>6, <3>4 DEF OnFrame
      <4>2. /\ delivered' \in Seq(Nat) /\ m = f.n /\ n <= m /\ m <= produced[1]
            /\ delivered' = [k \in 1 .. m |-> k]
        <5>1. CASE f.kind = "Message"
          <6>1. delivered' = Append(delivered, n + 1) /\ f.n = n + 1
            BY <3>2, <4>1, <5>1
          <6>2. delivered' \in Seq(Nat) /\ m = n + 1
            BY <6>1, <2>2 DEF ReadInv
          <6>3. delivered = [k \in 1 .. n |-> k]
            BY DEF ReadInv
          <6>4. \A k \in 1 .. m : delivered'[k] = k
            BY <6>1, <6>2, <6>3, <2>2 DEF ReadInv
          <6> QED BY <2>2, <3>2, <5>1, <6>1, <6>2, <6>4
        <5>2. CASE f.kind = "Header"
          BY <1>1, <2>2, <3>2, <4>1, <5>2 DEF ReadInv
        <5> QED BY <3>4, <5>1, <5>2
      <4>3. f.of = 1 /\ cpos' \in Nat
        BY <2>1, <2>2, <3>2, <3>4
      <4>4. \A j \in 1 .. cpos + 1 : j = cpos + 1 \/ j \in 1 .. cpos
        BY <2>2
      <4>5. ASSUME NEW j \in 1 .. cpos + 1, wire[j].kind = "Message" PROVE wire[j].n <= m
        <5>1. CASE j = cpos + 1
          BY <2>2, <4>2, <5>1
        <5>2. CASE j \in 1 .. cpos
          <6>1. wire[j].n <= n
            BY <3>1, <4>5, <5>2 DEF Caught
          <6>2. wire[j] \in OutFrames
            BY <1>1, <2>1, <2>2, <5>2
          <6>3. wire[j].n \in Nat /\ m \in Nat
            BY <2>2, <4>2, <6>2 DEF OutFrames
          <6> QED BY <2>2, <4>2, <6>1, <6>3
        <5> QED BY <4>4, <5>1, <5>2
      <4>6. ASSUME NEW j \in 1 .. cpos + 1, LastBefore(wire, 1, j, cpos + 1 + 1) PROVE wire[j].n = m
        <5>1. j = cpos + 1
          <6>1. cpos + 1 \in j + 1 .. cpos + 1 + 1 - 1 \/ j = cpos + 1
            BY <2>2, <4>4
          <6> QED BY <4>3, <4>6, <6>1 DEF LastBefore
        <5> QED BY <4>2, <5>1
      <4>7. ~(\A j \in 1 .. cpos + 1 : wire[j].of # 1)
        BY <2>2, <4>3
      <4> HIDE DEF f, m, n
      <4>8. Caught'
        BY <2>1, <4>5, <4>6, <4>7 DEF Caught, m
      <4> QED BY <2>1, <2>2, <4>2, <4>8 DEF ReadInv, m
    <3> QED BY <2>2, <2>6, <3>3, <3>4 DEF OutFrames
  <2> QED BY <2>1, <2>4, <2>5, <2>6
<1> QED BY <1>2, <1>3, <1>4, Turns DEF ClientTurn

-----------------------------------------------------------------------------
(* The requests. As long as the server accepts messages, those in flight   *)
(* are the ones of `sent` after those it has accepted: h numbers them by   *)
(* their places in `sent`, up to each frame of the queue.                  *)

Numbering(h, q, n, s) ==
  /\ h \in [0 .. Len(q) -> Nat] /\ h[0] = n
  /\ \A j \in 1 .. Len(q) :
       IF q[j].kind = "Message" THEN h[j] = h[j - 1] + 1 /\ h[j] <= Len(s) /\ q[j].p = s[h[j]]
       ELSE h[j] = h[j - 1]

Queue == IF ws = "connecting" THEN pending ELSE up
Reach == peer = "open" /\ ((feeding /\ reader # "reply_abort") \/ ~opened)
Underway(h) ==
  /\ Numbering(h, Queue, Len(fed[1]), sent)
  /\ ws \in {"connecting", "open"} => h[Len(Queue)] = Len(sent)
FlowInv ==
  /\ sent \in Seq(AppPayload)
  /\ Len(fed[1]) <= Len(sent) /\ \A k \in 1 .. Len(fed[1]) : fed[1][k] = sent[k]
  /\ ~opened => fed[1] = <<>>
  /\ Reach => \E h : Underway(h)

\* An empty queue numbers nothing.
LEMMA NumberNone ==
  ASSUME NEW n \in Nat, NEW s
  PROVE  Numbering([j \in 0 .. 0 |-> n], <<>>, n, s)
  BY DEF Numbering

\* Frames without a message leave the numbers as they are.
LEMMA NumberPlain ==
  ASSUME NEW q \in Seq(UpFrames), NEW fs, Plain(fs), NEW h, NEW n, NEW s, Numbering(h, q, n, s)
  PROVE  \E g : Numbering(g, q \o fs, n, s) /\ g[Len(q \o fs)] = h[Len(q)]
<1> DEFINE g == [j \in 0 .. Len(q) + Len(fs) |-> IF j <= Len(q) THEN h[j] ELSE h[Len(q)]]
<1>1. /\ fs \in Seq(UpFrames) /\ Len(q) \in Nat /\ Len(fs) \in Nat /\ Len(q \o fs) = Len(q) + Len(fs)
      /\ \A j \in 1 .. Len(q) : (q \o fs)[j] = q[j]
      /\ \A j \in Len(q) + 1 .. Len(q) + Len(fs) : (q \o fs)[j].kind # "Message"
  BY DEF Plain
<1>2. h \in [0 .. Len(q) -> Nat] /\ h[0] = n
  BY DEF Numbering
<1>3. g \in [0 .. Len(q) + Len(fs) -> Nat] /\ g[0] = n /\ g[Len(q) + Len(fs)] = h[Len(q)]
  <2>1. Len(q) \in 0 .. Len(q) /\ \A j \in 0 .. Len(q) + Len(fs) : j <= Len(q) => j \in 0 .. Len(q)
    BY <1>1
  <2>2. \A j \in 0 .. Len(q) + Len(fs) : g[j] \in Nat
    BY <1>2, <2>1
  <2>3. 0 \in 0 .. Len(q) + Len(fs) /\ 0 <= Len(q) /\ Len(q) + Len(fs) \in 0 .. Len(q) + Len(fs)
    BY <1>1
  <2>4. Len(q) + Len(fs) <= Len(q) => Len(q) + Len(fs) = Len(q)
    BY <1>1
  <2> QED BY <1>2, <2>2, <2>3, <2>4
<1>4. ASSUME NEW j \in 1 .. Len(q)
      PROVE  g[j] = h[j] /\ g[j - 1] = h[j - 1]
  BY <1>1
<1>5. ASSUME NEW j \in Len(q) + 1 .. Len(q) + Len(fs)
      PROVE  g[j] = g[j - 1]
  <2>1. j \in 0 .. Len(q) + Len(fs) /\ j - 1 \in 0 .. Len(q) + Len(fs) /\ ~(j <= Len(q))
        /\ (j - 1 <= Len(q) => j - 1 = Len(q))
    BY <1>1
  <2> QED BY <2>1
<1> HIDE DEF g
<1>6. \A j \in 1 .. Len(q) + Len(fs) : j \in 1 .. Len(q) \/ j \in Len(q) + 1 .. Len(q) + Len(fs)
  BY <1>1
<1>7. Numbering(g, q \o fs, n, s)
  BY <1>1, <1>3, <1>4, <1>5, <1>6 DEF Numbering
<1> QED BY <1>1, <1>3, <1>7

\* A longer `sent` numbers the same.
LEMMA NumberMore ==
  ASSUME NEW q \in Seq(UpFrames), NEW s \in Seq(AppPayload), NEW p \in AppPayload,
         NEW h, NEW n, Numbering(h, q, n, s)
  PROVE  Numbering(h, q, n, Append(s, p))
<1>1. /\ Len(s) \in Nat /\ Len(Append(s, p)) = Len(s) + 1
      /\ \A k \in Nat : k <= Len(s) /\ k # 0 => Append(s, p)[k] = s[k]
  OBVIOUS
<1>2. ASSUME NEW j \in 1 .. Len(q), q[j].kind = "Message"
      PROVE  h[j] <= Len(s) + 1 /\ q[j].p = Append(s, p)[h[j]]
  <2>1. /\ h[j] = h[j - 1] + 1 /\ h[j] <= Len(s) /\ q[j].p = s[h[j]]
        /\ h[j] \in Nat /\ h[j - 1] \in Nat
    <3>1. j \in 0 .. Len(q) /\ j - 1 \in 0 .. Len(q)
      OBVIOUS
    <3> QED BY <1>2, <3>1 DEF Numbering
  <2> QED BY <1>1, <2>1
<1> QED BY <1>1, <1>2 DEF Numbering

\* A message sent last takes the last place.
LEMMA NumberMessage ==
  ASSUME NEW q \in Seq(UpFrames), NEW s \in Seq(AppPayload), NEW p \in AppPayload,
         NEW h, NEW n, Numbering(h, q, n, s), h[Len(q)] = Len(s)
  PROVE  \E g : /\ Numbering(g, q \o <<Msg(p)>>, n, Append(s, p))
                /\ g[Len(q \o <<Msg(p)>>)] = Len(Append(s, p))
<1> DEFINE g == [j \in 0 .. Len(q) + 1 |-> IF j <= Len(q) THEN h[j] ELSE Len(s) + 1]
           r == q \o <<Msg(p)>>
           t == Append(s, p)
<1>1. /\ Len(q) \in Nat /\ Len(r) = Len(q) + 1 /\ r[Len(q) + 1] = Msg(p)
      /\ \A j \in 1 .. Len(q) : r[j] = q[j]
  BY FrameIs
<1>2. Len(s) \in Nat /\ Len(t) = Len(s) + 1 /\ t[Len(s) + 1] = p
  OBVIOUS
<1>3. Numbering(h, q, n, t)
  BY NumberMore
<1> HIDE DEF r, t
<1>4. h \in [0 .. Len(q) -> Nat] /\ h[0] = n
  BY DEF Numbering
<1>5. /\ g \in [0 .. Len(q) + 1 -> Nat] /\ g[0] = n /\ g[Len(q) + 1] = Len(s) + 1 /\ g[Len(q)] = Len(s)
      /\ \A j \in 1 .. Len(q) : g[j] = h[j] /\ g[j - 1] = h[j - 1]
  <2>1. \A j \in 0 .. Len(q) + 1 : j <= Len(q) => j \in 0 .. Len(q)
    BY <1>1
  <2>2. \A j \in 0 .. Len(q) + 1 : g[j] \in Nat
    BY <1>2, <1>4, <2>1
  <2>3. /\ 0 \in 0 .. Len(q) + 1 /\ 0 <= Len(q) /\ Len(q) + 1 \in 0 .. Len(q) + 1 /\ ~(Len(q) + 1 <= Len(q))
        /\ Len(q) \in 0 .. Len(q) + 1 /\ Len(q) <= Len(q)
    BY <1>1
  <2>4. \A j \in 1 .. Len(q) : /\ j \in 0 .. Len(q) + 1 /\ j <= Len(q)
                               /\ j - 1 \in 0 .. Len(q) + 1 /\ j - 1 <= Len(q)
    BY <1>1
  <2> QED BY <1>4, <2>2, <2>3, <2>4
<1> HIDE DEF g
<1>6. \A j \in 1 .. Len(r) :
        IF r[j].kind = "Message" THEN g[j] = g[j - 1] + 1 /\ g[j] <= Len(t) /\ r[j].p = t[g[j]]
        ELSE g[j] = g[j - 1]
  <2> SUFFICES ASSUME NEW j \in 1 .. Len(r)
               PROVE  IF r[j].kind = "Message" THEN g[j] = g[j - 1] + 1 /\ g[j] <= Len(t) /\ r[j].p = t[g[j]]
                      ELSE g[j] = g[j - 1]
    OBVIOUS
  <2>1. CASE j \in 1 .. Len(q)
    BY <1>1, <1>3, <1>5, <2>1 DEF Numbering
  <2>2. CASE j = Len(q) + 1
    <3>1. j - 1 = Len(q)
      BY <1>1, <2>2
    <3> QED BY <1>1, <1>2, <1>5, <2>2, <3>1, FrameIs
  <2> QED BY <1>1, <2>1, <2>2
<1>7. Numbering(g, r, n, t) /\ g[Len(r)] = Len(t)
  BY <1>1, <1>2, <1>5, <1>6 DEF Numbering
<1> QED BY <1>7 DEF r, t

\* Taking the next frame, the numbers of the others stay.
LEMMA NumberNext ==
  ASSUME NEW q \in Seq(UpFrames), q # <<>>, NEW n \in Nat, NEW s, NEW h, Numbering(h, q, n, s)
  PROVE  /\ q[1].kind # "Message" => \E g : Numbering(g, Tail(q), n, s) /\ g[Len(Tail(q))] = h[Len(q)]
         /\ q[1].kind = "Message" =>
              /\ \E g : Numbering(g, Tail(q), n + 1, s) /\ g[Len(Tail(q))] = h[Len(q)]
              /\ n + 1 <= Len(s) /\ q[1].p = s[n + 1]
<1> DEFINE g == [j \in 0 .. Len(q) - 1 |-> h[j + 1]]
<1>1. /\ Len(q) \in Nat /\ Len(q) # 0 /\ Len(Tail(q)) = Len(q) - 1
      /\ \A j \in 1 .. Len(q) - 1 : Tail(q)[j] = q[j + 1]
  OBVIOUS
<1>2. h \in [0 .. Len(q) -> Nat] /\ h[0] = n
  BY DEF Numbering
<1>3. \A j \in 1 .. Len(q) :
        IF q[j].kind = "Message" THEN h[j] = h[j - 1] + 1 /\ h[j] <= Len(s) /\ q[j].p = s[h[j]]
        ELSE h[j] = h[j - 1]
  BY DEF Numbering
<1>4. /\ q[1].kind = "Message" => h[1] = n + 1 /\ n + 1 <= Len(s) /\ q[1].p = s[n + 1]
      /\ q[1].kind # "Message" => h[1] = n
  <2>1. 1 \in 1 .. Len(q) /\ 1 - 1 = 0
    BY <1>1
  <2> QED BY <1>2, <1>3, <2>1
<1>5. /\ g \in [0 .. Len(q) - 1 -> Nat] /\ g[0] = h[1] /\ g[Len(q) - 1] = h[Len(q)]
      /\ \A j \in 1 .. Len(q) - 1 : g[j] = h[j + 1] /\ g[j - 1] = h[j]
  <2>1. \A j \in 0 .. Len(q) - 1 : j + 1 \in 0 .. Len(q)
    BY <1>1
  <2>2. 0 \in 0 .. Len(q) - 1 /\ 0 + 1 = 1 /\ Len(q) - 1 \in 0 .. Len(q) - 1 /\ Len(q) - 1 + 1 = Len(q)
    BY <1>1
  <2>3. \A j \in 1 .. Len(q) - 1 : j \in 0 .. Len(q) - 1 /\ j - 1 \in 0 .. Len(q) - 1 /\ j - 1 + 1 = j
    BY <1>1
  <2> QED BY <1>2, <2>1, <2>2, <2>3
<1> HIDE DEF g
<1>6. ASSUME NEW j \in 1 .. Len(q) - 1
      PROVE  IF Tail(q)[j].kind = "Message"
             THEN g[j] = g[j - 1] + 1 /\ g[j] <= Len(s) /\ Tail(q)[j].p = s[g[j]]
             ELSE g[j] = g[j - 1]
  <2>1. j + 1 \in 1 .. Len(q) /\ j + 1 - 1 = j
    BY <1>1
  <2>2. IF q[j + 1].kind = "Message"
        THEN h[j + 1] = h[j] + 1 /\ h[j + 1] <= Len(s) /\ q[j + 1].p = s[h[j + 1]]
        ELSE h[j + 1] = h[j]
    BY <1>3, <2>1
  <2>3. Tail(q)[j] = q[j + 1] /\ g[j] = h[j + 1] /\ g[j - 1] = h[j]
    BY <1>1, <1>5
  <2> QED BY <2>2, <2>3
<1>7. Numbering(g, Tail(q), h[1], s) /\ g[Len(Tail(q))] = h[Len(q)]
  BY <1>1, <1>5, <1>6 DEF Numbering
<1> QED BY <1>4, <1>7

\* At first the open frame is all there is.
LEMMA FlowInit == StreamInit => FlowInv
<1> SUFFICES ASSUME StreamInit PROVE FlowInv
  OBVIOUS
<1> DEFINE q == <<OpenFrame>>
           h == [j \in 0 .. 1 |-> 0]
<1>1. /\ sent = <<>> /\ fed[1] = <<>> /\ ws = "connecting" /\ pending = q
  BY TheTask DEF StreamInit, Init, ClientInit
<1>2. Len(q) = 1 /\ q[1].kind # "Message"
  BY FrameIs
<1>3. h \in [0 .. 1 -> Nat] /\ h[0] = 0 /\ h[1] = 0 /\ \A j \in 1 .. 1 : j = 1 /\ j - 1 = 0
  OBVIOUS
<1> HIDE DEF q, h
<1>4. Numbering(h, q, 0, <<>>)
  BY <1>2, <1>3 DEF Numbering
<1>5. Underway(h)
  BY <1>1, <1>2, <1>3, <1>4 DEF Underway, Queue
<1> QED BY <1>1, <1>5 DEF FlowInv

\* What leaves the queue and the two ends of it alone keeps FlowInv.
LEMMA FlowStays ==
  ASSUME FlowInv, sent' = sent, fed'[1] = fed[1], opened' = opened, Queue' = Queue, Reach' => Reach,
         ws' \in {"connecting", "open"} => ws \in {"connecting", "open"}
  PROVE  FlowInv'
<1>1. ASSUME NEW h, Underway(h) PROVE Underway(h)'
  BY <1>1 DEF Underway
<1> QED BY <1>1 DEF FlowInv

\* A turn of the client adds to the queue what it adds to `sent`, or abandons both.
LEMMA FlowClient ==
  ASSUME TypeOK, QueueInv, OpeningInv, FlowInv, Client
  PROVE  FlowInv'
<1>1. /\ UNCHANGED <<opened, fed, feeding, peer, reader>>
      /\ ws' = ws \/ (ws' = "closing" /\ ws \in {"connecting", "open"})
  BY ClientMoves DEF vars, readerVars, bodyVars
<1>2. Reach' = Reach
  BY <1>1 DEF Reach
<1>3. /\ sent \in Seq(AppPayload) /\ Len(fed[1]) <= Len(sent) /\ \A k \in 1 .. Len(fed[1]) : fed[1][k] = sent[k]
      /\ ~opened => fed[1] = <<>>
      /\ up \in Seq(UpFrames) /\ pending \in Seq(UpFrames)
      /\ ws = "connecting" => up = <<>> /\ ~opened /\ ~open_
      /\ ws = "open" => open_
  BY DEF FlowInv, QueueInv, OpeningInv
<1>4. ASSUME ws = "connecting", ws' # "connecting", up' = up, fed[1] = <<>> PROVE \E h : Underway(h)'
  <2>1. Queue' = <<>> /\ ws' = "closing" /\ Len(fed'[1]) = 0
    BY <1>1, <1>3, <1>4 DEF Queue
  <2>2. Numbering([j \in 0 .. 0 |-> 0], <<>>, 0, sent')
    BY NumberNone
  <2> QED BY <2>1, <2>2 DEF Underway
<1>5. CASE SendsNone
  <2>1. PICK fs, gs : /\ Plain(fs) /\ Plain(gs)
                      /\ up' = (IF ws = "open" THEN up \o fs ELSE up) /\ pending' = pending \o gs
    BY <1>5 DEF SendsNone, Transmits
  <2>2. sent' = sent
    BY <1>5 DEF SendsNone
  <2>3. ASSUME NEW h, Underway(h) PROVE \E g : Underway(g)'
    <3>1. /\ Numbering(h, Queue, Len(fed[1]), sent)
          /\ ws \in {"connecting", "open"} => h[Len(Queue)] = Len(sent)
      BY <2>3 DEF Underway
    <3>2. CASE ws = "connecting" /\ ws' = "connecting"
      <4>1. Queue = pending /\ Queue' = pending \o gs
        BY <2>1, <3>2 DEF Queue
      <4>2. PICK g : Numbering(g, pending \o gs, Len(fed[1]), sent) /\ g[Len(pending \o gs)] = h[Len(pending)]
        <5>1. Numbering(h, pending, Len(fed[1]), sent) /\ pending \in Seq(UpFrames) /\ Plain(gs)
          BY <1>3, <2>1, <3>1, <4>1
        <5> QED BY <5>1, NumberPlain, ZenonT(60)
      <4>3. h[Len(pending)] = Len(sent)
        BY <3>1, <3>2, <4>1
      <4>4. Numbering(g, Queue', Len(fed'[1]), sent') /\ g[Len(Queue')] = Len(sent')
        BY <1>1, <2>2, <4>1, <4>2, <4>3
      <4>5. Underway(g)'
        BY <4>4 DEF Underway
      <4> QED BY <4>5
    <3>3. CASE ws = "connecting" /\ ws' # "connecting"
      BY <1>3, <1>4, <2>1, <3>3
    <3>4. CASE ws = "open"
      <4>1. Queue = up /\ Queue' = up \o fs /\ ws' # "connecting"
        BY <1>1, <2>1, <3>4 DEF Queue
      <4>2. PICK g : Numbering(g, up \o fs, Len(fed[1]), sent) /\ g[Len(up \o fs)] = h[Len(up)]
        <5>1. Numbering(h, up, Len(fed[1]), sent) /\ up \in Seq(UpFrames) /\ Plain(fs)
          BY <1>3, <2>1, <3>1, <4>1
        <5> QED BY <5>1, NumberPlain, ZenonT(60)
      <4>3. h[Len(up)] = Len(sent)
        BY <3>1, <3>4, <4>1
      <4>4. Numbering(g, Queue', Len(fed'[1]), sent') /\ g[Len(Queue')] = Len(sent')
        BY <1>1, <2>2, <4>1, <4>2, <4>3
      <4>5. Underway(g)'
        BY <4>4 DEF Underway
      <4> QED BY <4>5
    <3>5. CASE ws \notin {"connecting", "open"}
      <4>1. Queue' = Queue /\ ws' = ws
        BY <1>1, <2>1, <3>5 DEF Queue
      <4> QED BY <1>1, <2>2, <3>1, <3>5, <4>1 DEF Underway
    <3> QED BY <3>2, <3>3, <3>4, <3>5
  <2> QED BY <1>1, <1>2, <2>2, <2>3 DEF FlowInv
<1>6. ASSUME NEW p \in AppPayload, SendsOne(p) PROVE FlowInv'
  <2>1. sent' = Append(sent, p)
    BY <1>6 DEF SendsOne
  <2>2. /\ ws = "connecting" => up' = up /\ pending' = pending \o <<Msg(p)>>
        /\ ws = "open" => up' = up \o <<Msg(p)>>
        /\ ws \notin {"connecting", "open"} => up' = up
    BY <1>3, <1>6 DEF SendsOne, Transmits
  <2>3. ASSUME NEW h, Underway(h) PROVE \E g : Underway(g)'
    <3>1. /\ Numbering(h, Queue, Len(fed[1]), sent)
          /\ ws \in {"connecting", "open"} => h[Len(Queue)] = Len(sent)
      BY <2>3 DEF Underway
    <3>2. CASE ws = "connecting" /\ ws' = "connecting"
      <4>1. Queue = pending /\ Queue' = pending \o <<Msg(p)>>
        BY <2>2, <3>2 DEF Queue
      <4>2. \E g : /\ Numbering(g, pending \o <<Msg(p)>>, Len(fed[1]), Append(sent, p))
                   /\ g[Len(pending \o <<Msg(p)>>)] = Len(Append(sent, p))
        BY <1>3, <3>1, <3>2, <4>1, NumberMessage
      <4> QED BY <1>1, <2>1, <4>1, <4>2 DEF Underway
    <3>3. CASE ws = "connecting" /\ ws' # "connecting"
      BY <1>3, <1>4, <2>2, <3>3
    <3>4. CASE ws = "open"
      <4>1. Queue = up /\ Queue' = up \o <<Msg(p)>>
        BY <1>1, <2>2, <3>4 DEF Queue
      <4>2. \E g : /\ Numbering(g, up \o <<Msg(p)>>, Len(fed[1]), Append(sent, p))
                   /\ g[Len(up \o <<Msg(p)>>)] = Len(Append(sent, p))
        BY <1>3, <3>1, <3>4, <4>1, NumberMessage
      <4> QED BY <1>1, <2>1, <4>1, <4>2 DEF Underway
    <3>5. CASE ws \notin {"connecting", "open"}
      <4>1. Queue' = Queue /\ ws' = ws /\ Queue \in Seq(UpFrames)
        BY <1>1, <1>3, <2>2, <3>5 DEF Queue
      <4>2. Numbering(h, Queue, Len(fed[1]), Append(sent, p))
        BY <1>3, <3>1, <4>1, NumberMore
      <4> QED BY <1>1, <2>1, <3>5, <4>1, <4>2 DEF Underway
    <3> QED BY <3>2, <3>3, <3>4, <3>5
  <2>4. /\ Append(sent, p) \in Seq(AppPayload) /\ Len(Append(sent, p)) = Len(sent) + 1
        /\ \A k \in 1 .. Len(sent) : Append(sent, p)[k] = sent[k]
    BY <1>3
  <2>5. Len(fed[1]) <= Len(sent) + 1 /\ \A k \in 1 .. Len(fed[1]) : Append(sent, p)[k] = sent[k]
    <3>1. CASE Len(fed[1]) \in Nat
      <4>1. Len(sent) \in Nat
        BY <1>3
      <4>2. \A k \in 1 .. Len(fed[1]) : k \in 1 .. Len(sent)
        BY <1>3, <3>1, <4>1
      <4> QED BY <1>3, <2>4, <3>1, <4>1, <4>2
    <3> QED BY <3>1, TheTask DEF TypeOK, BodyOK
  <2> QED BY <1>1, <1>2, <1>3, <2>1, <2>3, <2>4, <2>5 DEF FlowInv
<1> QED BY <1>5, <1>6, ClientSends

\* Reading the next frame, the server opens the stream with nothing in it, accepts
\* the message that comes next in `sent`, or accepts no more.
LEMMA FlowReads ==
  ASSUME ServerInv, QueueInv, OpeningInv, FlowInv, ServerReads
  PROVE  FlowInv'
<1> DEFINE f == Head(up)
<1>1. /\ up # <<>> /\ f = up[1] /\ f \in UpFrames /\ ws # "connecting" /\ peer = "open"
      /\ ~opened => f = OpenFrame /\ Subscribe(f) /\ stream = 0
      /\ opened =>
           \/ f.kind = "Message" /\ (MessageOversize(f) \/ Message(f) \/ MessageIgnored(f))
           \/ f.kind = "HalfClose" /\ HalfClose(f)
           \/ f.kind = "Reset" /\ Reset(f)
  BY ReadsWhat
<1>2. UNCHANGED <<ws, sent>> /\ up' = Tail(up) /\ opened'
  <2>1. UNCHANGED <<ws, sent>> /\ up' = Tail(up) /\ ReadFrame(f)
    BY DEF ServerReads
  <2>2. opened'
    BY <1>1 DEF Subscribe, MessageOversize, Message, MessageIgnored, HalfClose, Reset, Take
  <2> QED BY <2>1, <2>2
<1> HIDE DEF f
<1>3. up \in Seq(UpFrames) /\ Queue = up /\ Queue' = Tail(up)
  BY <1>1, <1>2 DEF QueueInv, Queue
<1>4. /\ sent \in Seq(AppPayload) /\ Len(fed[1]) <= Len(sent) /\ \A k \in 1 .. Len(fed[1]) : fed[1][k] = sent[k]
      /\ ~opened => fed[1] = <<>>
      /\ fed[1] \in Seq(Payloads) /\ Len(fed[1]) \in Nat /\ Len(sent) \in Nat
  BY TheTask DEF FlowInv, ServerInv, TypeOK, BodyOK
<1>5. ASSUME NEW h, Underway(h), fed'[1] = fed[1], f.kind # "Message" PROVE \E g : Underway(g)'
  <2>1. Numbering(h, up, Len(fed[1]), sent) /\ (ws \in {"connecting", "open"} => h[Len(up)] = Len(sent))
    BY <1>3, <1>5 DEF Underway
  <2>2. PICK g : Numbering(g, Tail(up), Len(fed[1]), sent) /\ g[Len(Tail(up))] = h[Len(up)]
    <3>1. up # <<>> /\ up \in Seq(UpFrames) /\ Len(fed[1]) \in Nat /\ up[1].kind # "Message"
      BY <1>1, <1>3, <1>4, <1>5
    <3> QED BY <2>1, <3>1, NumberNext, ZenonT(60)
  <2>3. Underway(g)'
    BY <1>2, <1>3, <1>5, <2>1, <2>2 DEF Underway
  <2> QED BY <2>3
<1>6. CASE ~opened
  <2>1. Subscribe(f) /\ f.p = Empty /\ f.kind # "Message" /\ stream = 0
    BY <1>1, <1>6, FrameIs, CodecAssumption
  <2>2. params.route = "method" /\ ntask = 0
    BY <1>6, CodecAssumption DEF ServerInv, TypeOK, OpenInv
  <2>3. fed'[1] = <<>>
    <3>1. FirstPayloads(f) = <<>>
      BY <2>1, <2>2 DEF FirstPayloads
    <3>2. fed' = [fed EXCEPT ![1] = FirstPayloads(f)]
      BY <2>1, <2>2 DEF Subscribe
    <3> QED BY <3>1, <3>2, TheTask DEF ServerInv, TypeOK, BodyOK
  <2>4. Reach /\ fed[1] = <<>>
    BY <1>1, <1>4, <1>6 DEF Reach
  <2>5. \E g : Underway(g)'
    BY <1>5, <2>1, <2>3, <2>4 DEF FlowInv
  <2> QED BY <1>2, <1>4, <2>3, <2>4, <2>5 DEF FlowInv
<1>7. ASSUME opened, ~Reach', fed'[1] = fed[1] PROVE FlowInv'
  BY <1>2, <1>4, <1>7 DEF FlowInv
<1>8. CASE opened /\ (MessageOversize(f) \/ MessageIgnored(f) \/ HalfClose(f) \/ Reset(f))
  BY <1>2, <1>7, <1>8
  DEF MessageOversize, MessageIgnored, HalfClose, Reset, TakeStream, Reach, bodyVars
<1>9. CASE opened /\ f.kind = "Message" /\ Message(f)
  <2>1. feeding /\ reader = "reading" /\ fed' = [fed EXCEPT ![stream] = Append(@, f.p)]
    BY <1>9 DEF Message, Take
  <2>2. stream = 1
    <3>1. stream \in 0 .. ntask /\ stream # 0 /\ ntask <= 1 /\ ntask \in Nat
      BY <2>1, BoundAssumption DEF ServerInv, TypeOK, ReaderOK, TaskOK, OpeningInv
    <3> QED BY <3>1
  <2>3. fed'[1] = Append(fed[1], f.p) /\ fed' \in [Tasks -> Seq(Payloads)]
    <3>1. fed'[1] = Append(fed[1], f.p)
      BY <2>1, <2>2, TheTask DEF ServerInv, TypeOK, BodyOK
    <3>2. TypeOK'
      BY StepOfServer, TypeStep DEF ServerInv, StreamNext
    <3> QED BY <3>1, <3>2 DEF TypeOK, BodyOK
  <2>4. PICK h : Underway(h)
    BY <1>1, <2>1 DEF FlowInv, Reach
  <2>5. Numbering(h, up, Len(fed[1]), sent) /\ (ws \in {"connecting", "open"} => h[Len(up)] = Len(sent))
    BY <1>3, <2>4 DEF Underway
  <2>6. /\ \E g : Numbering(g, Tail(up), Len(fed[1]) + 1, sent) /\ g[Len(Tail(up))] = h[Len(up)]
        /\ Len(fed[1]) + 1 <= Len(sent) /\ f.p = sent[Len(fed[1]) + 1]
    <3>1. up # <<>> /\ up \in Seq(UpFrames) /\ Len(fed[1]) \in Nat /\ up[1].kind = "Message" /\ f = up[1]
      BY <1>1, <1>3, <1>4, <1>9
    <3>2. /\ \E g : Numbering(g, Tail(up), Len(fed[1]) + 1, sent) /\ g[Len(Tail(up))] = h[Len(up)]
          /\ Len(fed[1]) + 1 <= Len(sent) /\ up[1].p = sent[Len(fed[1]) + 1]
      BY <2>5, <3>1, NumberNext, ZenonT(60)
    <3> QED BY <3>1, <3>2, Zenon
  <2>7. Len(fed'[1]) = Len(fed[1]) + 1 /\ \A k \in 1 .. Len(fed[1]) + 1 : fed'[1][k] = sent[k]
    <3>1. f.p \in Payloads
      <4>1. f \in PeerFrames
        BY <1>1, <1>9, FrameIs
      <4> QED BY <4>1, <1>9, FramesAssumption DEF Frames, Payloads
    <3>2. /\ Len(Append(fed[1], f.p)) = Len(fed[1]) + 1 /\ Append(fed[1], f.p)[Len(fed[1]) + 1] = f.p
          /\ \A k \in 1 .. Len(fed[1]) : Append(fed[1], f.p)[k] = fed[1][k]
      BY <1>4, <3>1
    <3>3. \A k \in 1 .. Len(fed[1]) + 1 : k = Len(fed[1]) + 1 \/ k \in 1 .. Len(fed[1])
      BY <1>4
    <3> QED BY <1>4, <2>3, <2>6, <3>2, <3>3
  <2>8. PICK g : Numbering(g, Tail(up), Len(fed[1]) + 1, sent) /\ g[Len(Tail(up))] = h[Len(up)]
    BY <2>6
  <2>9. Underway(g)'
    BY <1>2, <1>3, <2>5, <2>7, <2>8 DEF Underway
  <2> QED BY <1>2, <1>4, <2>6, <2>7, <2>9 DEF FlowInv
<1> QED BY <1>1, <1>6, <1>8, <1>9

\* Every step keeps FlowInv.
LEMMA FlowStep ==
  ServerInv /\ QueueInv /\ OpeningInv /\ FlowInv /\ [StreamNext]_streamVars => FlowInv'
<1> SUFFICES ASSUME ServerInv, QueueInv, OpeningInv, FlowInv, [StreamNext]_streamVars PROVE FlowInv'
  OBVIOUS
<1>1. CASE Client
  BY <1>1, FlowClient DEF ServerInv
<1>2. CASE ClientOpens
  <2>1. /\ ws = "connecting" /\ ws' = "open" /\ up' = up \o pending
        /\ UNCHANGED <<sent, fed, opened, feeding, peer, reader>>
    BY <1>2 DEF ClientOpens, OnOpen, vars, readerVars, bodyVars
  <2>2. Queue' = pending /\ Queue = pending
    BY <2>1 DEF Queue, OpeningInv, QueueInv
  <2> QED BY <2>1, <2>2, FlowStays DEF Reach
<1>3. CASE ClientReads \/ ClientDrops
  <2>1. UNCHANGED <<sent, fed, opened, feeding, peer, reader, up, pending>> /\ (ws' = ws \/ ws' = "closed")
    BY <1>3 DEF ClientReads, ClientDrops, OnFrame, OnClose, vars, readerVars, bodyVars
  <2>2. CASE ws = "connecting" /\ ws' = "closed"
    <3>1. Queue' = <<>> /\ fed'[1] = <<>> /\ Len(fed'[1]) = 0
      BY <2>1, <2>2 DEF Queue, OpeningInv, FlowInv
    <3>2. Numbering([j \in 0 .. 0 |-> 0], <<>>, 0, sent')
      BY NumberNone
    <3>3. \E g : Underway(g)'
      BY <2>2, <3>1, <3>2 DEF Underway
    <3> QED BY <2>1, <3>3 DEF FlowInv
  <2>3. CASE ~(ws = "connecting" /\ ws' = "closed")
    <3>1. Queue' = Queue /\ (ws' \in {"connecting", "open"} => ws \in {"connecting", "open"})
      BY <2>1, <2>3 DEF Queue
    <3> QED BY <2>1, <3>1, FlowStays DEF Reach
  <2> QED BY <2>2, <2>3
<1>4. CASE Server
  <2>1. Queue' = Queue /\ ws' = ws /\ sent' = sent /\ UNCHANGED <<opened, fed>>
    BY <1>4, ServerKeeps DEF clientVars, Queue
  <2>2. Reach' => Reach
    BY <1>4, ServerKeeps DEF Reach
  <2> QED BY <2>1, <2>2, FlowStays
<1>5. CASE ServerReads
  BY <1>5, FlowReads
<1>6. CASE ServerSeesClose \/ LinkBreaks
  <2>1. UNCHANGED <<sent, fed, opened>> /\ ~Reach'
    BY <1>6 DEF ServerSeesClose, LinkBreaks, clientVars, bodyVars, readerVars, Reach
  <2> QED BY <2>1 DEF FlowInv
<1>7. CASE UNCHANGED streamVars
  BY <1>7, FlowStays DEF streamVars, vars, clientVars, bodyVars, readerVars, Reach, Queue
<1> QED BY <1>1, <1>2, <1>3, <1>4, <1>5, <1>6, <1>7 DEF StreamNext, StreamTerminated

-----------------------------------------------------------------------------
(* The contract.                                                           *)

CompositionInv ==
  ServerInv /\ FramesInv /\ QueueInv /\ OpeningInv /\ CallInv /\ ReadInv /\ FlowInv

\* What is known of the client and the server in every reachable state.
LEMMA CompositionHolds == StreamSpec => []CompositionInv
<1>1. StreamInit => QueueInv /\ OpeningInv /\ CallInv /\ ReadInv /\ FlowInv
  BY QueueInit, OpeningInit, CallInit, FlowInit
<1>2. /\ ServerInv /\ FramesInv /\ ServerInv' /\ QueueInv /\ OpeningInv /\ CallInv /\ ReadInv /\ FlowInv
      /\ [StreamNext]_streamVars
      => QueueInv' /\ OpeningInv' /\ CallInv' /\ ReadInv' /\ FlowInv'
  BY QueueStep, OpeningStep, CallStep, ReadStep, FlowStep
<1>3. StreamSpec => [](QueueInv /\ OpeningInv /\ CallInv /\ ReadInv /\ FlowInv)
  BY <1>1, <1>2, ServerHolds, PTL DEF StreamSpec
<1> QED BY <1>3, ServerHolds, PTL DEF CompositionInv

\* A message that has no transcoding reaches the backend empty, which no contract of
\* a call allows: the refinement is of applications that send none.
WellFormed == Json => AppPayload \cap Malformed = {}

\* What the backend has pulled is the beginning of what the application has sent.
Pulled == \E n \in 0 .. Len(sent) : n = Len(got[1]) /\ got[1] = SubSeq(sent, 1, n)

LEMMA PulledIs ==
  ASSUME WellFormed, CompositionInv
  PROVE  Pulled
<1> DEFINE n == Len(got[1])
           all == AppPayload \cup Payloads
<1>1. /\ got[1] \in Seq(Payloads) /\ fed[1] \in Seq(Payloads) /\ sent \in Seq(AppPayload)
      /\ n \in Nat /\ Len(fed[1]) \in Nat /\ Len(sent) \in Nat
  BY TheTask DEF CompositionInv, ServerInv, FlowInv, TypeOK, BodyOK
<1>2. /\ n <= Len(fed[1]) /\ Len(fed[1]) <= Len(sent)
      /\ \A k \in 1 .. n : got[1][k] = Transcoded(fed[1][k])
      /\ \A k \in 1 .. Len(fed[1]) : fed[1][k] = sent[k]
  BY TheTask DEF CompositionInv, ServerInv, OrderInv, PlacesInv, FlowInv
<1> HIDE DEF n
<1>3. ASSUME NEW k \in 1 .. n PROVE got[1][k] = sent[k]
  <2>1. k \in 1 .. Len(fed[1]) /\ k \in 1 .. Len(sent)
    BY <1>1, <1>2
  <2>2. sent[k] \in AppPayload
    BY <1>1, <2>1
  <2>3. codec = "text" => sent[k] \notin Malformed
    BY <2>2 DEF WellFormed, CompositionInv, OpeningInv
  <2> QED BY <1>2, <2>1, <2>3 DEF Transcoded
<1>4. /\ n \in 0 .. Len(sent) /\ SubSeq(sent, 1, n) \in Seq(AppPayload) /\ Len(SubSeq(sent, 1, n)) = n
      /\ \A k \in 1 .. n : SubSeq(sent, 1, n)[k] = sent[k]
  BY <1>1, <1>2
<1>5. got[1] \in Seq(all) /\ SubSeq(sent, 1, n) \in Seq(all)
  BY <1>1, <1>4
<1>6. got[1] = SubSeq(sent, 1, n)
  BY <1>3, <1>4, <1>5, SeqEqual DEF n
<1> QED BY <1>4, <1>6 DEF n, Pulled

\* What RpcStream sees of the call.
View == <<sent, got[1], produced[1], delivered, statuses>>

LEMMA ViewIs == Rpc!rpcVars = View /\ (Rpc!rpcVars)' = View'
  BY DEF Rpc!rpcVars, View

\* What a step of the server may do to the stream: the backend pulls, or yields.
LEMMA ServerSees ==
  ASSUME TypeOK, [Next]_vars
  PROVE  \/ got'[1] = got[1] /\ produced'[1] = produced[1]
         \/ BackendPulls(1) /\ produced'[1] = produced[1]
         \/ BackendYields(1) /\ got'[1] = got[1]
<1>1. ASSUME NEW i \in Tasks, BackendPulls(i)
      PROVE  produced' = produced /\ (i # 1 => got'[1] = got[1])
  BY <1>1, TheTask DEF BackendPulls, taskVars, TypeOK, BodyOK
<1>2. ASSUME NEW i \in Tasks, BackendYields(i)
      PROVE  got' = got /\ (i # 1 => produced'[1] = produced[1])
  BY <1>2, TheTask DEF BackendYields, bodyVars, TypeOK, TaskOK
<1>3. ASSUME NEW i \in Tasks, Task(i) \/ BackendResponds(i) \/ BackendReads(i)
      PROVE  (got' = got /\ produced' = produced) \/ BackendPulls(i) \/ BackendYields(i)
  BY <1>3
  DEF Task, Resolve, EncodeFails, TimeoutExpires, TaskSends, Cancelled, BackendResponds,
      BackendAnswers, BackendRefuses, BackendEnds, Advance, BackendReads, BackendSeesEnd,
      BackendDrops, bodyVars, taskVars
<1>4. ASSUME NEW f \in PeerFrames, ReadFrame(f) PROVE got' = got /\ produced' = produced
  BY <1>4
  DEF ReadFrame, ReadIgnored, SubscribeAgain, SubscribeOversize, Subscribe, MessageOversize,
      Message, MessageIgnored, HalfClose, Reset, bodyVars, taskVars
<1>5. CASE Reader \/ KeepaliveExpires \/ Writer \/ PeerLeaves \/ UNCHANGED vars
  BY <1>5
  DEF Reader, PushDone, ReplyDone, EndOfInput, LeaveLoop, Join, RejectHandshake, KeepaliveExpires,
      Writer, WriterSends, WriterFails, WriterEnds, WriterStops, PeerLeaves, vars, taskVars, bodyVars
<1>6. ASSUME NEW i \in Tasks, Task(i) \/ BackendResponds(i) \/ BackendReads(i)
      PROVE  \/ got'[1] = got[1] /\ produced'[1] = produced[1]
             \/ BackendPulls(1) /\ produced'[1] = produced[1]
             \/ BackendYields(1) /\ got'[1] = got[1]
  BY <1>1, <1>2, <1>3, <1>6
<1> QED BY <1>4, <1>5, <1>6 DEF Next, ServerStep, Terminated

\* A step of the server is a Pull, an Answer, or nothing.
LEMMA RpcServer ==
  ASSUME CompositionInv, Pulled', ServerTurn, [Next]_vars
  PROVE  [Rpc!RpcNext]_View
<1>1. UNCHANGED <<sent, delivered, statuses>>
  BY ServerTurnKeeps
<1>2. CASE got'[1] = got[1] /\ produced'[1] = produced[1]
  BY <1>1, <1>2 DEF View
<1>3. CASE BackendPulls(1) /\ produced'[1] = produced[1]
  <2>1. \E n \in 0 .. Len(sent) : n = Len(got'[1]) /\ got'[1] = SubSeq(sent, 1, n)
    BY <1>1 DEF Pulled
  <2>2. Len(got'[1]) = Len(got[1]) + 1 /\ Len(got[1]) \in Nat /\ Len(sent) \in Nat
    <3>1. /\ got'[1] = Append(got[1], Transcoded(Head(reqq[1]))) /\ got[1] \in Seq(Payloads)
          /\ reqq[1] \in Seq(Payloads) /\ reqq[1] # <<>>
      BY <1>3, TheTask DEF BackendPulls, CompositionInv, ServerInv, TypeOK, BodyOK
    <3>2. Transcoded(Head(reqq[1])) \in Payloads
      BY <3>1 DEF Transcoded, Payloads
    <3> QED BY <3>1, <3>2 DEF CompositionInv, FlowInv
  <2>3. \E n \in (Len(got[1]) + 1) .. Len(sent) : got'[1] = SubSeq(sent, 1, n)
    BY <2>1, <2>2
  <2>4. Rpc!Pull
    BY <1>1, <1>3, <2>3 DEF Rpc!Pull
  <2> QED BY <2>4 DEF Rpc!RpcNext
<1>4. CASE BackendYields(1) /\ got'[1] = got[1]
  <2>1. produced'[1] = produced[1] + 1 /\ tpc[1] = "pump"
    BY <1>4, TheTask DEF BackendYields, CompositionInv, ServerInv, TypeOK, TaskOK
  <2>2. statuses # <<"OK">>
    BY <2>1 DEF CompositionInv, CallInv
  <2>3. Rpc!Answer
    BY <1>1, <1>4, <2>1, <2>2 DEF Rpc!Answer
  <2> QED BY <2>3 DEF Rpc!RpcNext
<1> QED BY <1>2, <1>3, <1>4, ServerSees DEF CompositionInv, ServerInv

\* A turn of the client is a Request, a Receive, an End, or nothing.
LEMMA RpcClient ==
  ASSUME CompositionInv, CompositionInv', ClientTurn
  PROVE  [Rpc!RpcNext]_View
<1>1. got' = got /\ produced' = produced
  BY ClientTurnKeeps DEF vars, bodyVars, taskVars
<1>2. /\ UNCHANGED statuses \/ \E c \in Outcomes : Concludes(c) /\ (c = "OK" => TrailerRead)
      /\ ~finished => statuses = <<>>
  BY ClientStatus DEF ClientTurn, CompositionInv, CallInv
<1>3. ASSUME sent' = sent, delivered' = delivered PROVE [Rpc!RpcNext]_View
  <2>1. CASE UNCHANGED statuses
    BY <1>1, <1>3, <2>1 DEF View
  <2>2. ASSUME NEW c \in Outcomes, Concludes(c), c = "OK" => TrailerRead PROVE [Rpc!RpcNext]_View
    <3>1. c = "OK" => Len(delivered) = produced[1]
      BY <2>2, NextFrame DEF TrailerRead, ClientReads, CompositionInv
    <3>2. Rpc!End(c)
      BY <1>1, <1>3, <2>2, <3>1 DEF Rpc!End, Concludes
    <3> QED BY <2>2, <3>2 DEF Rpc!RpcNext, Outcomes
  <2> QED BY <1>2, <2>1, <2>2
<1>4. ASSUME NEW p \in AppPayload, AppSends(p) PROVE Rpc!Request(p)
  BY <1>1, <1>2, <1>4 DEF AppSends, Rpc!Request
<1>5. CASE Client
  <2>1. CASE \E p \in AppPayload : AppSends(p)
    BY <1>4, <2>1 DEF Rpc!RpcNext
  <2>2. CASE ~\E p \in AppPayload : AppSends(p)
    <3>1. sent' = sent /\ delivered' = delivered
      BY <1>5, <2>2 DEF Client, AppHalfCloses, Terminate, TransportCloses
    <3> QED BY <1>3, <3>1
  <2> QED BY <2>1, <2>2
<1>6. CASE ClientOpens \/ ClientDrops
  BY <1>3, <1>6 DEF ClientOpens, OnOpen, ClientDrops, OnClose
<1>7. CASE ClientReads
  <2> DEFINE f == wire[cpos + 1]
  <2>1. sent' = sent /\ cpos < Len(wire) /\ ws \in {"open", "closing"}
        /\ IF f.kind = "Close" THEN OnClose(f.code) ELSE OnFrame(f)
    BY <1>7 DEF ClientReads, OnClose, OnFrame
  <2>2. CASE f.kind = "Message" /\ ~finished /\ ws = "open"
    <3>1. delivered' = Append(delivered, f.n) /\ statuses' = statuses
      BY <2>1, <2>2 DEF OnFrame
    <3>2. f.n = Len(delivered) + 1 /\ f.n <= produced[1] /\ f.n \in Nat
      <4>1. ServerInv /\ FramesInv /\ OpeningInv /\ ReadInv /\ Listening
        BY <2>2 DEF CompositionInv, Listening
      <4>2. f.n = Len(delivered) + 1 /\ f.n <= produced[1]
        BY <2>1, <2>2, <4>1, NextFrame
      <4> QED BY <4>1, <4>2 DEF ReadInv
    <3>3. Len(delivered') = Len(delivered) + 1 /\ Len(delivered) \in Nat
          /\ delivered' = [k \in 1 .. Len(delivered') |-> k]
      BY <3>1, <3>2 DEF CompositionInv, ReadInv
    <3>4. produced[1] \in Nat
      BY TheTask, BoundAssumption DEF CompositionInv, ServerInv, TypeOK, TaskOK
    <3>5. \E n \in (Len(delivered) + 1) .. produced[1] : delivered' = [k \in 1 .. n |-> k]
      BY <3>2, <3>3, <3>4
    <3>6. Rpc!Receive
      BY <1>1, <1>2, <2>1, <2>2, <3>1, <3>5 DEF Rpc!Receive
    <3> QED BY <3>6 DEF Rpc!RpcNext
  <2>3. CASE ~(f.kind = "Message" /\ ~finished /\ ws = "open")
    <3>1. delivered' = delivered
      BY <2>1, <2>3 DEF OnClose, OnFrame
    <3> QED BY <1>3, <2>1, <3>1
  <2> QED BY <2>2, <2>3
<1> QED BY <1>5, <1>6, <1>7 DEF ClientTurn

\* A call over a WebSocket keeps the contract of a streaming call for every capacity of
\* its queues, every number of messages, every cancel, deadline, refusal and broken
\* connection (ws-transport.ts, ws.rs): the backend receives a beginning of what was
\* sent, the application a beginning of the answer, one status, and OK only for all of it.
THEOREM WsImplementsRpcStream ==
  ASSUME WellFormed
  PROVE  StreamSpec => ImplementsRpcStream
<1>1. StreamInit => Rpc!RpcInit
  BY TheTask DEF StreamInit, Init, ClientInit, Rpc!RpcInit
<1>2. CompositionInv /\ CompositionInv' /\ Pulled' /\ [StreamNext]_streamVars => [Rpc!RpcNext]_(Rpc!rpcVars)
  <2> SUFFICES ASSUME CompositionInv, CompositionInv', Pulled', [StreamNext]_streamVars
               PROVE  [Rpc!RpcNext]_(Rpc!rpcVars)
    OBVIOUS
  <2>1. [Next]_vars
    BY StepOfServer DEF CompositionInv
  <2>2. [Rpc!RpcNext]_View
    BY <2>1, Turns, RpcServer, RpcClient
  <2> QED BY <2>2, ViewIs
<1>3. CompositionInv => Pulled
  BY PulledIs
<1>4. StreamSpec => [][Rpc!RpcNext]_(Rpc!rpcVars)
  BY <1>2, <1>3, CompositionHolds, PTL DEF StreamSpec
<1> QED BY <1>1, <1>4, PTL DEF StreamSpec, ImplementsRpcStream, Rpc!RpcSpec
=============================================================================
