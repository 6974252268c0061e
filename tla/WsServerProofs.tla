--------------------------- MODULE WsServerProofs ---------------------------
(***************************************************************************)
(* Proofs about the server end of a WebSocket, for every capacity, payload *)
(* set, set of handshakes and bound. Its types and its slot:               *)
(*   TypeCorrect        types, and both queues within their capacity;      *)
(*   NoOrphans          from SlotInv, which ties tasks to the slot;        *)
(*   JsonOpensOnlyOnce  from OpenInv, which ties `opened` to ntask.        *)
(* The requests, whose payloads RequestsInv counts (accepted are pulled,   *)
(* queued or waited with) and OrderInv compares place by place:            *)
(*   EndOfRequests       when the backend sees the end of the requests,    *)
(*     every payload the reader accepted for the stream has been pulled;   *)
(*   RequestsAreInOrder  what was pulled is what was accepted, in order.   *)
(* The replies, from RepliesInv, which says of each place in run_stream    *)
(* what has been sent by then, and of each frame what went before it:      *)
(*   GrammarIsKept       a task's frames follow the protocol's grammar;    *)
(*   StatusBeforeClose   a normal Close follows the call's status;         *)
(*   OkIsTheWholeAnswer  an OK trailer follows every message produced;     *)
(*   StatusesAreSent     a task that ran to its end got its status out.    *)
(***************************************************************************)
EXTENDS WsServerProperties, SequenceTheorems, TLAPS

-----------------------------------------------------------------------------
(* Types                                                                   *)

\* Out builds a frame of the outbound queue.
LEMMA OutIsFrame ==
  ASSUME NEW kind \in {"Header", "Message", "Trailer", "Reset", "Close"},
         NEW of \in 0 .. MaxStreams, NEW n \in Nat, NEW code \in Codes
  PROVE  Out(kind, of, n, code) \in OutFrames
  BY DEF Out, OutFrames

\* The frame a task sends is one (run_stream sends nothing else).
LEMMA TaskFrameIsFrame ==
  ASSUME TypeOK, NEW i \in Tasks, tpc[i] \in Terminating \cup {"header", "message", "close"}
  PROVE  TaskFrame(i) \in OutFrames
  <1>1. i \in 0 .. MaxStreams /\ produced[i] \in Nat /\ 0 \in Nat
    BY BoundAssumption DEF TypeOK, TaskOK, Tasks
  <1>2. {"none", "OK", "ERROR", "DEADLINE_EXCEEDED", "UNIMPLEMENTED", "UNAVAILABLE", "INTERNAL"} \subseteq Codes
    BY DEF Codes
  <1>3. read_status(verdict[i]) \in Codes
    BY <1>2 DEF read_status
  <1> QED
    BY <1>1, <1>2, <1>3, OutIsFrame DEF TaskFrame, Terminating

\* A send waits for room, so the outbound queue keeps to its capacity.
LEMMA EnqueueKeepsOut ==
  ASSUME OutOK, NEW f \in OutFrames, Enqueue(f), UNCHANGED <<writer, wire>>
  PROVE  OutOK'
  BY CapAssumption DEF OutOK, Enqueue

\* What stream.take() leaves: an empty slot, and typed abort flags.
LEMMA TakeStreamKeeps ==
  ASSUME TypeOK, TakeStream
  PROVE  /\ stream' = 0 /\ ~feeding' /\ feeding' \in BOOLEAN
         /\ aborted' \in [Tasks -> BOOLEAN]
  BY DEF TypeOK, TaskOK, ReaderOK, TakeStream, Abort, Tasks

ReqqOK == reqq \in [Tasks -> Seq(Payloads)] /\ \A i \in Tasks : Len(reqq[i]) <= ReqCap

\* Replacing one request queue by another that fits keeps them all in bounds.
LEMMA ReqqUpdate ==
  ASSUME ReqqOK, NEW i \in Tasks, NEW q \in Seq(Payloads), Len(q) <= ReqCap,
         reqq' = [reqq EXCEPT ![i] = q]
  PROVE  ReqqOK'
  <1>1. reqq' \in [Tasks -> Seq(Payloads)]
    BY DEF ReqqOK
  <1>2. ASSUME NEW j \in Tasks PROVE Len(reqq'[j]) <= ReqCap
    <2>1. CASE j = i
      <3>1. reqq'[j] = q
        BY <2>1 DEF ReqqOK
      <3> QED
        BY <3>1
    <2>2. CASE j # i
      <3>1. reqq'[j] = reqq[j]
        BY <2>2 DEF ReqqOK
      <3> QED
        BY <3>1 DEF ReqqOK
    <2> QED
      BY <2>1, <2>2
  <1> QED
    BY <1>1, <1>2 DEF ReqqOK

\* A dropped receiver leaves an empty, well-typed queue.
LEMMA DropReceiverKeeps ==
  ASSUME BodyOK, NEW i \in Tasks, DropReceiver(i), UNCHANGED <<fed, got, eos>>
  PROVE  BodyOK'
  <1>1. <<>> \in Seq(Payloads) /\ Len(<<>>) <= ReqCap
    BY CapAssumption
  <1>2. ReqqOK
    BY DEF BodyOK, ReqqOK
  <1>3. ReqqOK'
    <2>1. CASE rx[i] = "task"
      BY <1>1, <1>2, <2>1, ReqqUpdate DEF DropReceiver
    <2>2. CASE rx[i] # "task"
      BY <1>2, <2>2 DEF DropReceiver, ReqqOK
    <2> QED
      BY <2>1, <2>2
  <1>4. rx' \in [Tasks -> {"task", "backend", "gone"}]
    BY DEF BodyOK, DropReceiver
  <1> QED
    BY <1>3, <1>4 DEF BodyOK, ReqqOK

\* A task that moves to a known place stays well typed.
LEMMA GotoKeeps ==
  ASSUME TaskOK, NEW i \in Tasks, NEW pc \in TaskPCs, Goto(i, pc),
         UNCHANGED <<ntask, tmo, aborted, produced, verdict>>
  PROVE  TaskOK'
  BY DEF TaskOK, Goto

\* The inline and the injected payload of a Subscribe fit the fresh queue.
LEMMA FirstPayloadsFit ==
  ASSUME TypeOK, NEW f \in PeerFrames
  PROVE  FirstPayloads(f) \in Seq(Payloads) /\ Len(FirstPayloads(f)) <= ReqCap
  <1>1. f.p \in Payloads /\ Empty \in Payloads
    BY FramesAssumption DEF Frames, Payloads
  <1>2. params.route = "nobody" => ReqCap >= 2
    BY CapAssumption DEF TypeOK
  <1> QED
    BY <1>1, <1>2, CapAssumption DEF FirstPayloads

\* Each part of TypeOK depends on its own variables only: the reader,
LEMMA ReaderStays == ReaderOK /\ UNCHANGED <<readerVars, ntask>> => ReaderOK'
  BY DEF ReaderOK, readerVars

\* the tasks,
LEMMA TaskStays == TaskOK /\ UNCHANGED <<taskVars, verdict>> => TaskOK'
  BY DEF TaskOK, taskVars

\* the request streams,
LEMMA BodyStays == BodyOK /\ UNCHANGED bodyVars => BodyOK'
  BY DEF BodyOK, bodyVars

\* and the outbound side.
LEMMA OutStays == OutOK /\ UNCHANGED outVars => OutOK'
  BY DEF OutOK, outVars

\* What every frame the reader takes does to the state it shares with the rest.
LEMMA TakeKeeps ==
  ASSUME TypeOK, NEW f \in PeerFrames, NEW kind, Take(f, kind)
  PROVE  /\ codec' \in {"none"} \cup Types /\ opened' \in BOOLEAN /\ seen' \in 0 .. MaxFrames
         /\ OutOK' /\ UNCHANGED <<verdict, peer, params>>
         /\ f.p \in Payloads /\ f.t \in BOOLEAN
         /\ peer' \in {"open", "closed", "vanished"} /\ params' \in Handshakes
  <1>1. f \in Frames
    BY FramesAssumption
  <1>2. f.p \in Payloads /\ f.t \in BOOLEAN /\ f.ty \in Types
    BY <1>1 DEF Frames, Payloads, Types
  <1>3. codec' \in {"none"} \cup Types
    BY <1>2 DEF Take, Locked, TypeOK, ReaderOK
  <1>4. seen' \in 0 .. MaxFrames
    BY BoundAssumption DEF Take, TypeOK, ReaderOK
  <1>5. OutOK'
    BY OutStays DEF Take, TypeOK
  <1>6. opened' \in BOOLEAN
    BY DEF Take, TypeOK, ReaderOK
  <1> QED
    BY <1>2, <1>3, <1>4, <1>5, <1>6 DEF Take, TypeOK

\* Every branch of handle_frame keeps the types.
LEMMA ReadFrameKeepsType ==
  ASSUME TypeOK, NEW f \in PeerFrames, ReadFrame(f)
  PROVE  TypeOK'
  <1>1. CASE ReadIgnored(f)
    BY <1>1, TakeKeeps, TaskStays, BodyStays DEF ReadIgnored, TypeOK, ReaderOK, taskVars
  <1>2. CASE SubscribeAgain(f)
    BY <1>2, TakeKeeps, TaskStays, BodyStays DEF SubscribeAgain, TypeOK, ReaderOK, taskVars, ReplyCode
  <1>3. CASE SubscribeOversize(f)
    BY <1>3, TakeKeeps, TaskStays, BodyStays DEF SubscribeOversize, TypeOK, ReaderOK, taskVars, ReplyCode
  <1>4. CASE Subscribe(f)
    <2> DEFINE i == ntask + 1
    <2>1. i \in Tasks
      BY <1>4, BoundAssumption DEF Subscribe, TypeOK, TaskOK, Tasks
    <2>2. TaskOK'
      BY <1>4, <2>1, TakeKeeps, BoundAssumption DEF Subscribe, TypeOK, TaskOK, Tasks, TaskPCs
    <2>3. BodyOK'
      <3>1. ReqqOK'
        BY <1>4, <2>1, FirstPayloadsFit, ReqqUpdate DEF Subscribe, TypeOK, BodyOK, ReqqOK
      <3>2. fed' \in [Tasks -> Seq(Payloads)]
        BY <1>4, <2>1, FirstPayloadsFit DEF Subscribe, TypeOK, BodyOK
      <3>3. rx' \in [Tasks -> {"task", "backend", "gone"}] /\ UNCHANGED <<got, eos>>
        BY <1>4, <2>1 DEF Subscribe, TypeOK, BodyOK
      <3> QED
        BY <3>1, <3>2, <3>3 DEF TypeOK, BodyOK, ReqqOK
    <2>4. ReaderOK'
      BY <1>4, TakeKeeps, BoundAssumption DEF Subscribe, TypeOK, ReaderOK, TaskOK
    <2> QED
      BY <1>4, <2>2, <2>3, <2>4, TakeKeeps DEF Subscribe, TypeOK
  <1>5. CASE MessageOversize(f)
    BY <1>5, TakeKeeps, TaskStays, BodyStays DEF MessageOversize, TypeOK, ReaderOK, taskVars, ReplyCode
  <1>6. CASE Message(f)
    <2>1. stream \in Tasks
      BY <1>6, BoundAssumption DEF Message, TypeOK, ReaderOK, TaskOK, Tasks
    <2>2. fed' \in [Tasks -> Seq(Payloads)]
      BY <1>6, <2>1, TakeKeeps DEF Message, TypeOK, BodyOK
    <2>3. BodyOK'
      BY <1>6, <2>2 DEF Message, TypeOK, BodyOK
    <2> QED
      BY <1>6, <2>3, TakeKeeps, TaskStays DEF Message, TypeOK, ReaderOK, taskVars
  <1>7. CASE MessageIgnored(f)
    BY <1>7, TakeKeeps, TaskStays, BodyStays DEF MessageIgnored, TypeOK, ReaderOK, taskVars
  <1>8. CASE HalfClose(f)
    BY <1>8, TakeKeeps, TaskStays, BodyStays DEF HalfClose, TypeOK, ReaderOK, taskVars
  <1>9. CASE Reset(f)
    BY <1>9, TakeKeeps, TakeStreamKeeps, BodyStays DEF Reset, TypeOK, ReaderOK, TaskOK
  <1> QED
    BY <1>1, <1>2, <1>3, <1>4, <1>5, <1>6, <1>7, <1>8, <1>9 DEF ReadFrame

\* A completed push keeps the types, and the queue within its capacity.
LEMMA PushedType ==
  ASSUME TypeOK, PushDone, ReqqOK'
  PROVE  TypeOK'
  <1>1. BodyOK'
    BY DEF PushDone, TypeOK, BodyOK, ReqqOK
  <1> QED
    BY <1>1, TaskStays, OutStays DEF PushDone, TypeOK, ReaderOK, taskVars, Payloads

\* The reader's other steps, its exits from the loop included, keep the types.
LEMMA ReaderKeepsType ==
  ASSUME TypeOK, Reader \/ KeepaliveExpires
  PROVE  TypeOK'
  <1>1. CASE PushDone
    <2>1. ReqqOK
      BY DEF TypeOK, BodyOK, ReqqOK
    <2>2. CASE rx[stream] # "gone" /\ Len(reqq[stream]) < ReqCap
               /\ reqq' = [reqq EXCEPT ![stream] = Append(@, hold)]
      <3>1. CASE stream \in Tasks
        <4>1. Append(reqq[stream], hold) \in Seq(Payloads) /\ Len(Append(reqq[stream], hold)) <= ReqCap
          BY <2>2, <3>1, CapAssumption DEF TypeOK, BodyOK, ReaderOK
        <4>2. ReqqOK'
          BY <2>1, <2>2, <3>1, <4>1, ReqqUpdate
        <4> QED
          BY <1>1, <4>2, PushedType
      <3>2. CASE stream \notin Tasks
        <4>1. reqq' = reqq
          BY <2>1, <2>2, <3>2 DEF ReqqOK
        <4> QED
          BY <1>1, <2>1, <4>1, PushedType DEF ReqqOK
      <3> QED
        BY <3>1, <3>2
    <2>3. CASE UNCHANGED reqq
      BY <1>1, <2>1, <2>3, PushedType DEF ReqqOK
    <2> QED
      BY <1>1, <2>2, <2>3 DEF PushDone
  <1>2. CASE ReplyDone
    <2>1. Out("Reset", 0, 0, ReplyCode[reader]) \in OutFrames
      BY <1>2, BoundAssumption, OutIsFrame DEF ReplyDone, ReplyCode, Codes
    <2>2. OutOK'
      BY <1>2, <2>1, EnqueueKeepsOut DEF ReplyDone, TypeOK
    <2>3. stream' \in 0 .. ntask /\ feeding' \in BOOLEAN /\ (feeding' => stream' # 0)
          /\ aborted' \in [Tasks -> BOOLEAN]
      BY <1>2, TakeStreamKeeps DEF ReplyDone, TypeOK, ReaderOK, TaskOK
    <2> QED
      BY <1>2, <2>2, <2>3, BodyStays DEF ReplyDone, TypeOK, ReaderOK, TaskOK, bodyVars
  <1>3. CASE LeaveLoop
    BY <1>3, TakeStreamKeeps, BodyStays, OutStays DEF LeaveLoop, TypeOK, ReaderOK, TaskOK
  <1>4. CASE Join
    BY <1>4, TaskStays, BodyStays, OutStays DEF Join, TypeOK, ReaderOK, taskVars
  <1>5. CASE RejectHandshake
    <2>1. params.reject \in Codes
      BY ConfigAssumption DEF TypeOK, Handshake, Codes
    <2>2. Out("Close", 0, 0, params.reject) \in OutFrames
      BY <2>1, BoundAssumption, OutIsFrame
    <2>3. OutOK'
      <3>1. <<Out("Close", 0, 0, params.reject)>> \in Seq(OutFrames)
        BY <2>2
      <3>2. wire' \in Seq(OutFrames)
        BY <1>5, <3>1 DEF RejectHandshake, TypeOK, OutOK
      <3> QED
        BY <1>5, <3>2 DEF RejectHandshake, TypeOK, OutOK
    <2> QED
      BY <1>5, <2>3, TaskStays, BodyStays DEF RejectHandshake, TypeOK, ReaderOK, taskVars
  <1> QED
    BY <1>1, <1>2, <1>3, <1>4, <1>5 DEF Reader, EndOfInput, KeepaliveExpires

\* A step of the task alone disturbs nothing but its place.
LEMMA AdvanceKeeps ==
  ASSUME TypeOK, NEW i \in Tasks, NEW from, NEW to \in TaskPCs, Advance(i, from, to)
  PROVE  /\ ReaderOK' /\ OutOK' /\ peer' \in {"open", "closed", "vanished"} /\ params' \in Handshakes
         /\ UNCHANGED <<ntask, tmo, aborted, produced>>
         /\ tpc' \in [Tasks -> TaskPCs]
  BY ReaderStays, OutStays DEF TypeOK, TaskOK, Advance, Goto

\* Every step of run_stream, and of the response it pumps, keeps the types.
LEMMA TaskKeepsType ==
  ASSUME TypeOK, NEW i \in Tasks, Task(i) \/ BackendResponds(i)
  PROVE  TypeOK'
  <1>1. CASE Resolve(i)
    <2>1. CASE Advance(i, "resolve", "call") /\ rx' = [rx EXCEPT ![i] = "backend"]
               /\ UNCHANGED <<reqq, fed, got, eos, verdict>>
      BY <2>1, AdvanceKeeps DEF TypeOK, TaskOK, BodyOK, TaskPCs
    <2>2. CASE Advance(i, "resolve", "gap") /\ UNCHANGED <<bodyVars, verdict>>
      BY <2>2, AdvanceKeeps, BodyStays DEF TypeOK, TaskOK, TaskPCs
    <2> QED
      BY <1>1, <2>1, <2>2 DEF Resolve
  <1>2. CASE EncodeFails(i)
    BY <1>2, AdvanceKeeps, BodyStays DEF EncodeFails, TypeOK, TaskOK, TaskPCs
  <1>3. CASE TimeoutExpires(i)
    BY <1>3, AdvanceKeeps, BodyStays DEF TimeoutExpires, TypeOK, TaskOK, TaskPCs
  <1>4. CASE TaskSends(i)
    <2>1. AfterSend(i) \in TaskPCs
      BY DEF AfterSend, TaskPCs
    <2>2. TaskOK'
      BY <1>4, <2>1, GotoKeeps DEF TaskSends, TypeOK
    <2>3. OutOK'
      BY <1>4, TaskFrameIsFrame, EnqueueKeepsOut DEF TaskSends, TypeOK
    <2>4. BodyOK'
      BY <1>4, DropReceiverKeeps, BodyStays DEF TaskSends, TypeOK, bodyVars
    <2> QED
      BY <1>4, <2>2, <2>3, <2>4, ReaderStays DEF TaskSends, TypeOK
  <1>5. CASE Cancelled(i)
    <2>1. TaskOK'
      BY <1>5, GotoKeeps DEF Cancelled, TypeOK, TaskPCs
    <2>2. BodyOK'
      BY <1>5, DropReceiverKeeps DEF Cancelled, TypeOK
    <2> QED
      BY <1>5, <2>1, <2>2, ReaderStays, OutStays DEF Cancelled, TypeOK
  <1>6. CASE BackendAnswers(i) \/ BackendRefuses(i)
    BY <1>6, AdvanceKeeps, BodyStays DEF BackendAnswers, BackendRefuses, TypeOK, TaskOK, TaskPCs
  <1>7. CASE BackendYields(i)
    <2>1. TaskOK'
      BY <1>7, BoundAssumption DEF BackendYields, Goto, TypeOK, TaskOK, TaskPCs
    <2> QED
      BY <1>7, <2>1, ReaderStays, BodyStays, OutStays DEF BackendYields, TypeOK
  <1>8. ASSUME NEW v \in Verdicts, BackendEnds(i, v) PROVE TypeOK'
    BY <1>8, AdvanceKeeps, BodyStays DEF BackendEnds, TypeOK, TaskOK, TaskPCs
  <1> QED
    BY <1>1, <1>2, <1>3, <1>4, <1>5, <1>6, <1>7, <1>8 DEF Task, BackendResponds

\* The backend's end of the request stream keeps the types.
LEMMA BackendReadsKeepsType ==
  ASSUME TypeOK, NEW i \in Tasks, BackendReads(i)
  PROVE  TypeOK'
  <1>1. ReaderOK' /\ TaskOK' /\ OutOK'
    BY ReaderStays, TaskStays, OutStays
    DEF TypeOK, BackendReads, BackendPulls, BackendSeesEnd, BackendDrops, taskVars
  <1>2. CASE BackendPulls(i)
    <2>1. reqq[i] \in Seq(Payloads) /\ reqq[i] # <<>> /\ Len(reqq[i]) <= ReqCap
      BY <1>2 DEF BackendPulls, TypeOK, BodyOK
    <2>2. Tail(reqq[i]) \in Seq(Payloads) /\ Len(Tail(reqq[i])) <= ReqCap /\ Head(reqq[i]) \in Payloads
      BY <2>1, CapAssumption
    <2>3. ReqqOK'
      BY <1>2, <2>2, ReqqUpdate DEF BackendPulls, TypeOK, BodyOK, ReqqOK
    <2>4. Transcoded(Head(reqq[i])) \in Payloads
      BY <2>2 DEF Transcoded, Payloads
    <2>5. got' \in [Tasks -> Seq(Payloads)]
      BY <1>2, <2>4 DEF BackendPulls, TypeOK, BodyOK
    <2> QED
      BY <1>1, <1>2, <2>3, <2>5 DEF BackendPulls, TypeOK, BodyOK, ReqqOK
  <1>3. CASE BackendSeesEnd(i)
    BY <1>1, <1>3 DEF BackendSeesEnd, TypeOK, BodyOK
  <1>4. CASE BackendDrops(i)
    <2>1. <<>> \in Seq(Payloads) /\ Len(<<>>) <= ReqCap
      BY CapAssumption
    <2>2. ReqqOK'
      BY <1>4, <2>1, ReqqUpdate DEF BackendDrops, TypeOK, BodyOK, ReqqOK
    <2> QED
      BY <1>1, <1>4, <2>2 DEF BackendDrops, TypeOK, BodyOK, ReqqOK
  <1> QED
    BY <1>2, <1>3, <1>4 DEF BackendReads

\* The writer's steps keep the types.
LEMMA WriterKeepsType ==
  ASSUME TypeOK, Writer
  PROVE  TypeOK'
  <1>1. CASE WriterSends
    <2>1. outq \in Seq(OutFrames) /\ outq # <<>> /\ Len(outq) <= OutCap /\ wire \in Seq(OutFrames)
      BY <1>1 DEF WriterSends, TypeOK, OutOK
    <2>2. Tail(outq) \in Seq(OutFrames) /\ Len(Tail(outq)) <= OutCap /\ Append(wire, Head(outq)) \in Seq(OutFrames)
      BY <2>1, CapAssumption
    <2> QED
      BY <1>1, <2>2, ReaderStays, TaskStays, BodyStays DEF WriterSends, TypeOK, OutOK, taskVars
  <1>2. CASE WriterStops
    BY <1>2, ReaderStays, TaskStays, BodyStays, CapAssumption DEF WriterStops, TypeOK, OutOK, taskVars
  <1> QED
    BY <1>1, <1>2 DEF Writer, WriterFails, WriterEnds

\* A connection starts well typed.
LEMMA TypeInit == Init => TypeOK
  <1> SUFFICES ASSUME Init PROVE TypeOK
    OBVIOUS
  <1>1. params.codec \in {"none"} \cup Types
    BY ConfigAssumption DEF Init, Handshake, Types
  <1>2. reader \in {"rejecting", "reading"}
    BY DEF Init
  <1>3. ReaderOK
    <2>1. reader \in {"rejecting", "reading", "pushing", "joining", "done"} \cup DOMAIN ReplyCode
      BY <1>2
    <2>2. hold \in Payloads /\ codec \in {"none"} \cup Types
      BY <1>1 DEF Init, Payloads
    <2>3. opened = FALSE /\ feeding = FALSE /\ stream = 0 /\ ntask = 0 /\ seen = 0
      BY DEF Init
    <2>4. stream \in 0 .. ntask /\ seen \in 0 .. MaxFrames
      BY <2>3, BoundAssumption
    <2> QED
      BY <2>1, <2>2, <2>3, <2>4 DEF ReaderOK
  <1>4. TaskOK
    BY BoundAssumption DEF Init, TaskOK, TaskPCs
  <1>5. BodyOK
    BY CapAssumption DEF Init, BodyOK
  <1>6. OutOK
    BY CapAssumption DEF Init, OutOK
  <1> QED
    BY <1>3, <1>4, <1>5, <1>6 DEF Init, TypeOK

\* Every step keeps the types.
LEMMA TypeStep == TypeOK /\ [Next]_vars => TypeOK'
  <1> SUFFICES ASSUME TypeOK, [Next]_vars PROVE TypeOK'
    OBVIOUS
  <1>1. CASE UNCHANGED vars
    BY <1>1, ReaderStays, TaskStays, BodyStays, OutStays
    DEF vars, TypeOK, readerVars, taskVars
  <1>2. CASE PeerLeaves
    BY <1>2, ReaderStays, TaskStays, BodyStays, OutStays DEF PeerLeaves, TypeOK, taskVars
  <1>3. CASE ServerStep
    BY <1>3, ReaderKeepsType, TaskKeepsType, BackendReadsKeepsType, WriterKeepsType DEF ServerStep
  <1>4. ASSUME NEW f \in PeerFrames, ReadFrame(f) PROVE TypeOK'
    BY <1>4, ReadFrameKeepsType
  <1> QED
    BY <1>1, <1>2, <1>3, <1>4 DEF Next, Terminated

\* Every reachable state is well typed and both queues keep to their capacity,
\* for every capacity, handshake, payload set and bound.
THEOREM TypeCorrect == Spec => []TypeOK
  BY TypeInit, TypeStep, PTL DEF Spec

-----------------------------------------------------------------------------
(* The slot. Beyond NoOrphanStream itself it takes three facts: the tasks   *)
(* that have started are those spawned, only they are aborted, and a        *)
(* rejected handshake spawns none.                                          *)

SlotInv ==
  /\ NoOrphanStream
  /\ \A i \in Tasks : i > ntask <=> tpc[i] = "none"
  /\ \A i \in Tasks : aborted[i] => i <= ntask
  /\ reader = "rejecting" => ntask = 0

\* A step that opens nothing, leaves the loop where it is, aborts nothing and
\* starts or revives no task.
Quiet ==
  /\ UNCHANGED <<stream, ntask, reader, aborted>>
  /\ \A i \in Tasks : /\ tpc[i] = "none" <=> tpc'[i] = "none"
                      /\ tpc[i] = "done" => tpc'[i] = "done"

\* A quiet step (see Quiet) cannot disturb the slot.
LEMMA QuietKeepsSlot == SlotInv /\ Quiet => SlotInv'
  BY DEF SlotInv, Quiet, NoOrphanStream, Live

\* The slot is emptied, its task aborted; the loop may be left.
LEMMA TakeKeepsSlot ==
  ASSUME TypeOK, SlotInv, TakeStream, UNCHANGED <<ntask, tpc>>, reader # "rejecting", reader' # "rejecting"
  PROVE  SlotInv'
  <1>1. ASSUME NEW j \in Tasks, Live(j), ~aborted'[j] PROVE FALSE
    <2>1. ~aborted[j]
      BY <1>1 DEF TakeStream, Abort, TypeOK, TaskOK
    <2>2. stream = j /\ stream # 0
      BY <1>1, <2>1, BoundAssumption DEF SlotInv, NoOrphanStream, Tasks
    <2>3. aborted'[j]
      BY <2>2 DEF TakeStream, Abort, TypeOK, TaskOK
    <2> QED
      BY <1>1, <2>3
  <1>2. ASSUME NEW j \in Tasks, aborted'[j] PROVE j <= ntask
    BY <1>1, <1>2 DEF TakeStream, Abort, SlotInv, TypeOK, TaskOK, ReaderOK
  <1> QED
    BY <1>1, <1>2 DEF SlotInv, NoOrphanStream, Live

\* A new connection has no task.
LEMMA SlotInit == Init => SlotInv
  <1> SUFFICES ASSUME Init PROVE SlotInv
    OBVIOUS
  <1>1. ntask = 0 /\ \A i \in Tasks : tpc[i] = "none" /\ ~aborted[i] /\ i > 0
    BY BoundAssumption DEF Init, Tasks
  <1> QED
    BY <1>1 DEF SlotInv, NoOrphanStream, Live

\* A task moving on between two live places is quiet.
LEMMA AdvanceIsQuiet ==
  ASSUME TypeOK, NEW i \in Tasks, NEW from, NEW to, Advance(i, from, to), from \notin {"none", "done"}, to # "none"
  PROVE  Quiet
  BY DEF Quiet, Advance, Goto, readerVars, TypeOK, TaskOK

\* Every step keeps SlotInv.
LEMMA SlotStep == TypeOK /\ SlotInv /\ [Next]_vars => SlotInv'
  <1> SUFFICES ASSUME TypeOK, SlotInv, [Next]_vars PROVE SlotInv'
    OBVIOUS
  <1>1. CASE UNCHANGED vars \/ PeerLeaves \/ Writer
    BY <1>1, QuietKeepsSlot
    DEF vars, readerVars, taskVars, PeerLeaves, Writer, WriterSends, WriterFails, WriterEnds, WriterStops, Quiet
  <1>2. CASE \E i \in Tasks : BackendReads(i)
    BY <1>2, QuietKeepsSlot
    DEF BackendReads, BackendPulls, BackendSeesEnd, BackendDrops, readerVars, taskVars, Quiet
  <1>3. ASSUME NEW i \in Tasks, Task(i) \/ BackendResponds(i) PROVE SlotInv'
    <2>1. CASE Resolve(i) \/ EncodeFails(i) \/ TimeoutExpires(i)
      BY <2>1, AdvanceIsQuiet, QuietKeepsSlot DEF Resolve, EncodeFails, TimeoutExpires, Pumping
    <2>2. CASE BackendAnswers(i) \/ BackendRefuses(i) \/ \E v \in Verdicts : BackendEnds(i, v)
      BY <2>2, AdvanceIsQuiet, QuietKeepsSlot DEF BackendAnswers, BackendRefuses, BackendEnds
    <2>3. CASE BackendYields(i) \/ TaskSends(i)
      BY <2>3, QuietKeepsSlot
      DEF BackendYields, TaskSends, AfterSend, Terminating, Goto, readerVars, Quiet, TypeOK, TaskOK
    <2>4. CASE Cancelled(i)
      <3>1. tpc[i] # "none"
        BY <2>4, BoundAssumption DEF Cancelled, SlotInv, Tasks, TypeOK, TaskOK
      <3> QED
        BY <2>4, <3>1, QuietKeepsSlot DEF Cancelled, Goto, readerVars, Quiet, TypeOK, TaskOK
    <2> QED
      BY <1>3, <2>1, <2>2, <2>3, <2>4 DEF Task, BackendResponds
  <1>4. CASE Reader \/ KeepaliveExpires
    <2>1. CASE PushDone
      BY <2>1 DEF PushDone, taskVars, SlotInv, NoOrphanStream, Live
    <2>2. CASE ReplyDone
      <3>1. CASE TakeStream
        BY <2>2, <3>1, TakeKeepsSlot DEF ReplyDone, ReplyCode
      <3>2. CASE UNCHANGED <<stream, feeding, aborted>>
        BY <2>2, <3>2 DEF ReplyDone, ReplyCode, SlotInv, NoOrphanStream, Live
      <3> QED
        BY <2>2, <3>1, <3>2 DEF ReplyDone
    <2>3. CASE LeaveLoop
      BY <2>3, TakeKeepsSlot DEF LeaveLoop
    <2>4. CASE Join \/ RejectHandshake
      BY <2>4, BoundAssumption
      DEF Join, RejectHandshake, taskVars, SlotInv, NoOrphanStream, Live, Tasks
    <2> QED
      BY <1>4, <2>1, <2>2, <2>3, <2>4 DEF Reader, EndOfInput, KeepaliveExpires
  <1>5. ASSUME NEW f \in PeerFrames, ReadFrame(f) PROVE SlotInv'
    <2>1. CASE Subscribe(f)
      BY <2>1, BoundAssumption
      DEF Subscribe, Take, SlotInv, NoOrphanStream, Live, Tasks, TypeOK, TaskOK
    <2>2. CASE Reset(f)
      BY <2>2, TakeKeepsSlot DEF Reset, Take
    <2>3. CASE ~Subscribe(f) /\ ~Reset(f)
      BY <1>5, <2>3
      DEF ReadFrame, ReadIgnored, SubscribeAgain, SubscribeOversize, MessageOversize, Message,
          MessageIgnored, HalfClose, Take, taskVars, SlotInv, NoOrphanStream, Live
    <2> QED
      BY <2>1, <2>2, <2>3
  <1> QED
    BY <1>1, <1>2, <1>3, <1>4, <1>5 DEF Next, ServerStep, Terminated

\* No stream is ever orphaned: on every path out of the slot (Reset, oversize
\* message, end of the loop) the task is aborted, whatever it was doing.
THEOREM NoOrphans == Spec => []NoOrphanStream
  <1>1. SlotInv => NoOrphanStream
    BY DEF SlotInv
  <1> QED
    BY <1>1, TypeInit, TypeStep, SlotInit, SlotStep, PTL DEF Spec

-----------------------------------------------------------------------------
(* The codec and the open. A connection with no codec has opened nothing,   *)
(* and one that has opened nothing has no task.                             *)

OpenInv ==
  /\ codec = "none" => ~opened
  /\ ~opened => ntask = 0
  /\ codec = "text" => ntask <= 1

\* Whatever is not a frame taken by the reader leaves codec and open alone.
LEMMA OnlyFramesOpen ==
  ASSUME [Next]_vars, \A f \in PeerFrames : ~ReadFrame(f)
  PROVE  UNCHANGED <<codec, opened, ntask>>
  <1>1. CASE UNCHANGED vars
    BY <1>1 DEF vars, readerVars, taskVars
  <1>2. CASE PeerLeaves \/ Writer
    BY <1>2 DEF PeerLeaves, Writer, WriterSends, WriterFails, WriterEnds, WriterStops, readerVars, taskVars
  <1>3. CASE \E i \in Tasks : Task(i) \/ BackendResponds(i) \/ BackendReads(i)
    BY <1>3
    DEF Task, Resolve, EncodeFails, TimeoutExpires, TaskSends, Cancelled,
        BackendResponds, BackendAnswers, BackendRefuses, BackendYields, BackendEnds, Advance,
        BackendReads, BackendPulls, BackendSeesEnd, BackendDrops, readerVars, taskVars
  <1>4. CASE Reader \/ KeepaliveExpires
    BY <1>4
    DEF Reader, PushDone, ReplyDone, EndOfInput, LeaveLoop, Join, RejectHandshake, KeepaliveExpires, taskVars
  <1> QED
    BY <1>1, <1>2, <1>3, <1>4 DEF Next, ServerStep, Terminated

\* No step changes a locked codec.
LEMMA CodecStep == [Next]_vars => (codec # "none" => codec' = codec)
  <1> SUFFICES ASSUME [Next]_vars, codec # "none" PROVE codec' = codec
    OBVIOUS
  <1>1. ASSUME NEW f \in PeerFrames, ReadFrame(f) PROVE codec' = codec
    BY <1>1
    DEF ReadFrame, ReadIgnored, SubscribeAgain, SubscribeOversize, Subscribe, MessageOversize,
        Message, MessageIgnored, HalfClose, Reset, Take, Locked
  <1> QED
    BY <1>1, OnlyFramesOpen

\* A new connection has opened nothing.
LEMMA OpenInit == Init => OpenInv
  BY DEF Init, OpenInv

\* What a frame that decodes to a Subscribe finds and leaves.
LEMMA TakeOpens ==
  ASSUME TypeOK, OpenInv, NEW f \in PeerFrames, NEW kind, Take(f, kind)
  PROVE  /\ codec' # "none" \/ (codec' = codec /\ kind # "Subscribe")
         /\ opened' <=> (opened \/ kind = "Subscribe")
         /\ codec' = "text" /\ codec = "none" => ntask = 0
         /\ codec' = "text" /\ kind = "Subscribe" => ntask = 0
  <1>1. f \in Frames
    BY FramesAssumption
  <1>2. f.ty \in Types /\ (f.ty = "text" => f.kind # "Subscribe")
    BY <1>1 DEF Frames, Types
  <1>3. CASE f.kind = "Control"
    <2>1. kind = "None" /\ codec' = codec /\ opened' = (opened \/ kind = "Subscribe")
      BY <1>3 DEF Take, Decode
    <2> QED
      BY <2>1
  <1>4. CASE f.kind # "Control"
    <2>1. codec' = Locked(f) /\ Locked(f) # "none"
      BY <1>2, <1>4 DEF Take, Locked, Types
    <2>2. ASSUME codec' = "text", kind = "Subscribe" PROVE ~opened
      <3>1. f.ty = "text" /\ DecodeText(f) = "Subscribe"
        BY <1>2, <2>1, <2>2 DEF Take, Decode, DecodeText, Types
      <3> QED
        BY <1>2, <3>1 DEF DecodeText
    <2> QED
      BY <2>1, <2>2 DEF Take, OpenInv
  <1> QED
    BY <1>3, <1>4

\* Every step keeps OpenInv.
LEMMA OpenStep == TypeOK /\ OpenInv /\ [Next]_vars => OpenInv'
  <1> SUFFICES ASSUME TypeOK, OpenInv, [Next]_vars PROVE OpenInv'
    OBVIOUS
  <1>1. ASSUME NEW f \in PeerFrames, ReadFrame(f) PROVE OpenInv'
    <2>1. CASE Subscribe(f)
      <3>1. Take(f, "Subscribe") /\ ntask' = ntask + 1
        BY <2>1 DEF Subscribe
      <3>2. opened' /\ codec' # "none" /\ (codec' = "text" => ntask = 0)
        BY <3>1, TakeOpens DEF Take, Decode, OpenInv
      <3> QED
        BY <3>1, <3>2 DEF OpenInv
    <2>2. CASE ~Subscribe(f)
      <3>1. PICK kind : Take(f, kind)
        BY <1>1
        DEF ReadFrame, ReadIgnored, SubscribeAgain, SubscribeOversize, Subscribe, MessageOversize,
            Message, MessageIgnored, HalfClose, Reset
      <3>2. ntask' = ntask
        BY <1>1, <2>2
        DEF ReadFrame, ReadIgnored, SubscribeAgain, SubscribeOversize, MessageOversize,
            Message, MessageIgnored, HalfClose, Reset, taskVars
      <3>3. codec # "none" => codec' = codec
        BY CodecStep
      <3>4. codec' = "none" => ~opened'
        BY <3>1, <3>3, TakeOpens DEF OpenInv
      <3>5. ~opened' => ntask' = 0
        BY <3>1, <3>2, TakeOpens DEF OpenInv
      <3>6. codec' = "text" => ntask' <= 1
        BY <3>1, <3>2, <3>3, TakeOpens DEF OpenInv
      <3> QED
        BY <3>4, <3>5, <3>6 DEF OpenInv
    <2> QED
      BY <2>1, <2>2
  <1> QED
    BY <1>1, OnlyFramesOpen DEF OpenInv

\* A JSON connection opens one stream in its life, whatever its peer sends.
THEOREM JsonOpensOnlyOnce == Spec => []JsonOpensOnce
  <1>1. OpenInv => JsonOpensOnce
    BY DEF OpenInv, JsonOpensOnce
  <1> QED
    BY <1>1, TypeInit, TypeStep, OpenInit, OpenStep, PTL DEF Spec


Waiting(i) == IF reader = "pushing" /\ stream = i THEN 1 ELSE 0

StreamInv(i) ==
  /\ i > ntask => ~eos[i] /\ got[i] = <<>> /\ rx[i] = "gone"
  /\ tpc[i] = "resolve" => rx[i] = "task"
  /\ rx[i] # "gone" => Len(fed[i]) = Len(got[i]) + Len(reqq[i]) + Waiting(i)
  /\ eos[i] => ~(stream = i /\ feeding) /\ reqq[i] = <<>> /\ Len(got[i]) = Len(fed[i])

RequestsInv == (reader = "pushing" => feeding) /\ \A i \in Tasks : StreamInv(i)

\* A new connection has accepted nothing.
LEMMA RequestsInit == Init => RequestsInv
  BY BoundAssumption DEF Init, RequestsInv, StreamInv, Tasks

\* The lengths the counts are made of are natural numbers.
LEMMA Lengths ==
  ASSUME TypeOK, NEW i \in Tasks
  PROVE  /\ Len(fed[i]) \in Nat /\ Len(got[i]) \in Nat /\ Len(reqq[i]) \in Nat
         /\ fed[i] \in Seq(Payloads) /\ got[i] \in Seq(Payloads) /\ reqq[i] \in Seq(Payloads)
  BY DEF TypeOK, BodyOK

\* Steps that touch neither the reader nor a request stream.
LEMMA BodyQuiet ==
  ASSUME RequestsInv, UNCHANGED <<reader, stream, feeding, ntask, bodyVars>>,
         \A i \in Tasks : tpc'[i] = "resolve" => tpc[i] = "resolve"
  PROVE  RequestsInv'
  BY DEF RequestsInv, StreamInv, Waiting, bodyVars

\* Steps of a reader that pushes nothing: the slot can only be given up.
LEMMA ReaderQuiet ==
  ASSUME RequestsInv, UNCHANGED <<ntask, tpc, bodyVars>>, reader # "pushing", reader' # "pushing",
         feeding' => feeding /\ stream' = stream
  PROVE  RequestsInv'
  BY DEF RequestsInv, StreamInv, Waiting, bodyVars

\* A receiver is dropped, by the task that holds it or by the backend.
LEMMA ReceiverDropped ==
  ASSUME TypeOK, RequestsInv, NEW i \in Tasks,
         rx' = [rx EXCEPT ![i] = "gone"], reqq' = [reqq EXCEPT ![i] = <<>>],
         UNCHANGED <<reader, stream, feeding, ntask, fed, got, eos>>, tpc'[i] # "resolve",
         \A j \in Tasks : tpc'[j] = "resolve" => tpc[j] = "resolve"
  PROVE  RequestsInv'
  BY DEF RequestsInv, StreamInv, Waiting, TypeOK, BodyOK

\* A task that ends or is cancelled drops at most a receiver.
LEMMA DropKeepsRequests ==
  ASSUME TypeOK, RequestsInv, NEW i \in Tasks, DropReceiver(i), tpc'[i] # "resolve",
         UNCHANGED <<reader, stream, feeding, ntask, fed, got, eos>>,
         \A j \in Tasks : tpc'[j] = "resolve" => tpc[j] = "resolve"
  PROVE  RequestsInv'
  BY ReceiverDropped, BodyQuiet DEF DropReceiver, bodyVars

\* Every branch of handle_frame keeps the count.
LEMMA ReadFrameKeepsRequests ==
  ASSUME TypeOK, RequestsInv, NEW f \in PeerFrames, ReadFrame(f)
  PROVE  RequestsInv'
  <1>1. CASE Subscribe(f)
    <2> DEFINE i == ntask + 1
    <2>1. i \in Tasks /\ \A j \in Tasks : j > ntask' => j > ntask /\ j # i
      BY <1>1, BoundAssumption DEF Subscribe, TypeOK, TaskOK, Tasks
    <2>2. reader = "reading" /\ reader' = "reading" /\ stream = 0 /\ stream' = i
      BY <1>1 DEF Subscribe, Take
    <2>3. eos[i] = FALSE /\ got[i] = <<>>
      BY <2>1, BoundAssumption DEF RequestsInv, StreamInv, TypeOK, TaskOK, BodyOK
    <2>4. reqq'[i] = FirstPayloads(f) /\ fed'[i] = FirstPayloads(f) /\ (tpc'[i] = "resolve" => rx'[i] = "task")
      BY <1>1, <2>1 DEF Subscribe, TypeOK, TaskOK, BodyOK
    <2>5. ASSUME NEW j \in Tasks, j # i
          PROVE  reqq'[j] = reqq[j] /\ fed'[j] = fed[j] /\ tpc'[j] = tpc[j] /\ rx'[j] = rx[j]
      BY <1>1, <2>5 DEF Subscribe, TypeOK, TaskOK, BodyOK
    <2>6. UNCHANGED <<got, eos>>
      BY <1>1 DEF Subscribe
    <2>7. Len(FirstPayloads(f)) = Len(<<>>) + Len(FirstPayloads(f)) + 0
      BY FirstPayloadsFit
    <2> QED
      BY <2>1, <2>2, <2>3, <2>4, <2>5, <2>6, <2>7 DEF RequestsInv, StreamInv, Waiting
  <1>2. CASE Message(f)
    <2>1. stream \in Tasks /\ reader = "reading" /\ reader' = "pushing" /\ feeding /\ feeding'
      BY <1>2, BoundAssumption DEF Message, Take, TypeOK, ReaderOK, TaskOK, Tasks
    <2>2. UNCHANGED <<stream, ntask, tpc, reqq, rx, got, eos>>
      BY <1>2 DEF Message, taskVars
    <2>3. PICK s \in Tasks : s = stream
      BY <2>1
    <2>4. fed'[s] = Append(fed[s], f.p)
      BY <1>2, <2>3 DEF Message, TypeOK, BodyOK
    <2>5. Len(fed'[s]) = Len(fed[s]) + 1
      BY <1>2, <2>4, Lengths, TakeKeeps DEF Message
    <2>6. StreamInv(s)'
      <3>1. Waiting(s) = 0 /\ Waiting(s)' = 1
        BY <2>1, <2>2, <2>3 DEF Waiting
      <3>2. StreamInv(s) /\ ~eos[s] /\ stream' = s
        BY <2>1, <2>2, <2>3 DEF RequestsInv, StreamInv
      <3>3. rx[s] # "gone" => Len(fed[s]) = Len(got[s]) + Len(reqq[s]) + 0
        BY <3>1, <3>2 DEF StreamInv
      <3>4. rx[s] # "gone" => Len(fed'[s]) = Len(got[s]) + Len(reqq[s]) + 1
        <4> SUFFICES ASSUME rx[s] # "gone" PROVE Len(fed'[s]) = Len(got[s]) + Len(reqq[s]) + 1
          OBVIOUS
        <4>1. Len(fed[s]) \in Nat /\ Len(got[s]) \in Nat /\ Len(reqq[s]) \in Nat
          BY Lengths
        <4>2. Len(fed[s]) = Len(got[s]) + Len(reqq[s]) + 0
          BY <3>3
        <4>3. Len(fed'[s]) = Len(fed[s]) + 1
          BY <2>5
        <4> QED
          BY <4>1, <4>2, <4>3
      <3> QED
        BY <2>2, <3>1, <3>2, <3>4 DEF StreamInv
    <2>7. ASSUME NEW j \in Tasks, j # s PROVE StreamInv(j)'
      <3>1. fed'[j] = fed[j]
        BY <1>2, <2>3, <2>7 DEF Message, TypeOK, BodyOK
      <3> QED
        BY <2>1, <2>2, <2>3, <2>7, <3>1 DEF RequestsInv, StreamInv, Waiting
    <2> QED
      BY <2>1, <2>2, <2>6, <2>7 DEF RequestsInv
  <1>3. CASE Reset(f)
    BY <1>3, TakeStreamKeeps, ReaderQuiet DEF Reset, Take
  <1>4. CASE ~Subscribe(f) /\ ~Message(f) /\ ~Reset(f)
    BY <1>4, ReaderQuiet
    DEF ReadFrame, ReadIgnored, SubscribeAgain, SubscribeOversize, MessageOversize,
        MessageIgnored, HalfClose, Take, taskVars
  <1> QED
    BY <1>1, <1>2, <1>3, <1>4

\* The reader's other steps keep it: a pushed payload moves from hand to queue.
LEMMA ReaderKeepsRequests ==
  ASSUME TypeOK, RequestsInv, Reader \/ KeepaliveExpires
  PROVE  RequestsInv'
  <1>1. CASE PushDone
    <2>1. reader = "pushing" /\ reader' = "reading" /\ feeding /\ stream \in Tasks
      BY <1>1, BoundAssumption DEF PushDone, RequestsInv, TypeOK, ReaderOK, TaskOK, Tasks
    <2>2. UNCHANGED <<stream, feeding, ntask, tpc, rx, fed, got, eos>>
      BY <1>1 DEF PushDone, taskVars
    <2>3. PICK s \in Tasks : s = stream
      BY <2>1
    <2>4. ~eos[s]
      BY <2>1, <2>3 DEF RequestsInv, StreamInv
    <2>5. rx[s] # "gone" => Len(reqq'[s]) = Len(reqq[s]) + 1
      <3>1. SUFFICES ASSUME rx[s] # "gone" PROVE Len(reqq'[s]) = Len(reqq[s]) + 1
        OBVIOUS
      <3>2. reqq'[s] = Append(reqq[s], hold)
        BY <1>1, <2>3, <3>1 DEF PushDone, TypeOK, BodyOK
      <3> QED
        BY <3>2, Lengths DEF TypeOK, ReaderOK
    <2>6. StreamInv(s)'
      <3>1. Waiting(s) = 1 /\ Waiting(s)' = 0
        BY <2>1, <2>2, <2>3 DEF Waiting
      <3>2. StreamInv(s)
        BY DEF RequestsInv
      <3>3. rx[s] # "gone" => Len(fed[s]) = Len(got[s]) + Len(reqq[s]) + 1
        BY <3>1, <3>2 DEF StreamInv
      <3>4. rx[s] # "gone" => Len(fed[s]) = Len(got[s]) + Len(reqq'[s]) + 0
        <4> SUFFICES ASSUME rx[s] # "gone" PROVE Len(fed[s]) = Len(got[s]) + Len(reqq'[s]) + 0
          OBVIOUS
        <4>1. Len(fed[s]) \in Nat /\ Len(got[s]) \in Nat /\ Len(reqq[s]) \in Nat
          BY Lengths
        <4>2. Len(fed[s]) = Len(got[s]) + Len(reqq[s]) + 1
          BY <3>3
        <4>3. Len(reqq'[s]) = Len(reqq[s]) + 1
          BY <2>5
        <4>4. PICK a \in Nat, b \in Nat, c \in Nat :
                a = Len(fed[s]) /\ b = Len(got[s]) /\ c = Len(reqq[s])
          BY <4>1
        <4>5. a = b + c + 1 /\ Len(reqq'[s]) = c + 1
          BY <4>2, <4>3, <4>4
        <4>6. PICK d \in Nat : d = Len(reqq'[s]) /\ d = c + 1
          BY <4>5
        <4>7. a = b + d + 0
          <5>1. a = b + c + 1 /\ d = c + 1
            BY <4>5, <4>6
          <5> QED
            BY <5>1
        <4> QED
          BY <4>4, <4>6, <4>7
      <3> QED
        BY <2>2, <2>4, <3>1, <3>2, <3>4 DEF StreamInv
    <2>7. ASSUME NEW j \in Tasks, j # s PROVE StreamInv(j)'
      <3>1. reqq'[j] = reqq[j]
        BY <1>1, <2>3, <2>7 DEF PushDone, TypeOK, BodyOK
      <3> QED
        BY <2>1, <2>2, <2>3, <2>7, <3>1 DEF RequestsInv, StreamInv, Waiting
    <2> QED
      BY <2>1, <2>2, <2>6, <2>7 DEF RequestsInv
  <1>2. CASE ReplyDone
    BY <1>2, TakeStreamKeeps, ReaderQuiet DEF ReplyDone, ReplyCode
  <1>3. CASE LeaveLoop
    BY <1>3, TakeStreamKeeps, ReaderQuiet DEF LeaveLoop
  <1>4. CASE Join \/ RejectHandshake
    BY <1>4, ReaderQuiet DEF Join, RejectHandshake, taskVars
  <1> QED
    BY <1>1, <1>2, <1>3, <1>4 DEF Reader, EndOfInput, KeepaliveExpires

\* Every step of run_stream keeps the count.
LEMMA TaskKeepsRequests ==
  ASSUME TypeOK, RequestsInv, NEW i \in Tasks, Task(i) \/ BackendResponds(i)
  PROVE  RequestsInv'
  <1>1. CASE Advance(i, "resolve", "call") /\ rx' = [rx EXCEPT ![i] = "backend"]
             /\ UNCHANGED <<reqq, fed, got, eos, verdict>>
    <2>1. rx[i] = "task" /\ tpc'[i] = "call" /\ rx'[i] = "backend"
      BY <1>1 DEF Advance, Goto, RequestsInv, StreamInv, TypeOK, TaskOK, BodyOK
    <2>2. ASSUME NEW j \in Tasks, j # i PROVE tpc'[j] = tpc[j] /\ rx'[j] = rx[j]
      BY <1>1, <2>2 DEF Advance, Goto, TypeOK, TaskOK, BodyOK
    <2>3. UNCHANGED <<reader, stream, feeding, ntask, reqq, fed, got, eos>>
      BY <1>1 DEF Advance, readerVars
    <2> QED
      BY <2>1, <2>2, <2>3 DEF RequestsInv, StreamInv, Waiting
  <1>2. ASSUME NEW from, NEW to, to # "resolve", Advance(i, from, to), UNCHANGED bodyVars
        PROVE  RequestsInv'
    BY <1>2, BodyQuiet DEF Advance, Goto, readerVars, TypeOK, TaskOK
  <1>3. CASE BackendYields(i)
    BY <1>3, BodyQuiet DEF BackendYields, Goto, readerVars, TypeOK, TaskOK
  <1>4. CASE TaskSends(i)
    <2>1. tpc'[i] # "resolve" /\ \A j \in Tasks : tpc'[j] = "resolve" => tpc[j] = "resolve"
      BY <1>4 DEF TaskSends, Goto, AfterSend, TypeOK, TaskOK
    <2> QED
      BY <1>4, <2>1, DropKeepsRequests, BodyQuiet DEF TaskSends, readerVars, bodyVars
  <1>5. CASE Cancelled(i)
    <2>1. tpc'[i] # "resolve" /\ \A j \in Tasks : tpc'[j] = "resolve" => tpc[j] = "resolve"
      BY <1>5 DEF Cancelled, Goto, TypeOK, TaskOK
    <2> QED
      BY <1>5, <2>1, DropKeepsRequests DEF Cancelled, readerVars
  <1> QED
    BY <1>1, <1>2, <1>3, <1>4, <1>5
    DEF Task, Resolve, EncodeFails, TimeoutExpires, BackendResponds, BackendAnswers, BackendRefuses, BackendEnds

\* The backend pulls from the queue what it adds to what it has got.
LEMMA BackendReadsKeepsRequests ==
  ASSUME TypeOK, RequestsInv, NEW i \in Tasks, BackendReads(i)
  PROVE  RequestsInv'
  <1>1. CASE BackendPulls(i)
    <2>1. /\ Len(got'[i]) = Len(got[i]) + 1 /\ Len(reqq'[i]) = Len(reqq[i]) - 1
          /\ reqq[i] # <<>> /\ rx[i] = "backend"
      <3>1. reqq[i] # <<>> /\ rx[i] = "backend" /\ reqq'[i] = Tail(reqq[i])
            /\ got'[i] = Append(got[i], Transcoded(Head(reqq[i])))
        BY <1>1 DEF BackendPulls, TypeOK, BodyOK
      <3>2. Transcoded(Head(reqq[i])) \in Payloads
        BY <3>1, Lengths DEF Transcoded, Payloads
      <3> QED
        BY <3>1, <3>2, Lengths
    <2>2. ASSUME NEW j \in Tasks, j # i PROVE got'[j] = got[j] /\ reqq'[j] = reqq[j]
      BY <1>1, <2>2 DEF BackendPulls, TypeOK, BodyOK
    <2>3. UNCHANGED <<reader, stream, feeding, ntask, tpc, rx, fed, eos>>
      BY <1>1 DEF BackendPulls, readerVars, taskVars
    <2>4. StreamInv(i)'
      <3>1. Waiting(i)' = Waiting(i) /\ Waiting(i) \in Nat
        BY <2>3 DEF Waiting
      <3>2. StreamInv(i)
        BY DEF RequestsInv
      <3>3. Len(fed[i]) = Len(got[i]) + Len(reqq[i]) + Waiting(i) /\ ~eos[i] /\ ~(i > ntask)
        BY <2>1, <3>2 DEF StreamInv
      <3>4. Len(fed[i]) = Len(got'[i]) + Len(reqq'[i]) + Waiting(i)
        <4>1. Len(fed[i]) \in Nat /\ Len(got[i]) \in Nat /\ Len(reqq[i]) \in Nat
          BY Lengths
        <4>2. PICK w \in Nat : w = Waiting(i)
          BY <3>1
        <4>3. Len(fed[i]) = Len(got[i]) + Len(reqq[i]) + w
          BY <3>3, <4>2
        <4>4. Len(got'[i]) = Len(got[i]) + 1 /\ Len(reqq'[i]) = Len(reqq[i]) - 1
          BY <2>1
        <4>5. PICK a \in Nat, b \in Nat, c \in Nat :
                a = Len(fed[i]) /\ b = Len(got[i]) /\ c = Len(reqq[i])
          BY <4>1
        <4>6. a = b + c + w /\ Len(got'[i]) = b + 1 /\ Len(reqq'[i]) = c - 1
          BY <4>3, <4>4, <4>5
        <4>7. a = (b + 1) + (c - 1) + w
          <5>1. a = b + c + w
            BY <4>6
          <5> QED
            BY <5>1
        <4>8. Len(fed[i]) = Len(got'[i]) + Len(reqq'[i]) + w
          BY <4>5, <4>6, <4>7
        <4> QED
          BY <4>2, <4>8
      <3> QED
        BY <2>1, <2>3, <3>1, <3>2, <3>3, <3>4 DEF StreamInv
    <2>5. ASSUME NEW j \in Tasks, j # i PROVE StreamInv(j)'
      BY <2>2, <2>3, <2>5 DEF RequestsInv, StreamInv, Waiting
    <2> QED
      BY <2>3, <2>4, <2>5 DEF RequestsInv
  <1>2. CASE BackendSeesEnd(i)
    <2>1. reqq[i] = <<>> /\ Len(reqq[i]) = 0 /\ ~(stream = i /\ feeding) /\ rx[i] = "backend" /\ eos'[i]
      BY <1>2 DEF BackendSeesEnd, TypeOK, BodyOK
    <2>2. Waiting(i) = 0
      BY <2>1 DEF RequestsInv, Waiting
    <2>3. ASSUME NEW j \in Tasks, j # i PROVE eos'[j] = eos[j]
      BY <1>2, <2>3 DEF BackendSeesEnd, TypeOK, BodyOK
    <2>4. UNCHANGED <<reader, stream, feeding, ntask, tpc, rx, fed, got, reqq>>
      BY <1>2 DEF BackendSeesEnd, readerVars, taskVars
    <2>5. StreamInv(i)'
      <3>1. StreamInv(i) /\ Waiting(i)' = Waiting(i)
        BY <2>4 DEF RequestsInv, Waiting
      <3>2. ~(i > ntask)
        BY <2>1, <3>1 DEF StreamInv
      <3>3. Len(got[i]) = Len(fed[i])
        BY <2>1, <2>2, <3>1, Lengths DEF StreamInv
      <3> QED
        BY <2>1, <2>4, <3>1, <3>2, <3>3 DEF StreamInv
    <2>6. ASSUME NEW j \in Tasks, j # i PROVE StreamInv(j)'
      BY <2>3, <2>4, <2>6 DEF RequestsInv, StreamInv, Waiting
    <2> QED
      BY <2>4, <2>5, <2>6 DEF RequestsInv
  <1>3. CASE BackendDrops(i)
    <2>1. tpc[i] # "resolve"
      BY <1>3 DEF BackendDrops, RequestsInv, StreamInv
    <2> QED
      BY <1>3, <2>1, ReceiverDropped DEF BackendDrops, readerVars, taskVars
  <1> QED
    BY <1>1, <1>2, <1>3 DEF BackendReads

\* Every step keeps RequestsInv.
LEMMA RequestsStep == TypeOK /\ RequestsInv /\ [Next]_vars => RequestsInv'
  <1> SUFFICES ASSUME TypeOK, RequestsInv, [Next]_vars PROVE RequestsInv'
    OBVIOUS
  <1>1. CASE UNCHANGED vars \/ PeerLeaves \/ Writer
    BY <1>1, BodyQuiet
    DEF vars, PeerLeaves, Writer, WriterSends, WriterFails, WriterEnds, WriterStops, readerVars, taskVars
  <1> QED
    BY <1>1, ReadFrameKeepsRequests, ReaderKeepsRequests, TaskKeepsRequests, BackendReadsKeepsRequests
    DEF Next, ServerStep, Terminated

\* The end of requests the backend sees really is the end (HalfClose drops the
\* only sender, and the channel delivers what it holds before it closes).
THEOREM EndOfRequests == Spec => []EndOfRequestsIsLast
  <1>1. RequestsInv => EndOfRequestsIsLast
    BY DEF RequestsInv, StreamInv, EndOfRequestsIsLast
  <1> QED
    BY <1>1, TypeInit, TypeStep, RequestsInit, RequestsStep, PTL DEF Spec

-----------------------------------------------------------------------------
(* What the payloads are, beyond how many: each one the backend has pulled  *)
(* is the transcoding of the one accepted in its place, and each one still  *)
(* waiting is the one accepted in the place it will take. The codec decides *)
(* the transcoding, so nothing is accepted before there is one.             *)

PlacesInv(i) ==
  /\ Len(got[i]) <= Len(fed[i])
  /\ \A k \in 1 .. Len(got[i]) : got[i][k] = Transcoded(fed[i][k])
  /\ rx[i] # "gone" => \A k \in 1 .. Len(reqq[i]) : reqq[i][k] = fed[i][Len(got[i]) + k]
  /\ rx[i] # "gone" /\ reader = "pushing" /\ stream = i => hold = fed[i][Len(fed[i])]

OrderInv ==
  /\ codec = "none" => \A i \in Tasks : fed[i] = <<>>
  /\ \A i \in Tasks : PlacesInv(i)

\* A new connection has accepted nothing.
LEMMA OrderInit == Init => OrderInv
  BY DEF Init, OrderInv, PlacesInv

\* A codec that is only ever locked transcodes what was pulled as before.
LEMMA SameTranscoding ==
  ASSUME OrderInv, codec # "none" => codec' = codec, NEW i \in Tasks,
         NEW k \in 1 .. Len(got[i]), NEW p, p = fed[i][k]
  PROVE  got[i][k] = Transcoded(p)'
  <1>1. CASE codec = "none"
    <2>1. fed[i] = <<>> /\ Len(got[i]) <= Len(fed[i])
      BY <1>1 DEF OrderInv, PlacesInv
    <2> QED
      BY <2>1
  <1>2. CASE codec # "none"
    BY <1>2 DEF OrderInv, PlacesInv, Transcoded
  <1> QED
    BY <1>1, <1>2

\* A stream from which nothing is pulled and to which nothing is given keeps its
\* places, even if its queue is dropped.
LEMMA PlacesStay ==
  ASSUME OrderInv, codec # "none" => codec' = codec, NEW i \in Tasks,
         fed'[i] = fed[i], got'[i] = got[i], rx'[i] # "gone" => rx[i] # "gone" /\ reqq'[i] = reqq[i],
         reader' = "pushing" /\ stream' = i => reader = "pushing" /\ stream = i /\ hold' = hold
  PROVE  PlacesInv(i)'
  <1>1. \A k \in 1 .. Len(got[i]) : got[i][k] = Transcoded(fed[i][k])'
    BY SameTranscoding
  <1> QED
    BY <1>1 DEF OrderInv, PlacesInv

\* Nothing is accepted before there is a codec.
LEMMA FrameLocks ==
  ASSUME NEW f \in PeerFrames, Subscribe(f) \/ Message(f)
  PROVE  codec' # "none"
  <1>1. f.ty \in Types
    BY FramesAssumption DEF Frames, Types
  <1> QED
    BY <1>1 DEF Subscribe, Message, Take, Decode, Locked, Types

\* Every branch of handle_frame keeps the order.
LEMMA ReadFrameKeepsOrder ==
  ASSUME TypeOK, RequestsInv, OrderInv, NEW f \in PeerFrames, ReadFrame(f), codec # "none" => codec' = codec
  PROVE  OrderInv'
  <1>1. CASE Subscribe(f)
    <2>0. ntask + 1 \in Tasks
      BY <1>1, BoundAssumption DEF Subscribe, TypeOK, TaskOK, Tasks
    <2> PICK s \in Tasks : s = ntask + 1
      BY <2>0
    <2>1. got[s] = <<>> /\ got' = got /\ reader = "reading" /\ reader' = "reading"
      <3>1. s > ntask
        BY BoundAssumption DEF TypeOK, TaskOK
      <3> QED
        BY <1>1, <3>1 DEF Subscribe, Take, RequestsInv, StreamInv
    <2>2. reqq'[s] = FirstPayloads(f) /\ fed'[s] = FirstPayloads(f)
      BY <1>1 DEF Subscribe, TypeOK, TaskOK, BodyOK
    <2>3. \A k \in 1 .. Len(FirstPayloads(f)) : 0 + k = k
      BY FirstPayloadsFit
    <2>4. PlacesInv(s)'
      <3> DEFINE q == FirstPayloads(f)
      <3>1. Len(q) \in Nat /\ \A k \in 1 .. Len(q) : 0 + k = k
        BY <2>3, FirstPayloadsFit
      <3>2. reqq'[s] = q /\ fed'[s] = q /\ got'[s] = <<>>
        BY <2>1, <2>2
      <3> HIDE DEF q
      <3> QED
        BY <2>1, <3>1, <3>2 DEF PlacesInv
    <2>5. ASSUME NEW j \in Tasks, j # s PROVE PlacesInv(j)'
      <3>1. reqq'[j] = reqq[j] /\ fed'[j] = fed[j] /\ rx'[j] = rx[j]
        BY <1>1, <2>5 DEF Subscribe, TypeOK, TaskOK, BodyOK
      <3> QED
        BY <2>1, <3>1, PlacesStay
    <2> QED
      BY <1>1, <2>4, <2>5, FrameLocks DEF OrderInv
  <1>2. CASE Message(f)
    <2>1. stream \in Tasks /\ reader = "reading" /\ reader' = "pushing" /\ hold' = f.p
      BY <1>2, BoundAssumption DEF Message, Take, TypeOK, ReaderOK, TaskOK, Tasks
    <2>2. UNCHANGED <<stream, reqq, rx, got>>
      BY <1>2 DEF Message
    <2> PICK s \in Tasks : s = stream
      BY <2>1
    <2>3. fed'[s] = Append(fed[s], f.p) /\ \A j \in Tasks : j # s => fed'[j] = fed[j]
      BY <1>2 DEF Message, TypeOK, BodyOK
    <2>4. /\ Len(fed'[s]) = Len(fed[s]) + 1 /\ fed'[s][Len(fed'[s])] = f.p
          /\ \A k \in 1 .. Len(fed[s]) : fed'[s][k] = fed[s][k]
          /\ Len(fed[s]) \in Nat /\ Len(got[s]) \in Nat /\ Len(reqq[s]) \in Nat
      BY <2>3, Lengths
    <2>5. ASSUME NEW k \in 1 .. Len(got[s]) PROVE got[s][k] = Transcoded(fed[s][k])'
      <3>1. k \in 1 .. Len(fed[s])
        BY <2>4 DEF OrderInv, PlacesInv
      <3> QED
        BY <2>4, <3>1, SameTranscoding
    <2>6. PlacesInv(s)'
      <3>1. PlacesInv(s)
        BY DEF OrderInv
      <3>2. rx[s] # "gone" => Len(fed[s]) = Len(got[s]) + Len(reqq[s])
        <4>1. Waiting(s) = 0
          BY <2>1 DEF Waiting
        <4>2. rx[s] # "gone" => Len(fed[s]) = Len(got[s]) + Len(reqq[s]) + 0
          BY <4>1 DEF RequestsInv, StreamInv
        <4> DEFINE x == Len(fed[s])
                   y == Len(got[s])
                   z == Len(reqq[s])
        <4>3. x \in Nat /\ y \in Nat /\ z \in Nat
          BY <2>4
        <4>4. rx[s] # "gone" => x = y + z + 0
          BY <4>2
        <4> HIDE DEF x, y, z
        <4>5. rx[s] # "gone" => x = y + z
          BY <4>3, <4>4
        <4> QED
          BY <4>5 DEF x, y, z
      <3>3. Len(got'[s]) <= Len(fed'[s])
        BY <2>2, <2>4, <3>1 DEF PlacesInv
      <3>4. ASSUME rx'[s] # "gone", NEW k \in 1 .. Len(reqq'[s])
            PROVE  reqq'[s][k] = fed'[s][Len(got'[s]) + k]
        <4> DEFINE n == Len(got[s]) + k
        <4>1. rx[s] # "gone" /\ k \in 1 .. Len(reqq[s])
          BY <2>2, <3>4
        <4>2. n \in 1 .. Len(fed[s])
          <5>1. Len(fed[s]) = Len(got[s]) + Len(reqq[s])
            BY <3>2, <4>1
          <5> DEFINE x == Len(fed[s])
                     y == Len(got[s])
                     z == Len(reqq[s])
          <5>2. x \in Nat /\ y \in Nat /\ z \in Nat /\ x = y + z /\ k \in 1 .. z /\ n = y + k
            BY <2>4, <4>1, <5>1
          <5> HIDE DEF x, y, z, n
          <5>3. n \in 1 .. x
            BY <5>2
          <5> QED
            BY <5>3 DEF x
        <4>3. reqq[s][k] = fed[s][n]
          BY <3>1, <4>1 DEF PlacesInv
        <4>4. fed'[s][n] = fed[s][n]
          BY <2>4, <4>2
        <4> QED
          BY <2>2, <4>3, <4>4
      <3> QED
        BY <2>1, <2>2, <2>4, <2>5, <3>3, <3>4 DEF PlacesInv
    <2>7. ASSUME NEW j \in Tasks, j # s PROVE PlacesInv(j)'
      BY <2>1, <2>2, <2>3, <2>7, PlacesStay
    <2> QED
      BY <1>2, <2>6, <2>7, FrameLocks DEF OrderInv
  <1>3. CASE ~Subscribe(f) /\ ~Message(f)
    <2>1. UNCHANGED bodyVars /\ reader' # "pushing"
      BY <1>3
      DEF ReadFrame, ReadIgnored, SubscribeAgain, SubscribeOversize, MessageOversize,
          MessageIgnored, HalfClose, Reset, Take
    <2> QED
      BY <2>1, PlacesStay DEF OrderInv, bodyVars
  <1> QED
    BY <1>1, <1>2, <1>3

\* The reader's other steps keep it: the payload in its hand takes the next
\* place of the queue.
LEMMA ReaderKeepsOrder ==
  ASSUME TypeOK, RequestsInv, OrderInv, Reader \/ KeepaliveExpires, codec # "none" => codec' = codec
  PROVE  OrderInv'
  <1>1. CASE PushDone
    <2>1. reader = "pushing" /\ reader' = "reading" /\ stream \in Tasks
      BY <1>1, BoundAssumption DEF PushDone, RequestsInv, TypeOK, ReaderOK, TaskOK, Tasks
    <2>2. UNCHANGED <<rx, fed, got, codec>>
      BY <1>1 DEF PushDone
    <2> PICK s \in Tasks : s = stream
      BY <2>1
    <2>3. \A j \in Tasks : j # s => reqq'[j] = reqq[j]
      BY <1>1 DEF PushDone, TypeOK, BodyOK
    <2>4. ASSUME NEW j \in Tasks, j # s \/ rx[j] = "gone" PROVE PlacesInv(j)'
      BY <2>1, <2>2, <2>3, <2>4, PlacesStay
    <2>5. ASSUME rx[s] # "gone" PROVE PlacesInv(s)'
      <3> DEFINE x == Len(fed[s])
                 y == Len(got[s])
                 z == Len(reqq[s])
      <3>1. PlacesInv(s)
        BY DEF OrderInv
      <3>2. reqq'[s] = Append(reqq[s], hold) /\ hold = fed[s][x]
        BY <1>1, <2>1, <2>5, <3>1 DEF PushDone, TypeOK, BodyOK, PlacesInv
      <3>3. hold \in Payloads
        BY DEF TypeOK, ReaderOK
      <3>4. /\ Len(reqq'[s]) = z + 1 /\ reqq'[s][z + 1] = hold
            /\ \A k \in 1 .. z : reqq'[s][k] = reqq[s][k]
            /\ x \in Nat /\ y \in Nat /\ z \in Nat
        BY <3>2, <3>3, Lengths
      <3>5. x = y + z + 1
        <4>1. Waiting(s) = 1
          BY <2>1 DEF Waiting
        <4> QED
          BY <2>5, <4>1 DEF RequestsInv, StreamInv
      <3>6. \A k \in 1 .. z : reqq[s][k] = fed[s][y + k]
        BY <2>5, <3>1 DEF PlacesInv
      <3> HIDE DEF x, y, z
      <3>7. ASSUME NEW k \in 1 .. z + 1 PROVE reqq'[s][k] = fed[s][y + k]
        <4>1. CASE k = z + 1
          <5>1. y + k = x
            BY <3>4, <3>5, <4>1
          <5> QED
            BY <3>2, <3>4, <4>1, <5>1
        <4>2. CASE k # z + 1
          <5>1. k \in 1 .. z
            BY <3>4, <4>2
          <5> QED
            BY <3>4, <3>6, <5>1
        <4> QED
          BY <4>1, <4>2
      <3> QED
        BY <2>1, <2>2, <3>1, <3>4, <3>7 DEF PlacesInv, Transcoded, y
    <2> QED
      BY <2>2, <2>4, <2>5 DEF OrderInv
  <1>2. CASE ~PushDone
    <2>1. UNCHANGED <<bodyVars, codec>> /\ reader' # "pushing"
      BY <1>2 DEF Reader, KeepaliveExpires, EndOfInput, LeaveLoop, ReplyDone, Join, RejectHandshake
    <2> QED
      BY <2>1, PlacesStay DEF OrderInv, bodyVars
  <1> QED
    BY <1>1, <1>2

\* The backend pulls the payload accepted in the next place, transcoded.
LEMMA BackendReadsKeepsOrder ==
  ASSUME TypeOK, RequestsInv, OrderInv, NEW i \in Tasks, BackendReads(i)
  PROVE  OrderInv'
  <1>1. CASE BackendPulls(i)
    <2> DEFINE x == Len(fed[i])
               y == Len(got[i])
               z == Len(reqq[i])
               p == Head(reqq[i])
    <2>1. UNCHANGED <<reader, hold, codec, stream, rx, fed>> /\ rx[i] # "gone" /\ reqq[i] # <<>>
      BY <1>1 DEF BackendPulls, readerVars
    <2>2. got'[i] = Append(got[i], Transcoded(p)) /\ reqq'[i] = Tail(reqq[i])
      BY <1>1 DEF BackendPulls, TypeOK, BodyOK
    <2>3. \A j \in Tasks : j # i => got'[j] = got[j] /\ reqq'[j] = reqq[j]
      BY <1>1 DEF BackendPulls, TypeOK, BodyOK
    <2>4. ASSUME NEW j \in Tasks, j # i PROVE PlacesInv(j)'
      BY <2>1, <2>3, <2>4, PlacesStay
    <2>5. PlacesInv(i)'
      <3>1. PlacesInv(i)
        BY DEF OrderInv
      <3>2. p \in Payloads /\ Transcoded(p) \in Payloads
        <4>1. p \in Payloads
          BY <2>1, Lengths
        <4> QED
          BY <4>1 DEF Transcoded, Payloads
      <3>3. /\ Len(got'[i]) = y + 1 /\ got'[i][y + 1] = Transcoded(p)
            /\ \A k \in 1 .. y : got'[i][k] = got[i][k]
            /\ x \in Nat /\ y \in Nat /\ z \in Nat /\ z > 0
        <4>1. got[i] \in Seq(Payloads) /\ reqq[i] \in Seq(Payloads) /\ fed[i] \in Seq(Payloads)
          BY Lengths
        <4>2. x \in Nat /\ y \in Nat /\ z \in Nat /\ z > 0
          BY <2>1, <4>1
        <4> DEFINE c == Transcoded(p)
        <4>3. c \in Payloads
          BY <3>2
        <4> HIDE DEF c
        <4>4. got'[i] = Append(got[i], c)
          BY <2>2 DEF c
        <4>5. Len(got'[i]) = y + 1 /\ got'[i][y + 1] = c /\ \A k \in 1 .. y : got'[i][k] = got[i][k]
          BY <4>1, <4>3, <4>4
        <4> QED
          BY <4>2, <4>5 DEF c
      <3>4. /\ p = reqq[i][1] /\ Len(reqq'[i]) = z - 1
            /\ \A k \in 1 .. z - 1 : reqq'[i][k] = reqq[i][k + 1]
        <4>1. reqq[i] \in Seq(Payloads)
          BY Lengths
        <4> QED
          BY <2>1, <2>2, <4>1
      <3>5. \A k \in 1 .. z : reqq[i][k] = fed[i][y + k]
        BY <2>1, <3>1 DEF PlacesInv
      <3>6. x >= y + z
        <4>1. Waiting(i) \in Nat
          BY DEF Waiting
        <4>2. x = y + z + Waiting(i)
          BY <2>1 DEF RequestsInv, StreamInv
        <4> HIDE DEF x, y, z
        <4> QED
          BY <3>3, <4>1, <4>2
      <3>7. \A k \in 1 .. y : got[i][k] = Transcoded(fed[i][k])
        BY <3>1 DEF PlacesInv
      <3>8. rx[i] # "gone" /\ reader = "pushing" /\ stream = i => hold = fed[i][x]
        BY <3>1 DEF PlacesInv
      <3>9. fed[i] = fed'[i] /\ Len(fed'[i]) = x
        BY <2>1
      <3> HIDE DEF x, y, z, p
      <3>10. ASSUME NEW k \in 1 .. y + 1 PROVE got'[i][k] = Transcoded(fed[i][k])
        <4>1. CASE k = y + 1
          <5>1. 1 \in 1 .. z
            BY <3>3
          <5> QED
            BY <3>3, <3>4, <3>5, <4>1, <5>1
        <4>2. CASE k # y + 1
          <5>1. k \in 1 .. y
            BY <3>3, <4>2
          <5> QED
            BY <3>3, <3>7, <5>1
        <4> QED
          BY <4>1, <4>2
      <3>11. ASSUME NEW k \in 1 .. z - 1 PROVE reqq'[i][k] = fed[i][y + 1 + k]
        <4>1. y \in Nat /\ z \in Nat
          BY <3>3
        <4>2. k + 1 \in 1 .. z /\ y + (k + 1) = y + 1 + k
          BY <4>1
        <4> QED
          BY <3>4, <3>5, <4>2
      <3>12. y + 1 <= x
        BY <3>3, <3>6
      <3>13. Len(got'[i]) <= Len(fed'[i])
        BY <3>3, <3>9, <3>12
      <3>14. rx'[i] # "gone" /\ reader' = "pushing" /\ stream' = i => hold' = fed'[i][Len(fed'[i])]
        BY <2>1, <3>8, <3>9
      <3>15. \A k \in 1 .. Len(got'[i]) : got'[i][k] = Transcoded(fed[i][k])'
        BY <2>1, <3>3, <3>10 DEF Transcoded
      <3>16. \A k \in 1 .. Len(reqq'[i]) : reqq'[i][k] = fed'[i][Len(got'[i]) + k]
        BY <3>3, <3>4, <3>9, <3>11
      <3> QED
        BY <3>13, <3>14, <3>15, <3>16 DEF PlacesInv
    <2> QED
      BY <2>1, <2>4, <2>5 DEF OrderInv
  <1>2. CASE BackendSeesEnd(i) \/ BackendDrops(i)
    <2>1. UNCHANGED <<reader, hold, codec, stream, fed, got>>
      BY <1>2 DEF BackendSeesEnd, BackendDrops, readerVars
    <2>2. \A j \in Tasks : rx'[j] # "gone" => rx[j] # "gone" /\ reqq'[j] = reqq[j]
      BY <1>2 DEF BackendSeesEnd, BackendDrops, TypeOK, BodyOK
    <2> QED
      BY <2>1, <2>2, PlacesStay DEF OrderInv
  <1> QED
    BY <1>1, <1>2 DEF BackendReads

\* A task hands its receiver to the backend or drops it.
LEMMA TaskKeepsOrder ==
  ASSUME TypeOK, RequestsInv, OrderInv, NEW i \in Tasks, Task(i) \/ BackendResponds(i)
  PROVE  OrderInv'
  <1>1. UNCHANGED <<reader, hold, codec, stream, fed, got>>
    BY DEF Task, Resolve, EncodeFails, TimeoutExpires, TaskSends, Cancelled, BackendResponds,
           BackendAnswers, BackendRefuses, BackendYields, BackendEnds, Advance, readerVars, bodyVars
  <1>2. \A j \in Tasks : rx'[j] # "gone" => rx[j] # "gone" /\ reqq'[j] = reqq[j]
    <2>1. CASE UNCHANGED <<rx, reqq>>
      BY <2>1
    <2>2. CASE DropReceiver(i)
      BY <2>2 DEF DropReceiver, TypeOK, BodyOK
    <2>3. CASE tpc[i] = "resolve" /\ rx' = [rx EXCEPT ![i] = "backend"] /\ UNCHANGED reqq
      <3>1. rx[i] = "task"
        BY <2>3 DEF RequestsInv, StreamInv
      <3> QED
        BY <2>3, <3>1 DEF TypeOK, BodyOK
    <2> QED
      BY <2>1, <2>2, <2>3
      DEF Task, Resolve, EncodeFails, TimeoutExpires, TaskSends, Cancelled, BackendResponds,
          BackendAnswers, BackendRefuses, BackendYields, BackendEnds, Advance, bodyVars
  <1> QED
    BY <1>1, <1>2, PlacesStay DEF OrderInv

\* Every step keeps OrderInv.
LEMMA OrderStep == TypeOK /\ RequestsInv /\ OrderInv /\ [Next]_vars => OrderInv'
  <1> SUFFICES ASSUME TypeOK, RequestsInv, OrderInv, [Next]_vars PROVE OrderInv'
    OBVIOUS
  <1>1. codec # "none" => codec' = codec
    BY CodecStep
  <1>2. CASE UNCHANGED vars \/ PeerLeaves \/ Writer
    <2>1. UNCHANGED <<readerVars, bodyVars>>
      BY <1>2 DEF vars, PeerLeaves, Writer, WriterSends, WriterFails, WriterEnds, WriterStops
    <2> QED
      BY <2>1, PlacesStay DEF OrderInv, readerVars, bodyVars
  <1> QED
    BY <1>1, <1>2, ReadFrameKeepsOrder, ReaderKeepsOrder, TaskKeepsOrder, BackendReadsKeepsOrder
    DEF Next, ServerStep, Terminated

\* A sequence and one element more.
LEMMA OneMore ==
  ASSUME NEW S, NEW r \in Seq(S), NEW e \in S
  PROVE  /\ r \o <<e>> \in Seq(S) /\ Len(r \o <<e>>) = Len(r) + 1
         /\ (r \o <<e>>)[Len(r) + 1] = e /\ \A k \in 1 .. Len(r) : (r \o <<e>>)[k] = r[k]
  BY AppendIsConcat, AppendProperties

\* The first n elements of a sequence.
LEMMA FirstElements ==
  ASSUME NEW S, NEW s \in Seq(S), NEW n \in 0 .. Len(s)
  PROVE  /\ SubSeq(s, 1, n) \in Seq(S) /\ Len(SubSeq(s, 1, n)) = n
         /\ \A k \in 1 .. n : SubSeq(s, 1, n)[k] = s[k]
  OBVIOUS

\* What OrderInv says of one stream, as sequences.
LEMMA PlacesAreOrder ==
  ASSUME TypeOK, RequestsInv, OrderInv, NEW i \in Tasks
  PROVE  LET accepted == [k \in DOMAIN fed[i] |-> Transcoded(fed[i][k])]
             waiting == [k \in DOMAIN InFlight(i) |-> Transcoded(InFlight(i)[k])]
         IN IF rx[i] # "gone" THEN accepted = got[i] \o waiting ELSE IsPrefix(got[i], accepted)
  <1> DEFINE a == [k \in DOMAIN fed[i] |-> Transcoded(fed[i][k])]
             q == InFlight(i)
             w == [k \in DOMAIN q |-> Transcoded(q[k])]
             x == Len(fed[i])
             y == Len(got[i])
             z == Len(reqq[i])
  <1>1. PlacesInv(i) /\ StreamInv(i)
    BY DEF OrderInv, RequestsInv
  <1>2. \A p \in Payloads : Transcoded(p) \in Payloads
    BY DEF Transcoded, Payloads
  <1>3. /\ fed[i] \in Seq(Payloads) /\ got[i] \in Seq(Payloads) /\ reqq[i] \in Seq(Payloads)
        /\ x \in Nat /\ y \in Nat /\ z \in Nat /\ DOMAIN fed[i] = 1 .. x
    BY Lengths
  <1>4. a \in Seq(Payloads) /\ Len(a) = x /\ \A k \in 1 .. x : a[k] = Transcoded(fed[i][k])
    <2>1. \A k \in 1 .. x : fed[i][k] \in Payloads
      BY <1>3
    <2>2. a = [k \in 1 .. x |-> Transcoded(fed[i][k])]
      BY <1>3
    <2>3. \A k \in 1 .. x : Transcoded(fed[i][k]) \in Payloads
      BY <1>2, <2>1
    <2> HIDE DEF a, x
    <2>4. a \in [1 .. x -> Payloads]
      BY <2>2, <2>3
    <2> QED
      BY <1>3, <2>2, <2>4
  <1>5. y <= x /\ \A k \in 1 .. y : got[i][k] = a[k]
    <2>1. y <= x /\ \A k \in 1 .. y : got[i][k] = Transcoded(fed[i][k])
      BY <1>1 DEF PlacesInv
    <2>2. \A k \in 1 .. y : k \in 1 .. x
      BY <1>3, <2>1
    <2> HIDE DEF a, x, y
    <2> QED
      BY <1>4, <2>1, <2>2
  <1>6. CASE rx[i] = "gone"
    <2>1. SubSeq(got[i], 1, y) = SubSeq(a, 1, y)
      <3> DEFINE s == got[i]
      <3>1. y \in 0 .. x
        BY <1>3, <1>5
      <3>2. s \in Seq(Payloads) /\ Len(s) = y
        BY <1>3
      <3> HIDE DEF a, x, y, s
      <3>3. /\ SubSeq(s, 1, y) \in Seq(Payloads) /\ Len(SubSeq(s, 1, y)) = y
            /\ \A k \in 1 .. y : SubSeq(s, 1, y)[k] = s[k]
        BY <1>3, <3>2, FirstElements
      <3>4. /\ SubSeq(a, 1, y) \in Seq(Payloads) /\ Len(SubSeq(a, 1, y)) = y
            /\ \A k \in 1 .. y : SubSeq(a, 1, y)[k] = a[k]
        BY <1>3, <1>4, <1>5, FirstElements
      <3>5. \A k \in 1 .. y : SubSeq(s, 1, y)[k] = SubSeq(a, 1, y)[k]
        BY <1>5, <3>3, <3>4 DEF s
      <3>6. SubSeq(s, 1, y) = SubSeq(a, 1, y)
        BY <3>3, <3>4, <3>5, SeqEqual
      <3> QED
        BY <3>6 DEF s
    <2>2. IsPrefix(got[i], a)
      <3>1. Len(got[i]) <= Len(a)
        BY <1>4, <1>5
      <3> QED
        BY <2>1, <3>1 DEF IsPrefix
    <2> QED
      BY <1>6, <2>2
  <1>7. CASE rx[i] # "gone"
    <2>1. /\ q \in Seq(Payloads) /\ y + Len(q) = x
          /\ \A k \in 1 .. Len(q) : q[k] = fed[i][y + k]
      <3>1. \A k \in 1 .. z : reqq[i][k] = fed[i][y + k]
        BY <1>1, <1>7 DEF PlacesInv
      <3>2. x = y + z + Waiting(i)
        BY <1>1, <1>7 DEF StreamInv
      <3>3. CASE reader = "pushing" /\ stream = i
        <4>1. q = reqq[i] \o <<hold>> /\ hold \in Payloads /\ hold = fed[i][x] /\ Waiting(i) = 1
          BY <1>1, <1>7, <3>3 DEF InFlight, PlacesInv, Waiting, TypeOK, ReaderOK
        <4>2. /\ q \in Seq(Payloads) /\ Len(q) = z + 1 /\ q[z + 1] = hold
              /\ \A k \in 1 .. z : q[k] = reqq[i][k]
          <5> DEFINE r == reqq[i]
          <5>1. r \in Seq(Payloads) /\ <<hold>> \in Seq(Payloads) /\ q = r \o <<hold>> /\ Len(r) = z
            BY <1>3, <4>1
          <5> HIDE DEF q, r, z
          <5>2. /\ r \o <<hold>> \in Seq(Payloads) /\ Len(r \o <<hold>>) = z + 1
                /\ (r \o <<hold>>)[z + 1] = hold /\ \A k \in 1 .. z : (r \o <<hold>>)[k] = r[k]
            BY <4>1, <5>1, OneMore
          <5> QED
            BY <5>1, <5>2 DEF r
        <4> HIDE DEF q, x, y, z
        <4>3. y + Len(q) = x
          <5>1. x = y + z + 1
            BY <3>2, <4>1
          <5> QED
            BY <1>3, <4>2, <5>1
        <4>4. ASSUME NEW k \in 1 .. Len(q) PROVE q[k] = fed[i][y + k]
          <5>1. CASE k = z + 1
            <6>1. y + k = x
              BY <1>3, <4>2, <4>3, <5>1
            <6> QED
              BY <4>1, <4>2, <5>1, <6>1
          <5>2. CASE k # z + 1
            <6>1. k \in 1 .. z
              BY <1>3, <4>2, <5>2
            <6> QED
              BY <3>1, <4>2, <6>1
          <5> QED
            BY <5>1, <5>2
        <4> QED
          BY <4>2, <4>3, <4>4
      <3>4. CASE ~(reader = "pushing" /\ stream = i)
        <4>1. q = reqq[i] \o <<>> /\ Waiting(i) = 0
          BY <3>4 DEF InFlight, Waiting
        <4>2. q = reqq[i]
          <5>1. reqq[i] \o <<>> = reqq[i]
            BY <1>3
          <5> QED
            BY <4>1, <5>1
        <4>3. q \in Seq(Payloads) /\ Len(q) = z
          BY <1>3, <4>2
        <4>4. \A k \in 1 .. z : q[k] = fed[i][y + k]
          BY <3>1, <4>2
        <4> HIDE DEF q, x, y, z
        <4> QED
          BY SMTT(60), <1>3, <3>2, <4>1, <4>3, <4>4
      <3> QED
        BY <3>3, <3>4
    <2> HIDE DEF q
    <2>2. w \in Seq(Payloads) /\ Len(w) = Len(q) /\ \A k \in 1 .. Len(q) : w[k] = Transcoded(q[k])
      <3>1. DOMAIN q = 1 .. Len(q) /\ Len(q) \in Nat /\ \A k \in 1 .. Len(q) : q[k] \in Payloads
        BY <2>1
      <3>2. w = [k \in 1 .. Len(q) |-> Transcoded(q[k])] /\ \A k \in 1 .. Len(q) : Transcoded(q[k]) \in Payloads
        BY <1>2, <3>1
      <3> HIDE DEF w
      <3>3. w \in [1 .. Len(q) -> Payloads]
        BY <3>2
      <3> QED
        BY <3>1, <3>2, <3>3
    <2> DEFINE s == got[i]
               n == Len(q)
    <2>3. s \in Seq(Payloads) /\ Len(s) = y /\ n \in Nat
      BY <1>3, <2>1
    <2> HIDE DEF a, w, x, y, s, n
    <2>4. /\ s \o w \in Seq(Payloads) /\ Len(s \o w) = y + n
          /\ \A k \in 1 .. y + n : (s \o w)[k] = IF k <= y THEN s[k] ELSE w[k - y]
      <3>1. Len(s) = y /\ Len(w) = n
        BY <2>2, <2>3 DEF n
      <3>2. s \in Seq(Payloads) /\ w \in Seq(Payloads)
        BY <2>2, <2>3
      <3>3. /\ s \o w \in Seq(Payloads) /\ Len(s \o w) = Len(s) + Len(w)
            /\ \A k \in 1 .. Len(s) + Len(w) : (s \o w)[k] = IF k <= Len(s) THEN s[k] ELSE w[k - Len(s)]
        BY <3>2, ConcatProperties, Zenon
      <3> QED
        BY <3>1, <3>3
    <2>5. ASSUME NEW k \in 1 .. x PROVE (s \o w)[k] = a[k]
      <3>1. k \in 1 .. y + n
        BY <2>1 DEF n
      <3>2. CASE k <= y
        <4>1. k \in 1 .. y
          BY <1>3, <3>2
        <4> QED
          BY <1>5, <2>4, <3>1, <3>2, <4>1 DEF s
      <3>3. CASE ~(k <= y)
        <4>1. k - y \in 1 .. n /\ y + (k - y) = k
          BY <1>3, <2>3, <3>1, <3>3
        <4>2. w[k - y] = Transcoded(fed[i][k])
          BY <2>1, <2>2, <4>1 DEF n
        <4>3. (s \o w)[k] = w[k - y]
          BY <2>4, <3>1, <3>3
        <4> QED
          BY <1>4, <4>2, <4>3
      <3> QED
        BY <3>2, <3>3
    <2>6. Len(s \o w) = Len(a) /\ Len(a) = x
      BY <1>4, <2>1, <2>4 DEF n
    <2>7. s \o w = a
      BY <1>4, <2>4, <2>5, <2>6, SeqEqual
    <2> QED
      BY <1>7, <2>7 DEF a, q, w, s
  <1> QED
    BY <1>6, <1>7

\* The request messages a backend has pulled, and those on their way to it, are
\* those the peer was let send, in the order it sent them, each once.
THEOREM RequestsAreInOrder == Spec => []RequestsInOrder
  <1>1. TypeOK /\ RequestsInv /\ OrderInv => RequestsInOrder
    BY PlacesAreOrder DEF RequestsInOrder
  <1> QED
    BY <1>1, TypeInit, TypeStep, RequestsInit, RequestsStep, OrderInit, OrderStep, PTL DEF Spec


-----------------------------------------------------------------------------
(* Sequences of frames.                                                    *)

Answering == {"Header", "Message"}
NoneFrom(s, i) == \A k \in DOMAIN s : s[k].of # i

\* The last frame of task i in s is at k.
LastFrom(s, i, k) == k \in DOMAIN s /\ s[k].of = i /\ \A m \in DOMAIN s : m > k => s[m].of # i

\* Task i has sent its headers and n messages, and no status.
Answered(s, i, n) == \E k \in DOMAIN s : LastFrom(s, i, k) /\ s[k].kind \in Answering /\ s[k].n = n
HasStatus(s, i) == \E k \in DOMAIN s : s[k].of = i /\ s[k].kind \in Status
EndsInStatus(s, i) == \E k \in DOMAIN s : LastFrom(s, i, k) /\ s[k].kind \in Status

\* Messages 1 .. n of task i come before position k of s.
Before(s, i, n, k) == \A m \in 1 .. n : \E j \in 1 .. k - 1 : s[j] = Out("Message", i, m, "none")

\* Frame k of s is in its place, whoever sent it.
Ordered(s, k) ==
  /\ s[k].of = 0 => s[k].kind \in {"Reset", "Close"}
  /\ s[k].of # 0 => Placed(s, s[k].of, k)
  /\ s[k].kind \in Answering => Before(s, s[k].of, s[k].n, k + 1)

\* What an OK trailer at k says of the task that sent it.
Whole(s, k) ==
  s[k].kind = "Trailer" /\ s[k].code = "OK" =>
    /\ tpc[s[k].of] \in {"close", "done"} /\ verdict[s[k].of] \notin {"none", "ERROR"}
    /\ Before(s, s[k].of, produced[s[k].of], k)

ChannelInv == \A k \in DOMAIN Sent : Ordered(Sent, k) /\ Whole(Sent, k)

-----------------------------------------------------------------------------
(* What a task has sent, by where it is. Once the writer has stopped, sends *)
(* go nowhere and only the first line still holds.                          *)

Unsent == {"none", "resolve", "gap", "call", "header", "refused"}
SendingInv(i) ==
  /\ tpc[i] \in {"pump", "trailer"} => Answered(Sent, i, produced[i])
  /\ tpc[i] \in {"message", "unencodable"} => produced[i] > 0 /\ Answered(Sent, i, produced[i] - 1)
  /\ tpc[i] = "expired" => NoneFrom(Sent, i) \/ \E n \in Nat : Answered(Sent, i, n)
  /\ tpc[i] = "close" => EndsInStatus(Sent, i)
  /\ tpc[i] = "done" /\ ~aborted[i] => HasStatus(Sent, i)
TaskInv(i) ==
  /\ tpc[i] \in Unsent => produced[i] = 0 /\ NoneFrom(Sent, i)
  /\ tpc[i] = "trailer" => verdict[i] # "none"
  /\ writer = "running" => SendingInv(i)

Stopped == {"rejecting", "joining", "done"}

\* The writer stops under an open socket only when every task has ended, and a
\* rejected connection never had one.
WriterInv ==
  /\ reader = "rejecting" => writer = "done" /\ Sent = <<>>
  /\ writer = "done" /\ peer = "open" /\ ~CloseSent =>
       /\ reader \in Stopped
       /\ \A i \in Tasks : tpc[i] \in {"none", "done"}
       /\ \A i \in Tasks : tpc[i] = "done" /\ ~aborted[i] => HasStatus(Sent, i)

RepliesInv == ChannelInv /\ WriterInv /\ \A i \in Tasks : TaskInv(i)

-----------------------------------------------------------------------------
(* Facts about sequences of frames. One sequence begins another when it is  *)
(* shorter and agrees with it as far as it goes.                            *)

Begins(s, t) == Len(s) <= Len(t) /\ \A k \in 1 .. Len(s) : t[k] = s[k]

\* What comes before a position of s is the same in any t that s begins.
LEMMA BeforeAgrees ==
  ASSUME NEW s \in Seq(OutFrames), NEW t \in Seq(OutFrames), Begins(s, t),
         NEW k \in 1 .. Len(s) + 1, NEW i, NEW n
  PROVE  Before(s, i, n, k) <=> Before(t, i, n, k)
  <1>1. \A j \in 1 .. k - 1 : j \in 1 .. Len(s) /\ t[j] = s[j]
    BY DEF Begins
  <1> QED
    BY <1>1 DEF Before

\* A frame in its place stays there, whatever is sent after it or dropped.
LEMMA OrderAgrees ==
  ASSUME NEW s \in Seq(OutFrames), NEW t \in Seq(OutFrames), Begins(s, t),
         NEW k \in 1 .. Len(s)
  PROVE  Ordered(s, k) <=> Ordered(t, k)
  <1>1. s[k] = t[k] /\ \A j \in 1 .. k - 1 : j \in 1 .. Len(s) /\ t[j] = s[j]
    BY DEF Begins
  <1>2. ASSUME NEW i PROVE Placed(s, i, k) <=> Placed(t, i, k)
    <2>1. ASSUME NEW j \in 1 .. k - 1
          PROVE  LastBefore(s, i, j, k) <=> LastBefore(t, i, j, k)
      <3>1. \A m \in j + 1 .. k - 1 : m \in 1 .. k - 1
        OBVIOUS
      <3> QED
        BY <1>1, <3>1 DEF LastBefore
    <2> QED
      BY <1>1, <2>1 DEF Placed
  <1>3. ASSUME NEW i, NEW n PROVE Before(s, i, n, k + 1) <=> Before(t, i, n, k + 1)
    BY BeforeAgrees
  <1> QED
    BY <1>1, <1>2, <1>3 DEF Ordered

\* Appending leaves the beginning as it was.
LEMMA AppendIs ==
  ASSUME NEW s \in Seq(OutFrames), NEW f \in OutFrames
  PROVE  /\ Append(s, f) \in Seq(OutFrames) /\ Begins(s, Append(s, f))
         /\ Len(s) \in Nat /\ DOMAIN s = 1 .. Len(s)
         /\ Len(Append(s, f)) = Len(s) + 1 /\ Append(s, f)[Len(s) + 1] = f
         /\ DOMAIN Append(s, f) = 1 .. Len(s) + 1
         /\ \A k \in 1 .. Len(s) : Append(s, f)[k] = s[k]
  BY DEF Begins

\* What a task has sent is not changed by a frame of another sender.
LEMMA OthersFrame ==
  ASSUME NEW s \in Seq(OutFrames), NEW f \in OutFrames, NEW i, f.of # i
  PROVE  /\ NoneFrom(s, i) => NoneFrom(Append(s, f), i)
         /\ \A n : Answered(s, i, n) => Answered(Append(s, f), i, n)
         /\ HasStatus(s, i) => HasStatus(Append(s, f), i)
         /\ EndsInStatus(s, i) => EndsInStatus(Append(s, f), i)
  <1> DEFINE t == Append(s, f)
  <1>1. /\ DOMAIN s = 1 .. Len(s) /\ DOMAIN t = 1 .. Len(s) + 1 /\ Len(s) \in Nat
        /\ t[Len(s) + 1] = f /\ \A k \in DOMAIN s : t[k] = s[k]
    BY AppendIs
  <1> HIDE DEF t
  <1>2. ASSUME NEW k, LastFrom(s, i, k) PROVE LastFrom(t, i, k) /\ t[k] = s[k]
    BY <1>1, <1>2 DEF LastFrom
  <1>3. NoneFrom(s, i) => NoneFrom(t, i)
    BY <1>1 DEF NoneFrom
  <1>4. ASSUME NEW n, Answered(s, i, n) PROVE Answered(t, i, n)
    BY <1>2, <1>4 DEF Answered, LastFrom
  <1>5. HasStatus(s, i) => HasStatus(t, i)
    BY <1>1 DEF HasStatus
  <1>6. EndsInStatus(s, i) => EndsInStatus(t, i)
    BY <1>2 DEF EndsInStatus, LastFrom
  <1> QED
    BY <1>3, <1>4, <1>5, <1>6 DEF t

\* The frame just sent is the last of its task.
LEMMA OwnFrame ==
  ASSUME NEW s \in Seq(OutFrames), NEW f \in OutFrames
  PROVE  LastFrom(Append(s, f), f.of, Len(s) + 1)
  BY AppendIs DEF LastFrom

\* A frame may be sent at the end of s.
Fits(s, f) ==
  \/ f.of = 0 /\ f.kind = "Reset"
  \/ f.of # 0 /\ NoneFrom(s, f.of) /\ MayStart(f) /\ f.n = 0
  \/ f.of # 0 /\ \E k \in DOMAIN s : LastFrom(s, f.of, k) /\ MayFollow(s[k], f)

\* A frame that fits is in its place.
LEMMA SendOrdered ==
  ASSUME NEW s \in Seq(OutFrames), NEW f \in OutFrames, Fits(s, f),
         f.kind = "Message" => f.code = "none",
         \A k \in DOMAIN s : Ordered(s, k)
  PROVE  \A k \in DOMAIN Append(s, f) : Ordered(Append(s, f), k)
  <1> DEFINE t == Append(s, f)
             l == Len(s) + 1
  <1>1. /\ t \in Seq(OutFrames) /\ Begins(s, t) /\ t[l] = f /\ DOMAIN t = 1 .. l
        /\ DOMAIN s = 1 .. Len(s) /\ Len(s) \in Nat /\ l - 1 = Len(s)
        /\ \A k \in 1 .. Len(s) : t[k] = s[k]
    BY AppendIs
  <1> HIDE DEF t
  <1>2. ASSUME NEW k \in 1 .. Len(s) PROVE Ordered(t, k)
    BY <1>1, <1>2, OrderAgrees
  <1>3. Placed(t, f.of, l) \/ (f.of = 0 /\ f.kind = "Reset")
    <2>1. ASSUME NEW k \in DOMAIN s, LastFrom(s, f.of, k), MayFollow(s[k], f)
          PROVE  Placed(t, f.of, l)
      <3>1. k \in 1 .. l - 1 /\ t[k] = s[k] /\ t[k].of = f.of
        BY <1>1, <2>1 DEF LastFrom
      <3>2. \A m \in k + 1 .. l - 1 : t[m].of # f.of
        BY <1>1, <2>1 DEF LastFrom
      <3> QED
        BY <1>1, <2>1, <3>1, <3>2 DEF Placed, LastBefore
    <2>2. CASE NoneFrom(s, f.of) /\ MayStart(f)
      BY <1>1, <2>2 DEF NoneFrom, Placed
    <2> QED
      BY <2>1, <2>2 DEF Fits
  <1>4. f.kind \in Answering => Before(t, f.of, f.n, l + 1)
    <2>1. CASE f.kind = "Header" /\ f.n = 0
      BY <2>1 DEF Before
    <2>2. ASSUME NEW k \in DOMAIN s, LastFrom(s, f.of, k), MayFollow(s[k], f), f.kind = "Message"
          PROVE  Before(t, f.of, f.n, l + 1)
      <3>1. s[k].kind \in Answering /\ f.n = s[k].n + 1 /\ s[k].n \in Nat /\ s[k].of = f.of
        <4>1. s[k] \in OutFrames
          BY <1>1
        <4> QED
          BY <2>2, <4>1 DEF MayFollow, Status, Answering, LastFrom, OutFrames
      <3>2. Before(s, f.of, s[k].n, k + 1)
        BY <3>1 DEF Ordered
      <3>3. f = Out("Message", f.of, f.n, "none")
        BY <2>2 DEF OutFrames, Out
      <3>4. ASSUME NEW m \in 1 .. f.n PROVE \E j \in 1 .. l + 1 - 1 : t[j] = Out("Message", f.of, m, "none")
        <4>1. CASE m = f.n
          BY <1>1, <3>3, <4>1
        <4>2. CASE m # f.n
          <5>1. m \in 1 .. s[k].n
            BY <3>1, <4>2
          <5>2. PICK j \in 1 .. k + 1 - 1 : s[j] = Out("Message", f.of, m, "none")
            BY <3>2, <5>1 DEF Before
          <5>3. j \in 1 .. Len(s) /\ j \in 1 .. l + 1 - 1
            BY <1>1
          <5> QED
            BY <1>1, <5>2, <5>3
        <4> QED
          BY <4>1, <4>2
      <3> QED
        BY <3>4 DEF Before
    <2>3. f.kind = "Message" => \E k \in DOMAIN s : LastFrom(s, f.of, k) /\ MayFollow(s[k], f)
      BY DEF Fits, MayStart, Status
    <2>4. f.kind = "Header" => f.n = 0
      BY DEF Fits, MayFollow, Status
    <2> QED
      BY <2>1, <2>2, <2>3, <2>4 DEF Answering
  <1>5. Ordered(t, l)
    <2>1. f.of = 0 <=> (f.of = 0 /\ f.kind = "Reset")
      BY DEF Fits
    <2> QED
      BY <1>1, <1>3, <1>4, <2>1 DEF Ordered
  <1>6. \A k \in 1 .. l : k = l \/ k \in 1 .. Len(s)
    BY <1>1
  <1> QED
    BY <1>1, <1>2, <1>5, <1>6 DEF t

\* What a sent frame makes true of its sender.
LEMMA OwnFrameSays ==
  ASSUME NEW s \in Seq(OutFrames), NEW f \in OutFrames, NEW i, f.of = i
  PROVE  /\ f.kind \in Answering => Answered(Append(s, f), i, f.n)
         /\ f.kind \in Status => EndsInStatus(Append(s, f), i) /\ HasStatus(Append(s, f), i)
         /\ EndsInStatus(s, i) => HasStatus(Append(s, f), i)
  <1> DEFINE t == Append(s, f)
             l == Len(s) + 1
  <1>1. LastFrom(t, i, l) /\ t[l] = f /\ l \in DOMAIN t /\ \A k \in DOMAIN s : k \in DOMAIN t /\ t[k] = s[k]
    BY OwnFrame, AppendIs
  <1> HIDE DEF t, l
  <1>2. EndsInStatus(s, i) => HasStatus(t, i)
    BY <1>1 DEF EndsInStatus, HasStatus, LastFrom
  <1> QED
    BY <1>1, <1>2 DEF Answered, EndsInStatus, HasStatus, t

\* A task that has sent its headers has sent its messages, and may go on.
LEMMA AnsweredFits ==
  ASSUME NEW s \in Seq(OutFrames), NEW f \in OutFrames, f.of # 0, NEW n, Answered(s, f.of, n),
         f.kind \in Status \/ (f.kind = "Message" /\ f.n = n + 1)
  PROVE  Fits(s, f)
  BY DEF Answered, Fits, MayFollow, Answering

\* A task that has sent its headers and n messages has sent each of them.
LEMMA AnsweredWhole ==
  ASSUME NEW s \in Seq(OutFrames), NEW i, NEW n, Answered(s, i, n),
         \A k \in DOMAIN s : Ordered(s, k)
  PROVE  Before(s, i, n, Len(s) + 1)
  <1>1. PICK k \in DOMAIN s : s[k].of = i /\ s[k].kind \in Answering /\ s[k].n = n
    BY DEF Answered, LastFrom
  <1>2. Before(s, i, n, k + 1)
    BY <1>1 DEF Ordered
  <1>3. \A j \in 1 .. k + 1 - 1 : j \in 1 .. Len(s) + 1 - 1
    OBVIOUS
  <1> QED
    BY <1>2, <1>3 DEF Before

-----------------------------------------------------------------------------
(* The channel: the written and the queued.                                *)

\* The sequences Sent is made of are typed.
LEMMA SentType ==
  ASSUME TypeOK
  PROVE  Sent \in Seq(OutFrames) /\ wire \in Seq(OutFrames) /\ outq \in Seq(OutFrames)
  BY DEF TypeOK, OutOK, Sent

\* An outbound send adds a frame at the end, or nothing when the writer is gone.
LEMMA EnqueueSends ==
  ASSUME TypeOK, NEW f \in OutFrames, Enqueue(f), UNCHANGED <<writer, wire>>
  PROVE  /\ writer = "running" => Sent' = Append(Sent, f)
         /\ writer # "running" => writer = "done" /\ outq' = outq /\ Sent' = Sent
  <1>1. CASE writer = "running"
    <2>1. Sent' = wire \o Append(outq, f)
      BY <1>1 DEF Enqueue, Sent
    <2>2. wire \o Append(outq, f) = Append(wire \o outq, f)
      <3> DEFINE S == OutFrames
      <3>1. wire \in Seq(S) /\ outq \in Seq(S) /\ f \in S /\ <<f>> \in Seq(S)
        BY SentType
      <3> HIDE DEF S
      <3>2. wire \o outq \in Seq(S)
        BY <3>1
      <3>3. Append(outq, f) = outq \o <<f>> /\ Append(wire \o outq, f) = (wire \o outq) \o <<f>>
        BY <3>1, <3>2, AppendIsConcat
      <3>4. (wire \o outq) \o <<f>> = wire \o (outq \o <<f>>)
        BY <3>1, ConcatAssociative
      <3> QED
        BY <3>3, <3>4
    <2> QED
      BY <1>1, <2>1, <2>2 DEF Sent
  <1>2. CASE writer # "running"
    BY <1>2 DEF Enqueue, Sent
  <1> QED
    BY <1>1, <1>2

\* The writer moves a frame from the queue to the socket; the two together stay.
LEMMA WriterSendsSame ==
  ASSUME TypeOK, WriterSends
  PROVE  Sent' = Sent
  <1> DEFINE S == OutFrames
  <1>1. wire \in Seq(S) /\ outq \in Seq(S) /\ outq # <<>>
    BY SentType DEF WriterSends
  <1>2. wire' = Append(wire, Head(outq)) /\ outq' = Tail(outq)
    BY DEF WriterSends
  <1> HIDE DEF S
  <1>3. Head(outq) \in S /\ Tail(outq) \in Seq(S) /\ <<Head(outq)>> \in Seq(S)
    BY <1>1
  <1>4. Append(wire, Head(outq)) = wire \o <<Head(outq)>>
    BY <1>1, <1>3, AppendIsConcat
  <1>5. (wire \o <<Head(outq)>>) \o Tail(outq) = wire \o (<<Head(outq)>> \o Tail(outq))
    BY <1>1, <1>3, ConcatAssociative
  <1>6. <<Head(outq)>> \o Tail(outq) = outq
    BY <1>1
  <1> QED
    BY <1>2, <1>4, <1>5, <1>6 DEF Sent

\* What is written begins what is sent.
LEMMA WireBegins ==
  ASSUME TypeOK
  PROVE  Begins(wire, Sent) /\ DOMAIN wire = 1 .. Len(wire) /\ \A k \in DOMAIN wire : k \in DOMAIN Sent /\ Sent[k] = wire[k]
  BY SentType DEF Begins, Sent

-----------------------------------------------------------------------------
(* The steps.                                                              *)

\* A new connection has sent nothing.
LEMMA RepliesInit == Init => RepliesInv
  <1> SUFFICES ASSUME Init PROVE RepliesInv
    OBVIOUS
  <1>1. Sent = <<>>
    BY DEF Init, Sent
  <1>2. ChannelInv
    BY <1>1 DEF ChannelInv
  <1>3. \A i \in Tasks : tpc[i] = "none" /\ produced[i] = 0 /\ NoneFrom(Sent, i)
    BY <1>1 DEF Init, NoneFrom
  <1>4. WriterInv
    BY <1>1, <1>3 DEF Init, WriterInv, Stopped
  <1> QED
    BY <1>2, <1>3, <1>4 DEF RepliesInv, TaskInv, SendingInv, Unsent

\* Steps that send nothing and move no task: the reader may stop, tasks may be
\* aborted, the writer may write what was queued.
LEMMA RepliesStay ==
  ASSUME RepliesInv, UNCHANGED <<Sent, writer, tpc, produced, verdict>>,
         CloseSent => CloseSent', peer' = "open" => peer = "open",
         \A i \in Tasks : aborted[i] => aborted'[i],
         reader \in Stopped => reader' \in Stopped, reader' = "rejecting" => reader = "rejecting"
  PROVE  RepliesInv'
  <1>1. ChannelInv'
    BY DEF RepliesInv, ChannelInv, Whole
  <1>2. WriterInv'
    BY DEF RepliesInv, WriterInv
  <1>3. ASSUME NEW i \in Tasks PROVE TaskInv(i)'
    BY DEF RepliesInv, TaskInv, SendingInv
  <1> QED
    BY <1>1, <1>2, <1>3 DEF RepliesInv

\* A task moves without sending, because there is nothing to send or nobody
\* takes it.
LEMMA RepliesMove ==
  ASSUME RepliesInv, NEW i \in Tasks, UNCHANGED <<reader, outVars, aborted, peer>>,
         \A j \in Tasks : j # i => tpc'[j] = tpc[j] /\ produced'[j] = produced[j] /\ verdict'[j] = verdict[j],
         tpc[i] \in {"close", "done"} =>
           tpc'[i] \in {"close", "done"} /\ produced'[i] = produced[i] /\ verdict'[i] = verdict[i],
         tpc[i] \notin {"none", "done"} \/ reader = "reading", TaskInv(i)',
         \A k \in DOMAIN Sent : Sent[k].of \in 0 .. MaxStreams
  PROVE  RepliesInv'
  <1>1. Sent' = Sent /\ CloseSent' = CloseSent /\ writer' = writer
    BY DEF outVars, Sent, CloseSent
  <1>2. ASSUME NEW k \in DOMAIN Sent PROVE Whole(Sent, k)'
    <2>1. Whole(Sent, k) /\ Ordered(Sent, k)
      BY DEF RepliesInv, ChannelInv
    <2>2. Sent[k].kind = "Trailer" => Sent[k].of \in Tasks
      BY <2>1, BoundAssumption DEF Ordered, Tasks
    <2> QED
      BY <1>1, <2>1, <2>2 DEF Whole
  <1>3. ChannelInv'
    BY <1>1, <1>2 DEF RepliesInv, ChannelInv
  <1>4. WriterInv'
    <2>1. writer = "done" /\ peer = "open" /\ ~CloseSent => FALSE
      BY DEF RepliesInv, WriterInv, Stopped
    <2> QED
      BY <1>1, <2>1 DEF RepliesInv, WriterInv
  <1>5. ASSUME NEW j \in Tasks, j # i PROVE TaskInv(j)'
    BY <1>1, <1>5 DEF RepliesInv, TaskInv, SendingInv
  <1> QED
    BY <1>3, <1>4, <1>5 DEF RepliesInv

\* A frame that fits is queued, by a task or by the reader.
LEMMA RepliesSend ==
  ASSUME TypeOK, RepliesInv, NEW f \in OutFrames, Fits(Sent, f), f.kind = "Message" => f.code = "none",
         writer = "running", Sent' = Append(Sent, f), UNCHANGED <<writer, produced, verdict>>,
         \A j \in Tasks : /\ aborted[j] => aborted'[j]
                          /\ j # f.of => tpc'[j] = tpc[j]
                          /\ tpc[j] \in {"close", "done"} => tpc'[j] \in {"close", "done"}
                          /\ j = f.of => TaskInv(j)',
         reader' = "rejecting" => reader = "rejecting",
         f.kind = "Trailer" /\ f.code = "OK" =>
           /\ tpc'[f.of] \in {"close", "done"} /\ verdict[f.of] \notin {"none", "ERROR"}
           /\ Before(Sent, f.of, produced[f.of], Len(Sent) + 1)
  PROVE  RepliesInv'
  <1> DEFINE t == Append(Sent, f)
             l == Len(Sent) + 1
  <1>1. /\ t \in Seq(OutFrames) /\ Begins(Sent, t) /\ t[l] = f /\ DOMAIN t = 1 .. l
        /\ DOMAIN Sent = 1 .. Len(Sent) /\ Len(Sent) \in Nat /\ Sent \in Seq(OutFrames)
        /\ \A k \in 1 .. Len(Sent) : t[k] = Sent[k]
    BY SentType, AppendIs
  <1>2. \A k \in DOMAIN t : Ordered(t, k)
    BY <1>1, SendOrdered DEF RepliesInv, ChannelInv
  <1>3. Sent' = t
    OBVIOUS
  <1> HIDE DEF t
  <1>4. ASSUME NEW k \in 1 .. Len(Sent) PROVE Whole(Sent, k)'
    <2>1. Whole(Sent, k) /\ Ordered(Sent, k) /\ t[k] = Sent[k] /\ Sent[k] \in OutFrames
      BY <1>1 DEF RepliesInv, ChannelInv
    <2>2. Sent[k].kind = "Trailer" => Sent[k].of \in Tasks
      BY <2>1, BoundAssumption DEF Ordered, OutFrames, Tasks
    <2>3. \A i, n : Before(Sent, i, n, k) <=> Before(t, i, n, k)
      BY <1>1, BeforeAgrees
    <2> QED
      BY <1>3, <2>1, <2>2, <2>3 DEF Whole
  <1>5. ASSUME NEW k, k = l PROVE Whole(Sent, k)'
    <2>1. \A i, n : Before(Sent, i, n, l) <=> Before(t, i, n, l)
      BY <1>1, BeforeAgrees
    <2> QED
      BY <1>1, <1>3, <1>5, <2>1 DEF Whole
  <1>6. \A k \in 1 .. l : k = l \/ k \in 1 .. Len(Sent)
    BY <1>1
  <1>7. ChannelInv'
    BY <1>1, <1>2, <1>3, <1>4, <1>5, <1>6 DEF ChannelInv
  <1>8. WriterInv'
    BY DEF RepliesInv, WriterInv
  <1>9. ASSUME NEW j \in Tasks, j # f.of PROVE TaskInv(j)'
    <2>1. TaskInv(j) /\ tpc'[j] = tpc[j] /\ (aborted[j] => aborted'[j])
      BY <1>9 DEF RepliesInv
    <2>2. /\ NoneFrom(Sent, j) => NoneFrom(t, j)
          /\ \A n : Answered(Sent, j, n) => Answered(t, j, n)
          /\ HasStatus(Sent, j) => HasStatus(t, j)
          /\ EndsInStatus(Sent, j) => EndsInStatus(t, j)
      BY <1>1, <1>9, OthersFrame DEF t
    <2> QED
      BY <1>3, <2>1, <2>2 DEF TaskInv, SendingInv
  <1> QED
    BY <1>7, <1>8, <1>9 DEF RepliesInv

\* A step between two places of a task keeps a place for everyone.
LEMMA AdvanceIs ==
  ASSUME TypeOK, NEW i \in Tasks, NEW from, NEW to, Advance(i, from, to)
  PROVE  /\ tpc[i] = from /\ tpc'[i] = to /\ \A j \in Tasks : j # i => tpc'[j] = tpc[j]
         /\ UNCHANGED <<reader, outVars, aborted, peer, produced>>
         /\ Sent' = Sent /\ writer' = writer
  BY DEF Advance, Goto, readerVars, outVars, Sent, TypeOK, TaskOK

\* Every step of a task but its sends.
LEMMA RepliesTask ==
  ASSUME TypeOK, SlotInv, RepliesInv, NEW i \in Tasks,
         Resolve(i) \/ EncodeFails(i) \/ TimeoutExpires(i) \/ Cancelled(i) \/ BackendResponds(i)
  PROVE  RepliesInv'
  <1>1. \A k \in DOMAIN Sent : Sent[k].of \in 0 .. MaxStreams
    <2>1. \A k \in DOMAIN Sent : Sent[k] \in OutFrames
      BY SentType
    <2> QED
      BY <2>1 DEF OutFrames
  <1>2. TaskInv(i)
    BY DEF RepliesInv
  <1>3. ASSUME NEW from, NEW to, Advance(i, from, to), from \notin {"none", "close", "done"},
               \A j \in Tasks : j # i => verdict'[j] = verdict[j], TaskInv(i)'
        PROVE  RepliesInv'
    BY <1>1, <1>3, AdvanceIs, RepliesMove
  <1>4. CASE Resolve(i) \/ BackendAnswers(i) \/ BackendRefuses(i)
    BY <1>2, <1>3, <1>4, AdvanceIs
    DEF Resolve, BackendAnswers, BackendRefuses, TaskInv, SendingInv, Unsent
  <1>5. CASE EncodeFails(i)
    BY <1>2, <1>3, <1>5, AdvanceIs DEF EncodeFails, TaskInv, SendingInv, Unsent
  <1>6. CASE TimeoutExpires(i)
    <2>1. PICK pc \in Pumping : Advance(i, pc, "expired") /\ UNCHANGED verdict
      BY <1>6 DEF TimeoutExpires
    <2>2. produced[i] \in Nat
      BY BoundAssumption DEF TypeOK, TaskOK
    <2>3. writer = "running" => NoneFrom(Sent, i) \/ \E n \in Nat : Answered(Sent, i, n)
      <3>1. produced[i] > 0 => produced[i] - 1 \in Nat
        BY <2>2
      <3> QED
        BY <1>2, <2>1, <2>2, <3>1, AdvanceIs DEF Pumping, TaskInv, SendingInv, Unsent
    <2>4. TaskInv(i)'
      BY <2>1, <2>3, AdvanceIs DEF TaskInv, SendingInv, Unsent
    <2> QED
      BY <1>3, <2>1, <2>4 DEF Pumping
  <1>7. ASSUME NEW v \in Verdicts, BackendEnds(i, v) PROVE RepliesInv'
    <2>1. Advance(i, "pump", "trailer") /\ verdict' = [verdict EXCEPT ![i] = v] /\ v # "none"
      BY <1>7 DEF BackendEnds, Verdicts
    <2>2. verdict'[i] = v /\ \A j \in Tasks : j # i => verdict'[j] = verdict[j]
      BY <2>1 DEF TypeOK, TaskOK
    <2>3. TaskInv(i)'
      BY <1>2, <2>1, <2>2, AdvanceIs DEF TaskInv, SendingInv, Unsent
    <2> QED
      BY <1>3, <2>1, <2>2, <2>3
  <1>8. CASE BackendYields(i)
    <2>1. /\ tpc[i] = "pump" /\ tpc'[i] = "message" /\ produced'[i] = produced[i] + 1
          /\ \A j \in Tasks : j # i => tpc'[j] = tpc[j] /\ produced'[j] = produced[j]
          /\ produced[i] \in Nat
      BY <1>8, BoundAssumption DEF BackendYields, Goto, TypeOK, TaskOK
    <2>2. UNCHANGED <<reader, outVars, aborted, peer, verdict, Sent, writer>>
      BY <1>8 DEF BackendYields, readerVars, outVars, Sent
    <2>3. produced'[i] > 0 /\ produced'[i] - 1 = produced[i]
      BY <2>1
    <2>4. TaskInv(i)'
      BY <1>2, <2>1, <2>2, <2>3 DEF TaskInv, SendingInv, Unsent
    <2> QED
      BY <1>1, <2>1, <2>2, <2>4, RepliesMove
  <1>9. CASE Cancelled(i)
    <2>1. /\ aborted[i] /\ tpc[i] # "done" /\ tpc'[i] = "done" /\ aborted'[i]
          /\ \A j \in Tasks : j # i => tpc'[j] = tpc[j]
      BY <1>9 DEF Cancelled, Goto, TypeOK, TaskOK
    <2>2. tpc[i] # "none"
      BY <2>1, BoundAssumption DEF SlotInv, Tasks, TypeOK, TaskOK
    <2>3. UNCHANGED <<reader, outVars, aborted, peer, produced, verdict>>
      BY <1>9 DEF Cancelled, readerVars, outVars
    <2>4. TaskInv(i)'
      BY <2>1 DEF TaskInv, SendingInv, Unsent
    <2> QED
      BY <1>1, <2>1, <2>2, <2>3, <2>4, RepliesMove
  <1> QED
    BY <1>4, <1>5, <1>6, <1>7, <1>8, <1>9 DEF BackendResponds

\* The frame a task sends fits, and leaves its sender as TaskInv says.
LEMMA RepliesTaskSends ==
  ASSUME TypeOK, RepliesInv, NEW i \in Tasks, TaskSends(i)
  PROVE  RepliesInv'
  <1> DEFINE f == TaskFrame(i)
  <1>1. f \in OutFrames
    BY TaskFrameIsFrame DEF TaskSends
  <1>2. f.of = i /\ i # 0 /\ produced[i] \in Nat /\ (f.kind = "Message" => f.code = "none")
    BY BoundAssumption DEF TaskSends, TaskFrame, Terminating, Out, Tasks, TypeOK, TaskOK
  <1>3. /\ tpc'[i] = AfterSend(i) /\ \A j \in Tasks : j # i => tpc'[j] = tpc[j]
        /\ tpc[i] \in Terminating \cup {"header", "message", "close"}
        /\ UNCHANGED <<reader, aborted, produced, verdict, writer, wire, peer>>
    BY DEF TaskSends, Goto, readerVars, TypeOK, TaskOK
  <1>4. TaskInv(i)
    BY DEF RepliesInv
  <1>5. CASE writer # "running"
    <2>1. writer = "done" /\ UNCHANGED <<outVars, Sent>>
      BY <1>1, <1>3, <1>5, EnqueueSends DEF TaskSends, outVars
    <2>2. TaskInv(i)'
      BY <1>3, <2>1 DEF TaskInv, AfterSend, Terminating, Unsent
    <2>3. \A k \in DOMAIN Sent : Sent[k].of \in 0 .. MaxStreams
      <3>1. \A k \in DOMAIN Sent : Sent[k] \in OutFrames
        BY SentType
      <3> QED
        BY <3>1 DEF OutFrames
    <2>4. tpc[i] \in {"close", "done"} => tpc'[i] \in {"close", "done"}
      BY <1>3 DEF AfterSend, Terminating
    <2>5. tpc[i] \notin {"none", "done"}
      BY <1>3 DEF Terminating
    <2> QED
      BY <1>3, <2>1, <2>2, <2>3, <2>4, <2>5, RepliesMove
  <1>6. CASE writer = "running"
    <2>1. Sent' = Append(Sent, f) /\ Sent \in Seq(OutFrames) /\ writer' = "running"
      BY <1>1, <1>3, <1>6, EnqueueSends, SentType DEF TaskSends
    <2>2. /\ f.kind \in Answering => Answered(Sent', i, f.n)
          /\ f.kind \in Status => EndsInStatus(Sent', i)
          /\ EndsInStatus(Sent, i) => HasStatus(Sent', i)
      BY <1>1, <1>2, <2>1, OwnFrameSays
    <2>3. SendingInv(i)
      BY <1>4, <1>6 DEF TaskInv
    <2>4. Fits(Sent, f) /\ TaskInv(i)'
      <3>1. CASE tpc[i] = "header"
        <4>1. f = Out("Header", i, 0, "none") /\ tpc'[i] = "pump" /\ produced'[i] = 0 /\ NoneFrom(Sent, i)
          BY <1>3, <1>4, <3>1 DEF TaskFrame, AfterSend, TaskInv, Unsent
        <4> QED
          BY <1>2, <2>1, <2>2, <4>1
          DEF Out, Fits, MayStart, Answering, TaskInv, SendingInv, Unsent
      <3>2. CASE tpc[i] = "message"
        <4>1. /\ f = Out("Message", i, produced[i], "none") /\ tpc'[i] = "pump"
              /\ Answered(Sent, i, produced[i] - 1)
          BY <1>3, <1>6, <2>3, <3>2 DEF TaskFrame, AfterSend, SendingInv
        <4>2. f.kind = "Message" /\ f.n = produced[i] /\ f.n = (produced[i] - 1) + 1
          BY <1>2, <4>1 DEF Out
        <4>3. Fits(Sent, f)
          BY <1>1, <1>2, <2>1, <4>1, <4>2, AnsweredFits
        <4> QED
          BY <1>3, <2>1, <2>2, <4>1, <4>2, <4>3 DEF Answering, TaskInv, SendingInv, Unsent
      <3>3. CASE tpc[i] \in Terminating
        <4>1. f.kind \in Status /\ f.n = 0 /\ tpc'[i] = "close"
          BY <1>3, <3>3 DEF TaskFrame, AfterSend, Terminating, Out, Status
        <4>2. NoneFrom(Sent, i) \/ \E n : Answered(Sent, i, n)
          BY <1>4, <2>3, <3>3 DEF Terminating, TaskInv, SendingInv, Unsent
        <4>3. Fits(Sent, f)
          <5>1. CASE NoneFrom(Sent, i)
            BY <1>2, <4>1, <5>1 DEF Fits, MayStart
          <5>2. CASE \E n : Answered(Sent, i, n)
            BY <1>1, <1>2, <2>1, <4>1, <5>2, AnsweredFits
          <5> QED
            BY <4>2, <5>1, <5>2
        <4> QED
          BY <2>1, <2>2, <4>1, <4>3 DEF TaskInv, SendingInv, Unsent
      <3>4. CASE tpc[i] = "close"
        <4>1. f.kind = "Close" /\ tpc'[i] = "done" /\ EndsInStatus(Sent, i)
          BY <1>3, <2>3, <3>4 DEF TaskFrame, AfterSend, Out, SendingInv
        <4>2. Fits(Sent, f)
          BY <1>2, <4>1 DEF EndsInStatus, Fits, MayFollow
        <4> QED
          BY <2>1, <2>2, <4>1, <4>2 DEF TaskInv, SendingInv, Unsent
      <3> QED
        BY <1>3, <3>1, <3>2, <3>3, <3>4
    <2>5. f.kind = "Trailer" /\ f.code = "OK" =>
            /\ tpc'[i] \in {"close", "done"} /\ verdict[i] \notin {"none", "ERROR"}
            /\ Before(Sent, i, produced[i], Len(Sent) + 1)
      <3> SUFFICES ASSUME f.kind = "Trailer", f.code = "OK"
                   PROVE  /\ tpc'[i] \in {"close", "done"} /\ verdict[i] \notin {"none", "ERROR"}
                          /\ Before(Sent, i, produced[i], Len(Sent) + 1)
        OBVIOUS
      <3>1. tpc[i] = "trailer" /\ read_status(verdict[i]) = "OK"
        BY <1>3 DEF TaskFrame, Terminating, Out
      <3>2. tpc'[i] = "close" /\ verdict[i] \notin {"none", "ERROR"}
        BY <1>3, <1>4, <3>1 DEF AfterSend, read_status, TaskInv
      <3>3. Answered(Sent, i, produced[i]) /\ \A k \in DOMAIN Sent : Ordered(Sent, k)
        BY <2>3, <3>1 DEF SendingInv, RepliesInv, ChannelInv
      <3> QED
        BY <2>1, <3>2, <3>3, AnsweredWhole
    <2>6. tpc[i] \in {"close", "done"} => tpc'[i] \in {"close", "done"}
      BY <1>3 DEF AfterSend, Terminating
    <2> HIDE DEF f
    <2> QED
      BY <1>1, <1>2, <1>3, <1>6, <2>1, <2>4, <2>5, <2>6, RepliesSend
  <1> QED
    BY <1>5, <1>6

\* The reader queues the Reset of a refused frame, and may drop the stream.
LEMMA RepliesReply ==
  ASSUME TypeOK, RepliesInv, ReplyDone
  PROVE  RepliesInv'
  <1> DEFINE f == Out("Reset", 0, 0, ReplyCode[reader])
  <1>1. f \in OutFrames /\ f.kind = "Reset" /\ f.of = 0
    <2>1. ReplyCode[reader] \in Codes
      BY DEF ReplyDone, ReplyCode, Codes
    <2>2. 0 \in 0 .. MaxStreams /\ 0 \in Nat
      BY BoundAssumption
    <2> QED
      BY <2>1, <2>2, OutIsFrame DEF Out
  <1>2. /\ UNCHANGED <<tpc, produced, verdict, writer, wire, peer>>
        /\ reader \notin Stopped /\ reader' = "reading" /\ Enqueue(f)
    BY DEF ReplyDone, ReplyCode, Stopped
  <1> HIDE DEF f
  <1>3. \A j \in Tasks : aborted[j] => aborted'[j]
    BY DEF ReplyDone, TakeStream, Abort, TypeOK, TaskOK
  <1>4. CASE writer # "running"
    BY <1>1, <1>2, <1>3, <1>4, EnqueueSends, RepliesStay DEF CloseSent
  <1>5. CASE writer = "running"
    <2>1. Sent' = Append(Sent, f)
      BY <1>1, <1>2, <1>5, EnqueueSends
    <2>2. Fits(Sent, f)
      BY <1>1 DEF Fits
    <2>3. \A j \in Tasks : j # f.of
      BY <1>1, BoundAssumption DEF Tasks
    <2> QED
      BY <1>1, <1>2, <1>3, <1>5, <2>1, <2>2, <2>3, RepliesSend
  <1> QED
    BY <1>4, <1>5

\* The reader's other steps send nothing, save a rejection's only Close.
LEMMA RepliesReader ==
  ASSUME TypeOK, SlotInv, RepliesInv, Reader \/ KeepaliveExpires
  PROVE  RepliesInv'
  <1>1. CASE PushDone \/ Join
    BY <1>1, RepliesStay DEF PushDone, Join, taskVars, outVars, Sent, CloseSent, Stopped
  <1>2. CASE LeaveLoop
    <2>1. \A j \in Tasks : aborted[j] => aborted'[j]
      BY <1>2 DEF LeaveLoop, TakeStream, Abort, TypeOK, TaskOK
    <2> QED
      BY <1>2, <2>1, RepliesStay DEF LeaveLoop, outVars, Sent, CloseSent, Stopped
  <1>3. CASE RejectHandshake
    <2>1. /\ writer = "done" /\ wire = <<>> /\ outq = <<>> /\ reader' = "done"
          /\ UNCHANGED <<tpc, aborted, produced, verdict, outq, writer, peer>>
      <3>1. writer = "done" /\ Sent = <<>>
        BY <1>3 DEF RejectHandshake, RepliesInv, WriterInv
      <3>2. wire = <<>> /\ outq = <<>>
        BY <3>1, SentType, ConcatSimplifications DEF Sent
      <3> QED
        BY <1>3, <3>1, <3>2 DEF RejectHandshake, taskVars
    <2>2. \A i \in Tasks : tpc[i] = "none"
      BY <1>3, BoundAssumption DEF RejectHandshake, SlotInv, Tasks
    <2>3. CASE UNCHANGED wire
      BY <2>1, <2>3, RepliesStay DEF Sent, CloseSent, Stopped
    <2>4. CASE wire' = <<Out("Close", 0, 0, params.reject)>>
      <3> DEFINE c == Out("Close", 0, 0, params.reject)
      <3>1. c.of = 0 /\ c.kind = "Close"
        BY DEF Out
      <3> HIDE DEF c
      <3>2. Sent' = <<c>>
        <4>1. wire' = <<c>> /\ outq' = <<>>
          BY <2>1, <2>4 DEF c
        <4> QED
          BY <4>1 DEF Sent
      <3>3. DOMAIN Sent' = {1} /\ Sent'[1] = c
        BY <3>2
      <3>4. ChannelInv'
        BY <3>1, <3>3 DEF ChannelInv, Ordered, Whole, Answering
      <3>5. CloseSent'
        <4>1. wire' = <<c>>
          BY <2>4 DEF c
        <4>2. 1 \in DOMAIN wire' /\ wire'[1] = c
          BY <4>1
        <4> QED
          BY <3>1, <4>2 DEF CloseSent
      <3>6. WriterInv'
        BY <2>1, <3>5 DEF WriterInv
      <3>7. ASSUME NEW i \in Tasks PROVE TaskInv(i)'
        <4>1. NoneFrom(Sent', i)
          BY <3>1, <3>3, BoundAssumption DEF NoneFrom, Tasks
        <4> QED
          BY <2>1, <2>2, <4>1 DEF RepliesInv, TaskInv, Unsent
      <3> QED
        BY <3>4, <3>6, <3>7 DEF RepliesInv
    <2> QED
      BY <1>3, <2>3, <2>4 DEF RejectHandshake
  <1> QED
    BY <1>1, <1>2, <1>3, RepliesReply DEF Reader, EndOfInput, KeepaliveExpires

\* Reading a frame sends nothing; a Subscribe starts a task that has not.
LEMMA RepliesRead ==
  ASSUME TypeOK, SlotInv, RepliesInv, NEW f \in PeerFrames, ReadFrame(f)
  PROVE  RepliesInv'
  <1>1. CASE Subscribe(f)
    <2>0. ntask + 1 \in Tasks
      BY <1>1, BoundAssumption DEF Subscribe, TypeOK, TaskOK, Tasks
    <2> PICK i \in Tasks : i = ntask + 1
      BY <2>0
    <2>1. tpc[i] = "none"
      BY BoundAssumption DEF TypeOK, TaskOK, Tasks, SlotInv
    <2>2. tpc'[i] \in {"resolve", "call"} /\ \A j \in Tasks : j # i => tpc'[j] = tpc[j]
      BY <1>1, <2>1 DEF Subscribe, TypeOK, TaskOK
    <2>3. reader = "reading" /\ UNCHANGED <<reader, outVars, aborted, peer, produced, verdict>>
      BY <1>1 DEF Subscribe, Take
    <2>4. TaskInv(i)'
      <3>1. produced[i] = 0 /\ NoneFrom(Sent, i)
        BY <2>1 DEF RepliesInv, TaskInv, Unsent
      <3>2. Sent' = Sent /\ produced' = produced
        BY <2>3 DEF outVars, Sent
      <3> QED
        BY <2>2, <3>1, <3>2 DEF TaskInv, SendingInv, Unsent
    <2>5. \A k \in DOMAIN Sent : Sent[k].of \in 0 .. MaxStreams
      <3>1. \A k \in DOMAIN Sent : Sent[k] \in OutFrames
        BY SentType
      <3> QED
        BY <3>1 DEF OutFrames
    <2> QED
      BY <2>1, <2>2, <2>3, <2>4, <2>5, RepliesMove
  <1>2. CASE Reset(f)
    <2>1. \A j \in Tasks : aborted[j] => aborted'[j]
      BY <1>2 DEF Reset, TakeStream, Abort, TypeOK, TaskOK
    <2> QED
      BY <1>2, <2>1, RepliesStay DEF Reset, Take, outVars, Sent, CloseSent
  <1>3. CASE ~Subscribe(f) /\ ~Reset(f)
    <2>1. UNCHANGED <<tpc, aborted, produced, verdict, outVars, peer>>
          /\ reader = "reading" /\ reader' # "rejecting"
      BY <1>3
      DEF ReadFrame, ReadIgnored, SubscribeAgain, SubscribeOversize, MessageOversize, Message,
          MessageIgnored, HalfClose, Take, taskVars
    <2> QED
      BY <2>1, RepliesStay DEF outVars, Sent, CloseSent, Stopped
  <1> QED
    BY <1>1, <1>2, <1>3

\* The writer writes what was sent, or drops what is still queued.
LEMMA RepliesWriter ==
  ASSUME TypeOK, SlotInv, RepliesInv, Writer
  PROVE  RepliesInv'
  <1>1. CASE WriterSends
    BY <1>1, WriterSendsSame, RepliesStay DEF WriterSends, readerVars, taskVars
  <1>2. ASSUME WriterStops, writer = "running",
               peer # "open" \/ CloseSent \/
                 (outq = <<>> /\ reader = "joining" /\ \A i \in 1 .. ntask : tpc[i] = "done")
        PROVE  RepliesInv'
    <2>1. Sent' = wire /\ writer' = "done" /\ UNCHANGED <<wire, tpc, aborted, produced, verdict, peer, reader>>
      <3>1. wire \o <<>> = wire
        BY SentType
      <3> QED
        BY <1>2, <3>1 DEF WriterStops, readerVars, taskVars, Sent
    <2>2. ASSUME NEW k \in DOMAIN wire PROVE Ordered(wire, k) /\ Whole(Sent, k)'
      <3>1. k \in DOMAIN Sent /\ Sent[k] = wire[k] /\ Ordered(Sent, k) /\ Whole(Sent, k)
        BY WireBegins DEF RepliesInv, ChannelInv
      <3>2. k \in 1 .. Len(wire) /\ k \in 1 .. Len(wire) + 1
        BY SentType
      <3>3. Ordered(wire, k)
        BY <3>1, <3>2, SentType, WireBegins, OrderAgrees
      <3>4. \A i, n : Before(wire, i, n, k) <=> Before(Sent, i, n, k)
        BY <3>2, SentType, WireBegins, BeforeAgrees
      <3> QED
        BY <2>1, <3>1, <3>3, <3>4 DEF Whole
    <2>3. ChannelInv'
      BY <2>1, <2>2 DEF ChannelInv
    <2>4. ASSUME NEW i \in Tasks PROVE TaskInv(i)'
      <3>1. NoneFrom(Sent, i) => NoneFrom(wire, i)
        BY WireBegins DEF NoneFrom
      <3> QED
        BY <2>1, <3>1 DEF RepliesInv, TaskInv
    <2>5. WriterInv'
      <3>1. reader # "rejecting"
        BY <1>2 DEF RepliesInv, WriterInv
      <3>2. CASE peer # "open" \/ CloseSent
        BY <2>1, <3>1, <3>2 DEF WriterInv, CloseSent
      <3>3. CASE outq = <<>> /\ reader = "joining" /\ \A i \in 1 .. ntask : tpc[i] = "done"
        <4>1. Sent = wire
          <5>1. wire \o <<>> = wire
            BY SentType
          <5> QED
            BY <3>3, <5>1 DEF Sent
        <4>2. \A i \in Tasks : tpc[i] \in {"none", "done"}
          BY <3>3, BoundAssumption DEF SlotInv, Tasks, TypeOK, TaskOK
        <4>3. \A i \in Tasks : tpc[i] = "done" /\ ~aborted[i] => HasStatus(Sent, i)
          BY <1>2 DEF RepliesInv, TaskInv, SendingInv
        <4> QED
          BY <2>1, <3>1, <3>3, <4>1, <4>2, <4>3 DEF WriterInv, Stopped
      <3> QED
        BY <1>2, <3>2, <3>3
    <2> QED
      BY <2>3, <2>4, <2>5 DEF RepliesInv
  <1> QED
    BY <1>1, <1>2 DEF Writer, WriterFails, WriterEnds

\* Every step keeps RepliesInv.
LEMMA RepliesStep == TypeOK /\ SlotInv /\ RepliesInv /\ [Next]_vars => RepliesInv'
  <1> SUFFICES ASSUME TypeOK, SlotInv, RepliesInv, [Next]_vars PROVE RepliesInv'
    OBVIOUS
  <1>1. CASE UNCHANGED vars \/ PeerLeaves \/ \E i \in Tasks : BackendReads(i)
    BY <1>1, RepliesStay
    DEF vars, readerVars, taskVars, outVars, PeerLeaves, BackendReads, BackendPulls, BackendSeesEnd,
        BackendDrops, Sent, CloseSent
  <1>2. ASSUME NEW i \in Tasks, Task(i) \/ BackendResponds(i) PROVE RepliesInv'
    BY <1>2, RepliesTask, RepliesTaskSends DEF Task
  <1>3. ASSUME NEW f \in PeerFrames, ReadFrame(f) PROVE RepliesInv'
    BY <1>3, RepliesRead
  <1> QED
    BY <1>1, <1>2, <1>3, RepliesReader, RepliesWriter DEF Next, ServerStep, Terminated

-----------------------------------------------------------------------------
(* The promises.                                                           *)

\* RepliesInv holds in every reachable state.
LEMMA RepliesHold == Spec => [](TypeOK /\ RepliesInv)
  BY TypeInit, TypeStep, SlotInit, SlotStep, RepliesInit, RepliesStep, PTL DEF Spec

\* Whatever a task meets - a slow peer, a reset, a timeout, a backend's error -
\* its frames follow the grammar: headers, messages without a gap, one status,
\* one Close.
THEOREM GrammarIsKept == Spec => []ResponseGrammar
  <1>1. TypeOK /\ RepliesInv => ResponseGrammar
    <2>1. \A i \in Tasks : i # 0
      BY BoundAssumption DEF Tasks
    <2> QED
      BY <2>1 DEF RepliesInv, ChannelInv, Ordered, ResponseGrammar
  <1> QED
    BY <1>1, RepliesHold, PTL

\* A peer is never closed on normally without the status of its call.
THEOREM StatusBeforeClose == Spec => []CloseFollowsStatus
  <1>1. TypeOK /\ RepliesInv => CloseFollowsStatus
    <2> SUFFICES ASSUME TypeOK, RepliesInv, NEW i \in Tasks, NEW k \in DOMAIN wire,
                        wire[k].kind = "Close", wire[k].of = i
                 PROVE  \E j \in 1 .. k - 1 : wire[j].of = i /\ wire[j].kind \in Status
      BY DEF CloseFollowsStatus
    <2>1. k \in DOMAIN Sent /\ Sent[k] = wire[k] /\ i # 0
      BY WireBegins, BoundAssumption DEF Tasks
    <2>2. Placed(Sent, i, k)
      BY <2>1 DEF RepliesInv, ChannelInv, Ordered
    <2>3. PICK j \in 1 .. k - 1 : Sent[j].of = i /\ Sent[j].kind \in Status
      BY <2>1, <2>2 DEF Placed, MayStart, MayFollow, LastBefore, Status
    <2>4. wire[j] = Sent[j]
      <3>1. DOMAIN wire = 1 .. Len(wire) /\ Len(wire) \in Nat
        BY SentType
      <3>2. j \in DOMAIN wire
        BY <3>1
      <3> QED
        BY <3>2, WireBegins
    <2> QED
      BY <2>3, <2>4
  <1> QED
    BY <1>1, RepliesHold, PTL

\* An OK status on the wire comes after every message the backend produced,
\* whatever cut the call short.
THEOREM OkIsTheWholeAnswer == Spec => []OkMeansComplete
  <1>1. TypeOK /\ RepliesInv => OkMeansComplete
    <2> SUFFICES ASSUME TypeOK, RepliesInv, NEW k \in DOMAIN wire,
                        wire[k].kind = "Trailer", wire[k].code = "OK"
                 PROVE  /\ verdict[wire[k].of] \notin {"none", "ERROR"}
                        /\ \A n \in 1 .. produced[wire[k].of] :
                             \E j \in 1 .. k - 1 : wire[j] = Out("Message", wire[k].of, n, "none")
      BY DEF OkMeansComplete
    <2>1. k \in DOMAIN Sent /\ Sent[k] = wire[k]
      BY WireBegins
    <2>2. Whole(Sent, k)
      BY <2>1 DEF RepliesInv, ChannelInv
    <2>3. \A j \in 1 .. k - 1 : wire[j] = Sent[j]
      <3>1. DOMAIN wire = 1 .. Len(wire) /\ Len(wire) \in Nat
        BY SentType
      <3>2. \A j \in 1 .. k - 1 : j \in DOMAIN wire
        BY <3>1
      <3> QED
        BY <3>2, WireBegins
    <2> QED
      BY <2>1, <2>2, <2>3 DEF Whole, Before
  <1> QED
    BY <1>1, RepliesHold, PTL

\* A task that ran to its end got its status out, as long as the socket was there
\* to take it.
THEOREM StatusesAreSent == Spec => []StatusNotLost
  <1>1. TypeOK /\ RepliesInv => StatusNotLost
    <2> SUFFICES ASSUME TypeOK, RepliesInv, NEW i \in Tasks,
                        tpc[i] = "done", ~aborted[i], peer = "open", ~CloseSent
                 PROVE  HasStatus(Sent, i)
      BY DEF StatusNotLost, HasStatus
    <2>1. CASE writer = "running"
      BY <2>1 DEF RepliesInv, TaskInv, SendingInv
    <2>2. CASE writer = "done"
      BY <2>2 DEF RepliesInv, WriterInv
    <2> QED
      BY <2>1, <2>2 DEF TypeOK, OutOK
  <1> QED
    BY <1>1, RepliesHold, PTL
=============================================================================
