# grpc_webnext in TLA+

grpc_webnext serves gRPC to browsers. Unary calls go over Fetch, streaming calls
over one WebSocket each (JSON, or protobuf frames) or over HTTP/2 tunnelled in a
WebSocket (h2ts). A Rust crate terminates the protocol in front of a gRPC router
in the same process, or as a proxy in front of an upstream server. A TypeScript
client speaks it. This directory holds specifications of that system, the TLC
instances that check them and proofs checked by TLAPS.

Paths below are relative to the repository. `ws.rs`, `fetch.rs` and the other
Rust files are in `rust/crates/grpc-webnext/src`, the `.ts` files in
`node/packages/client/src`.

## Inventory

| Part | State | Operations | What makes it correct |
|---|---|---|---|
| WebSocket server, `ws.rs` | codec lock, `opened` flag, the stream slot (request sender and task handle), a request queue (16) per stream, an outbound queue (64) | read a frame, run a stream, write the queue, keepalive, shut down | no stream outlives its slot; requests arrive complete and in order; one status per stream, then a Close; everything ends when the peer is gone |
| Handshake gate and unary calls, `fetch.rs` | per request: deadline, bytes seen, trailers | codec negotiation, proto and JSON unary, admin reload | one status per call; a truncated answer is recognisable |
| Schema, `schema.rs`, and reflection, `reflect.rs` | the snapshot in a watch channel; pending requests, files collected | load, swap, refresh, reload, wait for the first load | requests see one whole snapshot, of one version, never an older one after a newer, and in the end the schema served |
| Annotation routes, `httprule.rs` | compiled templates | match a URL, build a message | the first rule that matches, with its bindings |
| Framing, `framing.rs`, `grpc_framing.rs`, `frame.ts` | bytes not yet parsed | deframe, trailer block | independent of how bytes are chunked |
| JSON frames, transcoding, metadata | none | convert | see the modules that use them |
| h2ts server, `h2ts.rs` | header bytes seen, bytes of a message still to come | hand the tunnel to tonic behind a size limit, or copy bytes | the limit refuses what declares too much, and nothing else |
| Fetch client, `fetch-transport.ts` | none | a unary call | a truncated answer is a failure |
| WebSocket client, `ws-transport.ts` | socket state, pending frames, `finished` | start, send, half-close, cancel, deadline, close, four socket events | one status per call, nothing after it, no socket kept |
| h2ts client, `h2ts-transport.ts` | the cached connection, `closed` | connect, unary, stream, close | every call settles; close() closes what it finds |
| Client calls, `client.ts`, `call.ts`, `promise.ts`, `context.ts` | buffer, waiter, timers, listeners | read, write, cancel | every wait resolves, every callback runs once |
| Go and Node servers, test and example servers, generated code | - | stubs and fixtures | not modelled |

The parts interact through bounded queues (read loop to stream task to backend;
stream task and read loop to writer), through task handles (the read loop aborts
the stream task), through the ordered frames of one socket, and through the
watch channel that publishes the schema.

The hard behaviours are these: the read loop waits inside a frame's handling
(for room in either queue), so what it has not read cannot cancel anything; a
stream task may be aborted at any await; a deadline may drop the response at any
await; the writer may die while others send; the peer may close, break or fall
silent between any two steps; and client and server may end the same call at
once. Where bytes are framed, a chunk may end anywhere. A unary call over Fetch
has no trailers: what is cut must not look like what is whole.

## Modules

| Module | Role |
|---|---|
| `WsServer` | the server end of one WebSocket, with an arbitrary peer and an arbitrary backend |
| `WsServerProperties` | its invariants, action properties, liveness, and the documents' claims |
| `MCWsServer` | instances of it |
| `WsClient` | one `SingleStreamConn` and the browser socket under it |
| `RpcStream` | the abstract specification: what one streaming call promises its two ends |
| `WsStream` | client and server joined by a connection that may break; the refinement of `RpcStream`; end-to-end liveness |
| `MCWsStream` | instances of it |
| `Reflect` | one load of the schema over reflection, against an external upstream |
| `Schema` | the snapshot, the refresh loop, forced reloads and the requests that wait; extends `Reflect` |
| `MCSchema` | instances of it |
| `Framing` | length-prefixed framing at both ends and the h2ts size limit, as operators on bytes |
| `HttpRule` | annotated routes: the table, matching, building a message, and a declarative reading of the same |
| `FetchServer` | one unary call at the server; extends `Framing` and `HttpRule` |
| `FetchClient` | the same call at the client; extends `FetchServer` |
| `UnaryCall` | both, over a link that may break, with their properties |
| `MCUnaryCall` | an instance of it |
| `H2tsClient` | calls on one tunnelled connection, the connection cache, the iterated stream; extends `Framing` |
| `H2tsCalls` | it and the server behind the size limit; the refinement of `RpcStream`; properties |
| `MCH2tsCalls` | an instance of it |
| `Inductions` | induction and recursion on the numbers, and what is handed on along a sequence |
| `WsServerProofs` | proofs: types, no orphaned stream, one stream in JSON; requests in order; the order of what a stream sends, its status, its Close |
| `WsStreamProofs` | proofs: the server of the composition is `WsServer`; a call over a WebSocket implements `RpcStream` |
| `SchemaProofs` | proofs: the order of `topo_sort`; types, whole snapshots, and loads that fail only when the upstream failed them or changed under them |
| `FramingProofs` | proofs about the framing operators, for every sequence of bytes |
| `UnaryCallProofs` | proofs about a unary call over Fetch, at both ends |
| `HttpRuleProofs` | proofs: matching a URL and building a message are what their declarative reading says |
| `H2tsProofs` | proofs about calls over the tunnel: types, the limit, the iterator, failures; an OK unary call is whole, a stream implements `RpcStream` |

### WsServer

Code and model correspond as follows. A step between two awaits of the code is
one action.

- `reader` is where `serve`'s loop stands: `reading` at the select, `pushing`
  and `reply_*` inside an awaited send of `handle_frame`, `joining` at
  `writer.await`. Nothing is read except in `reading`. Each branch of
  `handle_frame` is an action of its own (`Subscribe`, `SubscribeAgain`,
  `Message`, `MessageOversize`, ...). A branch that awaits starts in one action
  and completes in `PushDone` or `ReplyDone`.
- `stream` and `feeding` are the slot: the task's handle, and whether `req_tx`
  is still `Some`. `TakeStream` is `stream.take()` followed by `abort()`.
- `tpc[i]` is where task `i` (`run_stream`) stands. `TaskSends` is every awaited
  send of the task: `TaskFrame` and `AfterSend` give the frame and what follows.
  `Pumping` is the set of places inside the `pump` future, which
  `TimeoutExpires` cuts. `Cancelled` is an aborted task dropped at its next
  await, which may come late: abort is a request.
- `reqq` and `outq` are the two bounded channels. A send to a channel whose
  receiver is gone returns an error, which the code ignores everywhere except
  after a response message.
- `rx` says who holds the request receiver: the task while it resolves its
  transcoder, then the backend through the request body.
- The backend is external. It pulls, drops the body, answers, refuses, yields
  messages, and ends with a status, without one, or with a broken body. It is
  free to do these in any order and to do nothing.
- `fed` and `got` are history variables: what the peer was let send on a stream,
  and what the backend pulled.

A frame is its WebSocket type, its kind, a payload and a timeout flag; payloads
are model values, some of them too long, some without a transcoding. JSON text,
metadata and status messages are left out. In JSON any first frame opens the
stream, which `DecodeText` models, so a bare object is written as the half-close
it would be after the open. A schema that has no such method and a schema not
yet loaded give the same step (`gap`), since no property tells their codes apart.

### WsClient and WsStream

`WsClient` has one action per turn of the event loop. `CloseSocket` follows the
browser: `close()` on a connecting socket abandons it, on an open one it sends a
Close and ignores what arrives until the close event; sends after it are
discarded. The Reset of a call cancelled before the open event stays in the
pending queue and is never sent, as in the code.

In `WsStream` the frames from the client are `up`, those from the server the
part of `wire` after `cpos`. `LinkBreaks` loses what is in flight and lets the
server notice now, later, or only through its keepalive.

`RpcStream` is the contract of one call: the backend receives a prefix of what
the application sent, the application a prefix of what the backend answered;
there is one status, nothing is delivered after it, and OK comes only when every
answer was delivered. `WsStream` implements it under `requests <- sent`,
`pulled <- got[1]`, `answers <- produced[1]`, `received <- delivered`,
`outcome <- statuses`.

### Reflect and Schema

`load[p]` is the load that loader `p` (the refresh loop or a reload handler) is
running: `at` is where `load_all` stands; `files`, `asked`, `pending` are
`files`, `requested`, `pending` of the driver; `sending` is what the driver has
still to put in its request queue before it reads again; `reqq` and `respq` are
the two directions of the stream. An answer is noted whole, then its requests
are queued one by one: nothing is read in between, and if queueing fails the
service is dropped with all its files. `open` says whether
`server_reflection_info` has returned, which it does on the response headers; no
request is queued before. The v1 and v1alpha drivers are the same macro, so only
the listing keeps them apart.

The upstream's schema has versions. Each has its list of services (`Services`),
the file that defines each (`Defines`), what a file imports (`Deps`), the types it
defines (`Provides`) and refers to (`Needs`), and the answers it gives (`Answers`).
`UpstreamChanges` is a deployment of the next version, at any moment, on streams
that are open too. A file fetched carries the version its bytes are of, and its
imports are those of that version (`deps`, `file_meta` in the code). A name that
is gone is answered with an error, which is no fault of the upstream. `PoolAccepts`
is the descriptor pool: imports first, every type it is asked for defined in one
file of the set and in no other. `since` is the version the upstream served when
the load began.

`visit` is recursive as in the code, on the list of names still to be visited
and, under it, on the state that the code passes by reference (`seen`, `out`). It
is asked only of files that were fetched; that the code marks a missing one as
seen makes no difference to `out`. `topo_sort` visits the names in their order, and the
pool takes a file after its imports. `NoteAll` is the loop over the files of an
answer, `Note` one turn of it, `Ask` one turn of the loop over a file's imports.

`Schema` keeps the published `snapshot`. `Swap` is `tx.send` after a load has
built its transcoder, `LoadFails` and `LoadTimesOut` keep the old snapshot,
`ReloadAbandoned` is the client of a reload going away. A request takes the
snapshot, the bundle, or waits for the first load.

### Framing and HttpRule

A byte is a number, a length prefix is `LenBytes` of them, and all else is as in
the code: `take_block` is the client's parser of a Fetch body, `deframe` the loop
of `Deframer` and of `GrpcFrameParser`, `push` the latter with the bytes it keeps,
`InspectByte` one byte of `GrpcSizeLimit::inspect`. The code skips a message's
bytes by the chunk, the model by the byte. `HeaderStarts` says where the headers
of a stream are without a state machine, and the limit is checked against it.
Loops are recursive functions of a position or a count. `uint` and `be` read and
write a prefix, and a length `Fits` when writing and reading it gives it back. A
message of 4 GiB or more does not fit the code's four bytes; the models assume
there is none.

In `HttpRule` a template is its segments and a query its pairs, so the text of
both and percent coding are left out. A message is a function from the paths of
its set fields to the lists of their values, so that a scalar replaced and a list
extended differ. `Bad` is whatever does not parse; an array for a field that is not
a list is among it. `match_segment` is one turn of the loop of `match_segments`,
`set_all` the loops of `build_message` over variables and parameters. `Candidates`,
`Chosen` and `RouteMessage` are the reference: the bindings that some cut of the path
by their template allows (`Cuts`), the first of them, and for each field what each
source gives it (`PathPairs`, `BodyAt`, `ValuesOf`) and which source wins (`FieldOf`).

### FetchServer, FetchClient and UnaryCall

`handler.at` is where the handler of the request stands: at the wait for the
schema, reading the length (`lead`) or the whole body (`body`), awaiting the
backend (`called`), streaming a protobuf response (`pumping`) or collecting one
to transcode (`collecting`). `skip` and `saw` are `skip` and `saw_message` of the
response stream. `call` is what the backend has of the request, `reply` what it
answers. Request and response bytes move in chunks of any size.

A timer is the time it has left. `Tick` passes time for all of them, and only
while none is due: timers are punctual, and work takes no time unless a `Tick`
comes between. `held` counts how long a call with a deadline has been waited for;
it stops at `HeldBound`, one past the largest value a property speaks of.

A client that aborts breaks the link, and hyper then drops the handler or the
body, whichever it holds (`Dropped`). A request with `sdk` FALSE comes from some
other HTTP client, which sends what it likes and only reads. The callback of a
unary call may run twice (`CallBack`): a callback that throws lands in the `catch`
that calls it again. The backend is external: it answers with one of `Replies`,
in chunks, refuses, breaks off, or waits.

What is asked of `Requests` and `Replies` is this. A protobuf request of the SDK is
one block (`encodeRequestBody`), any other request any bytes. A reply to a unary call
has at most one message and one status, in its headers or its trailers; that is
gRPC's, not this code's, and a reply without a status is among them. Bytes that do
not decode (`Garbled`) do not include the empty ones, which are the default message.
`InPlace`, in `TypeOK`, ties the place of the handler to the state of the backend's
call and to the codec.

### H2tsClient and H2tsCalls

`conns` is every connection ever asked for, `current` the one the transport has
cached, `closing` those that `close()` waits for. A call awaits its connection,
issues its request (`IssuesRequest`), awaits headers, reads, and settles. An abort
while it awaits the connection is noted and takes effect with the request, as in
the code. `iter` is a `ClientReadableStream` and the application that iterates
over it: buffer, waiter, values given, and the end once given. `srv` is the
server's end of each HTTP/2 stream: the bytes fed to the limit, what passed it,
what the backend wrote and how it ended. HTTP/2 keeps bytes in order, resets
streams, and delivers trailers after the body; all of that is external.

`H2tsCalls` implements `RpcStream` for a stream under `pulled <-` the messages
that passed the limit, `received <-` those the client parsed: the same contract
that the WebSocket path implements, so both transports promise an application the
same.

## Runs

| Run | Result | Question |
|---|---|---|
| `WsServerSafety` | holds | the server's safety properties, against every peer, backend and timing |
| `WsServerLive` | holds | does everything end once the peer is gone, unless a backend that does not read holds the read loop? |
| `WsStreamRefines` | holds | do client and server implement `RpcStream`? |
| `WsStreamLive` | holds | do cancels, statuses and closes arrive? |
| `CancelStalled` | violated | does a cancel arrive when the backend has stopped reading? |
| `UpstreamError` | violated | does an OK Trailer mean the upstream ended well? |
| `SchemaLoads` | holds | are published snapshots whole, do loads fail for cause, and does the schema served get published? |
| `StaleReload` | violated | does a snapshot never give way to an older one? |
| `LazyHeaders` | violated | does a load succeed whatever the upstream's headers wait for? |
| `UnaryCalls` | holds | does a unary call over Fetch give whole answers, causes for failures, the routed request, and an end? |
| `EmptyAnswer` | violated | does a JSON call answered with the default message succeed? |
| `H2tsCalls` | holds | do calls over h2ts keep `RpcStream`, settle, and keep the size limit? |

Bounds. `MaxFrames`, `MaxStreams`, `MaxResp`, `MaxSends` bound counters; they cap
the peer's frames, the streams of a socket, the messages of a response and of a
request.

- `WsServerSafety`: three frames of every kind and both types, two streams (a
  binary peer may reset and open again), one response message, a request queue
  of 2 (a body-less route needs two places) and an outbound queue of 1. An
  outbound queue of 1 is full after any frame, so every send can be the one that
  waits. Three frames reach open, message, reset and open, reset, open, and an
  inferred codec followed by a frame of the other type. The handshakes cover an
  inferred codec, a text-locked route and a rejection.
- `WsServerLive`: queues of 1 with a keepalive, one stream; the reader, the task
  and the writer can all be waiting for each other's room.
- `WsStreamRefines`: JSON with a deadline, one request, one answer, a handshake
  accepted or rejected. One message each way suffices for loss, duplication and
  truncation, and with the open frame and the half-close there are two frames to
  reorder. The three runs of `WsStream` let the server's peer send
  the frames the client encodes (`PeerFrames <- ClientFrames`): a network that
  invents frames is `WsServerSafety`'s peer.
- `WsStreamLive`: the protobuf codec, one request, within the size limit or over
  it, no answer, queues of 1, so the trailer and the Close contend for room.
  Liveness needs the smaller instance.

- `UnaryCalls`: lengths of two bytes, so that a chunk can end inside one; a limit
  of three bytes with requests under, at and over it; deadlines of two ticks, so
  that an answer can come before, at and after half of one; requests in every
  format with a field unknown, a number that does not parse, a path that no
  template, one or two templates match, a rest of one and two parts, repeated and
  nested fields, a field given by path and query and body. Replies: two messages
  of different lengths, empty, one that does not decode, failures in the trailers
  and in the headers, and no status at all.
- `H2tsCalls`: lengths of one byte, messages of no bytes and of two, a limit of
  one, so an oversize message may follow an empty one. `Workloads` bounds what is
  sent: two requests and no answer; one request and two answers; a unary call; a
  stream and then a unary call on the same transport (`after`), for the cache,
  `close()` and a connection opened after it. Overlapping calls share only the
  connection; the pair in sequence meets it in every state it can be in.
- `SchemaLoads`: the refresh loop and one reload at once, two services, three
  files, two versions. At first `a` defines `s1`, imports `c` and `b` and refers to a
  type of `c`, which defines `s2`; after the deployment `c` is gone, its service and
  its type are in `b`, and `a` imports `b` alone. So a load that spans it may ask
  for a name that is gone, collect the old `c` next to the new `b` (one type in two
  files), or a file whose type is in neither. With a request queue of 1 and an upstream
  window of 1 the driver waits for room. The upstream answers with the file
  alone or with its imports before it, and fails once, at any step of either load.
  The files a file imports are as many as queue and
  window hold together: with more, the driver waits for room while the upstream
  waits for it to read (a hazard of the list, at its place in the code). The
  source `ReflectionOrBundled` loads as `Reflection` does and is left out.
- `StaleReload`: the same. `LazyHeaders`: no deployment.

No cfg replaces a definition and no symmetry is used. Deadlock is checked in every
run; the only states that stop are `Terminated` (of each module that has one) and
`StreamTerminated`, where all parts have ended.

### Fairness

`ServerFairness` is what tokio gives: a task that can move is polled, a socket
write completes or fails, a timer fires, an aborted task is dropped, a finished
call drops its request body. The keepalive is owed only against a silent peer,
since each frame or pong pushes its deadline away. `BackendKeepsReading` adds
that the backend goes on pulling requests or drops the body. This is an
assumption about the application behind the server, not about the code, so it
stands apart: `WsStreamLive` has it (`FairStreamSpec`) and
nothing else has. `WsServerLive` (`FairSpec`) and `CancelStalled` do without. `ShutdownCompletes` therefore names the one state that may last:
the read loop waiting for room in a queue that its backend does not empty
(`Stalled`). It says that nothing else keeps anything alive. `StreamFairness`
adds the browser's event loop. The application owes nothing: it may never send,
half-close or cancel. Nor does the backend owe an answer, and where a deadline is
needed for progress no property relies on one.

In `Schema` a load that can move does, the upstream answers what it has read, and
sleeps and timeouts end. It owes no failure, and no change. `EventuallyLoaded` and
`CatchesUp` need the refresh loop alone: no reload is owed.

In `UnaryCall` time passes, timers fire, hyper drops what a closed connection held,
and the client's event loop runs. Neither the backend nor the network owes
anything: a call without a deadline may wait for ever while its client waits. In
`H2tsCalls` an attempt to connect ends one way or the other, the browser runs its
turns, and a reset reaches the server. The server owes no answer, and the
application need not call `next()`.

`StatusDelivered` and `SocketReleased` excuse a connection that dies unnoticed
(`peer = "vanished"`): no code on either side would be told. `SocketReleased` also excuses
a socket on which the read loop has refused an oversize message (`Refused`), because
there the code does keep it (see below).

### What the violated runs show

- `CancelStalled`. `handle_frame` awaits `tx.send(msg.payload)` in the read
  loop. When the backend stops reading with a full queue, no later frame is read,
  a Reset or a Close included, and the keepalive deadline is not polled either.
  `tests/proxy_cancel.rs` says a client's cancellation must propagate.
- `UpstreamError`. `Err(_) => break` ends the pump like a normal end, and
  `read_status` reads a missing status as 0, so a broken response is an OK
  Trailer. `PROTOCOL.md` says a Trailer carries the upstream's terminal status.
- `StaleReload`. The refresh loop reads the old schema, the upstream changes, a
  forced reload reads and publishes the new one, and the refresh publishes what
  it had. `tx.send` compares nothing. The old snapshot stays until the next
  refresh, a TTL later.
- `LazyHeaders`. The drivers wait for the stream to open before they queue a
  request. An upstream that sends its response headers with its first answer
  waits for the request, so every load runs into `LOAD_TIMEOUT`.

- `EmptyAnswer`. A message with no field set is encoded in no bytes.
  `json_upstream` transcodes only what is not empty, so an OK answer with the
  default message has an empty body, where `PROTOCOL.md` has the bare JSON message.
  The client's `JSON.parse` throws and the call fails with UNKNOWN.
  `OutcomeIsBackends` makes an exception for this answer and no other.

### What else was met

These have no run of their own: no document states the contrary, or another run
shows the same cause, or a property names the case as its exception.

- The wait that `CancelStalled` shows hides the keepalive too: a peer falls silent while
  the read loop waits for room, the deadline passes unseen, and neither the
  connection, its task nor the backend's call ends. `PROTOCOL.md` says that when
  nothing arrives for the two intervals "the peer is presumed dead and the
  connection is dropped". It is the last alternative of `ShutdownCompletes`; without
  it, the run `WsServerLive` fails there.
- An oversize message in mid-stream is answered with a Reset by the read
  loop, which aborts the task and goes on reading. Nobody sends the Close that
  `PROTOCOL.md` promises "once a stream reaches its terminal frame", and the client, which
  finishes on the Reset, waits for it: the socket stays open at both ends. It is the
  last alternative of `SocketReleased`; without it, the run `WsStreamLive` fails there.
- Each service has a reflection stream of its own and each import a request of its own, and
  nothing ties the answers to one version. A deployment between two of them may leave
  files of both in a snapshot, where `schema.rs` speaks of "one consistent snapshot".
  `SnapshotCovers` claims one version only if the upstream did not change.
- An inline payload on a body-less route makes a second request.
- `fetch.rs` waits for the schema before it looks at a protobuf call, with no
  deadline, though the call needs no schema if there is none.
- The deadline of a protobuf call runs once to its headers and again to the end of
  its body. The second can end later than the deadline plus `DEADLINE_GRACE` that
  the backend was given, so what should be the backstop comes after what it backs.
  `DeadlineKept` states the bound the code keeps.
- `frame_upstream_request` checks the declared length only. What follows the
  declared bytes is passed on as it comes; `RequestIsWhole` is about the SDK's
  requests, which declare what they send.
- The h2ts connection is cached for good: when it cannot be opened, or dies, later
  calls fail with it (`CallsSettle` shows that they do fail). A call made after
  `close()` opens a new one, which nothing closes. An abort has no effect while the
  connection is being opened, though `transport.ts` says it aborts the call.
- A chunk is refused whole by the size limit, with any complete message before the
  oversize header in it.
- `statusFromResponse` reads HTTP 200 with no `grpc-status` as OK. tonic always
  sends one, so the models' server does too; a server that lost its trailers would
  be believed.
- `grpc-timeout` may be any number of 64 bits. Its sum with the grace
  (`fetch.rs:214`) and the deadline counted from now can overflow, which panics.
- Two outstanding `next()` calls share one waiter, and the first is never
  answered. Leaving a `for await` loop does not cancel the call.

A reflection stream that ends early does not skip its service, as a failing one
does: the incomplete files are kept and the pool then refuses the whole load.
`LoadFailsForCause` allows that, since the upstream failed.

A load that a deployment of the upstream overtakes may be refused by the pool, or
skip a service, with no failure of the upstream: one file imports or refers to what
another no longer has, or a name on the list is gone. `LoadFailsForCause` says that a
load fails for this or for a failure, and for nothing else. A load that is
refused leaves the old snapshot in place; one that is published with a service
missing serves it so until a later refresh. `CatchesUp` says that after the last
change and the last failure the snapshot comes to be the schema served, and stays.

One more observation has no run of its own. `ws.rs` says one WebSocket carries
exactly one stream; a binary peer that sends Subscribe, Reset, Subscribe opens a
second. The models allow it (`MaxStreams = 2`) and the safety properties hold
with it. For JSON it cannot happen, which is `JsonOpensOnce`.

## Proofs

TLAPS proves what follows for every value of the constants that satisfies the
named assumptions of the modules. TLC evaluates those on every run, and each of the
inductive invariants named here also holds on the runs' instances.

| Module | Assumed of the constants | Why |
|---|---|---|
| `WsServer` | capacities at least 1, and at least 2 where a body-less route pushes two payloads before its task exists; the empty payload is not one of `Payload` | the capacities are constants of the code, 16 and 64 |
| `WsStream` | the client's frames are among those of the server's peers, and there is a stream to open | the server takes any frame |
| `Reflect` | the imports of every version are files, `NameOrder` lists the files, an answer for a service or a file has it, and a version has what it lists and what its files import; queues hold at least 1 | the reflection protocol; the queue holds 16 |
| `Framing` | a prefix has at least one byte | it has four |
| `HttpRule` | the values have the types described above; a rest is the last segment of its template | descriptors are typed; google.api.http asks it of `**` |
| `FetchServer`, `FetchClient` | `Requests`, `Replies` and `Garbled` as described above; limits are natural numbers | `encodeRequestBody`, gRPC, protobuf |
| `H2tsClient`, `H2tsCalls` | messages, and answers, fit their prefix; there are as many answers as a workload asks for; a backend that ends without trailers does not say OK | tonic says OK in its trailers only |

### The server of a WebSocket

- `TypeCorrect`: `TypeOK`. It is inductive as it stands. It is split in four
  parts that depend on separate variables, so a step needs an argument only for
  the parts it touches. The bound on the queues is the part with content: it
  holds because a send waits for room.
- `NoOrphans`: `NoOrphanStream`, from the inductive `SlotInv`. The slot names a
  spawned task; tasks are spawned in order and only spawned ones are aborted; a
  rejected handshake has spawned none. The strengthening is needed for
  `Subscribe`: the task it starts must not carry an old abort. Most steps are
  `Quiet`: they leave the slot and start or revive nothing.
- `JsonOpensOnlyOnce`: `JsonOpensOnce`, from `OpenInv`: until `opened` no task
  exists, and in text mode only an unopened connection decodes a Subscribe.
- `EndOfRequests`: `EndOfRequestsIsLast`, from `RequestsInv`. While the request
  receiver exists, payloads accepted are payloads pulled, queued and waiting in
  the reader's hand, by count. When the backend sees the end, the queue is empty
  and there is no sender, so the last two are nothing and stay so.
- `RequestsAreInOrder`: `RequestsInOrder`, from `OrderInv`, which puts places where
  `RequestsInv` has counts (`PlacesInv`): what was pulled in a place is the
  transcoding of what was accepted in it, what waits is what was accepted in the
  place it will take. The codec decides the transcoding, so nothing may have been
  accepted before it is locked.
- `GrammarIsKept`, `StatusBeforeClose`, `OkIsTheWholeAnswer`, `StatusesAreSent`:
  `ResponseGrammar`, `CloseFollowsStatus`, `OkMeansComplete`, `StatusNotLost`, from
  one invariant. `RepliesInv` speaks of `Sent`, what is on the wire followed by
  what is queued, which the writer's steps leave alone. `ChannelInv` is the grammar
  of that sequence, `TaskInv` says what a task at a place has sent (all its answers
  at `trailer`, all but one at `message`, a status at `close`), and `WriterInv` that
  the writer stops under an open socket only when every task has ended. The proof
  steps are few, because a send appends one frame at a place that allows it
  (`MayFollow`) and everything else leaves `Sent` as it is or shortens its queue.

### A call over a WebSocket

- `ServerIsWsServer`: a behaviour of `WsStream` is one of `WsServer`. The frames the
  server reads there are those of a peer it may have, and `WsServer` lets its peer leave
  whenever the connection breaks. So every theorem above holds of the composition, and
  the invariants behind them are at hand in the next proof.
- `WsImplementsRpcStream`: every behaviour of `WsStream` satisfies `ImplementsRpcStream`,
  the safety specification of `RpcStream` under the mapping above. A step of the
  composition is one of `RpcStream` or leaves its variables alone: the application's
  steps, `BackendPulls`, `BackendYields`, and the frames the client takes. The
  invariant, `CompositionInv`, has beside the server's:
  - `FramesInv`: a frame sent is from a stream that was opened, a status other than
    a trailer is not OK, and a message's number is at most what was produced;
  - `QueueInv`, `OpeningInv`: what the client has in flight; only the open frame opens
    the stream, it comes first, and there is no second stream. Without it a second task
    could answer the same call;
  - `FlowInv`: what the server accepted is a beginning of what the application sent.
    Messages wait in `pending` until the socket is open and in `up` after that, with
    frames that carry none between them, so the invariant is the existence of a
    numbering: each place of the queue has the number of messages sent up to it
    (`Numbering`). It is owed while the server may still accept (`Reach`), since a
    message is lost with the connection or refused by its size;
  - `ReadInv`: a call that listens has delivered every message among the frames it
    has read (`Caught`); the last header or message of the stream's task before a place
    says how many that is;
  - `CallInv`: one status once the call is finished, none before, and OK only if the
    task got as far as its close.

  The hypothesis `WellFormed` excludes a message without a transcoding in JSON: the
  backend receives an empty one in its place (`ws.rs:260`, a hazard of the list), which
  is no prefix of what was sent. The run's constants satisfy it.

### The schema

- `OrderIsAccepted`: of files whose imports have no cycle, `topo_sort` places each
  after its imports, as the pool asks (`Ordered`), exactly if each import of each file is
  among them. The files may be of different versions: the imports are those of the
  files at hand. `visit` recurses along the
  imports of a graph, so that the function exists at all is a theorem (`WalkExists`):
  the walk is defined by the number of files not yet seen, then by the length of the
  list, for graphs with cycles too. `WalkInduction` is the induction it allows. `VisitVisits`
  says what a visit sees and places: files seen and not yet placed are those on the
  stack, and a visit leaves the stack as it was. `VisitOrders` adds the order:
  without a cycle, an import of a file being visited cannot be on the stack.
- `TypesHold`: `TypeOK`, with the capacity of the request queue.
- `SnapshotIsWhole`: `SnapshotCovers`, from `LoadInv` of each load. `DriverInv` speaks of
  the service being fetched: `pending` is what waits to be queued, is queued or is
  answered (`Counts`), and while the load is calm (`Calm`: the upstream has neither failed it
  nor changed since it began), whatever was asked for
  is here or awaited, and every import of a file that is here was asked for (`AsksAll`). So when nothing
  is pending everything asked for is here, whatever the order and the overlap of the
  answers. `GatherInv` speaks of the services fetched before. A change of the upstream
  ends the calm of every load and takes nothing from what else the invariant says
  (`ChangeKeeps`). It needs no hypothesis on the graph: of a cycle the pool takes nothing.
- `FailsForCause`: `LoadFailsForCause`, from the same and `OrderIsAccepted`, for an upstream
  each of whose versions, by itself, can be loaded at all (`Serves`): it lists services (a load
  of no files fails by design), its imports have no cycle (protoc refuses one), a set
  of its files that is closed under imports has the types it refers to, and no two
  files define the same type. Of files of two versions together nothing is assumed:
  such a set may be refused, and is the second cause. The run's constants satisfy it.

### Framing

`InspectIsExact`: the size limit refuses a stream exactly when a header in it
declares too much. Beside it, `InspectInChunks` (chunks make no difference to it), `LengthRoundTrip` (a
length that fits is read as written), `DeframeIs` (what a parser finds in bytes),
`ParseInChunks` (parsing in chunks is parsing the whole) and `ParseFrame` (a frame
is read as its message) are the lemmas of the proofs that follow.

These are about recursive functions, so they need induction over data. The
library's induction theorems take an operator and are of no use here; `Least` and
`Induction` state the principle for a set instead (a set of numbers that holds
each one whose predecessors it holds is all of them), `Recursion` gives that a
recursive function on the numbers exists and obeys its equation, and each lemma
defines the set it needs. `InspectIsExact` keeps, for the bytes seen so far, where the
last header starts and what is still to come of its message.

### Annotated routes

`TranscodeIsDeclared`, for every table of routes and every request: there is no route
just when no template fits the path, whatever the body; a call goes to the first
binding that fits, and each field of its message holds what `RouteMessage` says. An
array where a scalar belongs, or an unknown field, is a bad request.

- `MatchIs`: a template whose rest is last cuts a path in one way at most (`TheCut`),
  and the loop finds it. `Come` says how far the loop is after k segments. Were a rest
  allowed in the middle, the reference would find cuts that the loop, which takes
  all that is left, does not.
- `BindingsAre`, `RouteIs`: the table keeps the types and the order of the rules, so the
  first binding that matches is the first candidate.
- `SetAllIs`: pairs set one after the other bind to each field its values in order.
  `Bound` is what a field holds then; binding twice is binding the values joined
  (`BoundTwice`), because the last value of a scalar is the last of the joined ones.
- `FromBodyIs`, `BuildIs`: what the body gives, then the path, then the query for the
  fields that the path does not name (`NothingGiven`).

### A unary call over Fetch

- `UnaryTypeCorrect`: `TypeOK`, with `InPlace`.
- `DeadlineIsKept`: `DeadlineKept`, from `DeadlineInv`: the time waited and the time
  left are one deadline until the headers of a protobuf answer, and at most two
  after them, since the code sets a second timer there.
- `RequestGetsThrough`: `RequestIsWhole`, from `RequestInv`: the backend of a
  protobuf call holds a flag byte and the bytes read so far, and the length declared
  was checked.
- `AnswersAreWhole`, `OutcomeIsTheBackends`, `FailuresHaveCauses`: `AnswerIsWhole`,
  `OutcomeIsBackends`, `FailureHasCause`, from two invariants and `DeadlineInv`.
  `ResponseInv` says what a response is: the part of the answer passed on so far
  (`Pumped`), the answer (`Answered`), a refusal or a failure with its cause, or a
  protobuf answer cut after its second byte, which has no trailer (`Cut`).
  `OutcomeInv` says that an outcome is read from a response that ended, or is the
  failure of a link that broke. Between the two stands what the client makes of a
  body: a block that is not whole, or is not followed by a trailer, is no answer,
  whatever bytes the backend wrote (`DecodeWhole`, `DecodeCut`).

- `RoutesAreDeclared`: `RouteIsDeclared`, from `RouteInv`: a JSON call is made with its
  whole request (`fed`), so nothing is added to it later, and what it is made with is
  what `json_fetch` makes of the request. That is `TranscodeIsDeclared`.

`FailureHasCause` speaks of the first outcome, and of a code that is not the
backend's own.

### Calls over the tunnel

- `H2tsTypeCorrect`: `TypeOK`. That a step of one call leaves the others alone is
  proved once (`CallStays`) and used by all that follows, each invariant being one of
  a single call.
- `H2tsLimitIsExact`: `LimitIsExact`, from `LimitInv`: the limit's state is that of
  the bytes fed; with `InspectIsExact`.
- `H2tsIteratorIsWhole`: `IteratorIsWhole`, from `IteratorInv`: what was given out
  and what is buffered are what was received, and a waiter has nothing buffered.
- `H2tsFailureHasCause`: `FailureHasCause`, from `CauseInv`: a call that awaits an
  answer was not aborted; a status is that of the abort, of a dead connection or
  of the backend, which has then ended. A dead connection stays dead.
- `H2tsUnaryIsWhole`: `UnaryIsWhole`, from `CarriesInv`: the bytes written parse to
  the messages sent and nothing is left over, at both ends, and the client has
  what parses of the bytes it has read. It is `ParseInChunks` and `ParseFrame`, step
  by step.
- `H2tsImplementsRpcStream`: every behaviour satisfies `ImplementsRpcStream`, the
  safety specification of `RpcStream` under the mapping of `H2tsCalls`. Each step of the streaming
  call is a step of `RpcStream` or leaves it alone; steps of other calls stutter.
  `StreamInv` reads `CarriesInv` and `LimitInv` as prefixes, in the abstract
  specification's terms. Two hypotheses stand in the theorem because the mapping
  needs them: there is a call that is a stream, and answers differ, so that
  they can be numbered. The runs' constants satisfy both.

### What stays with TLC

Liveness, which needs fairness and `ENABLED`: `ShutdownCompletes`, `BackendReleased`,
`CancelReachesServer`, `StatusDelivered`, `SocketReleased`, `EventuallyLoaded`, `CatchesUp`,
`CallsSettle`, `NextResolves`, `CloseCloses`. Every invariant of the passing runs is a
theorem.

## Not modelled

- Contents: metadata, status messages, JSON text, protobuf bytes. No property
  here is about them.
- The invalid-method Reset of `handle_frame`: the method is the path of a URI
  that has already been parsed, so the branch is not reachable.
- A failed WebSocket upgrade: `serve` returns before it has any state.
- The ping sender's schedule: a ping matters by its failing, which ends the
  writer (`WriterFails`), and by the pong's absence (`KeepaliveExpires`).
- HTTP/2 itself and the tunnel under it, in external crates; the proxy mode of
  h2ts, which copies bytes; stubs, fixtures and generated code.
- The passthrough of native gRPC: one forwarded call without state.
- The text of templates, queries, numbers and timeouts, and percent coding.
- Listeners and deserializers that throw inside a stream, and two consumers of one
  iterator: the models assume neither.
- The promise wrappers of `promise.ts`, which pass arguments and outcomes on.
- The parts of the plan below.

## Plan

1. Schema and reflection, what is left of it: the claim that a service that cannot
   be fetched is only skipped, and the join with the unary deadline.
2. The hazards that no property covers yet, listed with their reasons in
   `PROJECT.json`, and two calls that overlap on one tunnel, on a larger machine.
