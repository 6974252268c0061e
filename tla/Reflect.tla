------------------------------ MODULE Reflect -------------------------------
(***************************************************************************)
(* The reflection loader of the proxy                                      *)
(* (src/rust/crates/grpc-webnext/src/reflect.rs): load_all lists the       *)
(* upstream's services and fetches each one's file closure over a stream   *)
(* of its own. Several loads may run at once, each on its own streams.     *)
(* The upstream is external: it answers in order, may change what it       *)
(* serves at any time (its services, its files, what a file imports,       *)
(* defines and refers to), and may fail an answer or end a stream.         *)
(***************************************************************************)
EXTENDS Naturals, Sequences, SequencesExt, FiniteSets

CONSTANTS
  Loaders,     \* the processes that may run a load
  Symbols,     \* names of services
  Files,       \* names of proto files
  \* Of each version of the upstream's schema:
  Services,    \* sequence of the services it lists
  Defines,     \* the file that defines a service
  Deps,        \* sequence of the files a file imports
  Provides,    \* the types a file defines
  Needs,       \* the types of other files that a file refers to
  Answers,     \* what may answer for each service or file it has: sequences of files
  NameOrder,   \* the files in the order of their names
  ReqCap,      \* capacity of the request queue (16 in the code)
  Window,      \* answers the connection takes before it is read (flow control)
  HeadersFirst,\* the upstream opens a stream before it has read a request
  MaxVersion,  \* bound: changes of what the upstream serves
  MaxFaults    \* bound: failures of the upstream

Versions == 0 .. MaxVersion
Names == Symbols \cup Files

\* The file a request is about.
FileOf(v, n) == IF n \in Symbols THEN Defines[v][n] ELSE n

ASSUME GraphAssumption ==
  /\ Symbols \cap Files = {}
  /\ Services \in [Versions -> Seq(Symbols)] /\ Defines \in [Versions -> [Symbols -> Files]]
  /\ Deps \in [Versions -> [Files -> Seq(Files)]]
  /\ NameOrder \in Seq(Files) /\ ToSet(NameOrder) = Files
  /\ \A v \in Versions : \A n \in DOMAIN Answers[v] : \A a \in Answers[v][n] :
       a \in Seq(Files) /\ FileOf(v, n) \in ToSet(a)

\* As long as it does not change, the upstream has what it lists and what its files import.
ASSUME AnswersAssumption ==
  \A v \in Versions :
    /\ ToSet(Services[v]) \subseteq DOMAIN Answers[v]
    /\ \A n \in DOMAIN Answers[v] : \A a \in Answers[v][n] : \A f \in ToSet(a) :
         ToSet(Deps[v][f]) \subseteq DOMAIN Answers[v]
ASSUME ReflectBounds ==
  /\ HeadersFirst \in BOOLEAN /\ ReqCap \in Nat \ {0} /\ Window \in Nat \ {0}
  /\ MaxVersion \in Nat /\ MaxFaults \in Nat

VARIABLES
  version,  \* of the schema the upstream serves
  faults,   \* failures so far
  load      \* the load each loader is running

reflectVars == <<version, faults, load>>

\* A load: where it stands, the services still to fetch, the files of the
\* services fetched, each with the version its bytes are of; whether its stream
\* is open; then the driver of the current service: files, dependencies asked
\* for, answers awaited, requests not yet queued, both ends of the stream; and,
\* for the properties, whether the upstream failed the load, and the version the
\* upstream served when it began.
NoLoad ==
  [at |-> "off", left |-> <<>>, all |-> <<>>, open |-> FALSE,
   files |-> <<>>, asked |-> {}, pending |-> 0, sending |-> <<>>, reqq |-> <<>>, respq |-> <<>>,
   faulted |-> FALSE, since |-> 0]

Update(p, l) == load' = [load EXCEPT ![p] = l] /\ UNCHANGED <<version, faults>>

\* The upstream fails load p, which is left as l.
Fault(p, l) ==
  /\ faults < MaxFaults
  /\ faults' = faults + 1
  /\ load' = [load EXCEPT ![p] = [l EXCEPT !.faulted = TRUE]]
  /\ UNCHANGED version

-----------------------------------------------------------------------------
(* topo_sort and the descriptor pool                                       *)

\* What a file fetched imports: its bytes say so.
deps(files, f) == Deps[files[f]][f]

VisitState == [seen : SUBSET Files, out : Seq(Files)]
Place(st, f) == [st EXCEPT !.out = Append(@, f)]

\* Mutant of visit: a file is placed before the files it imports.
visitPreorder(files) ==
  LET v[todo \in Seq(Files)] == [st \in VisitState |->
        IF todo = <<>> THEN st
        ELSE LET f == Head(todo) IN
             v[Tail(todo)][IF f \in st.seen \/ f \notin DOMAIN files THEN st
                           ELSE v[deps(files, f)][Place([st EXCEPT !.seen = @ \cup {f}], f)]]]
  IN v

\* Depth first, each file once, after those of its imports that were fetched.
visit(files) ==
  LET v[todo \in Seq(Files)] == [st \in VisitState |->
        IF todo = <<>> THEN st
        ELSE LET f == Head(todo) IN
             v[Tail(todo)][IF f \in st.seen \/ f \notin DOMAIN files THEN st
                           ELSE Place(v[deps(files, f)][[st EXCEPT !.seen = @ \cup {f}]], f)]]
  IN v

topo_sort(files) == visit(files)[NameOrder][[seen |-> {}, out |-> <<>>]].out

\* The descriptor pool takes files one by one, each after what it imports; every
\* type a file refers to is defined in one of them, and in one only.
Ordered(files, order) ==
  \A k \in DOMAIN order : ToSet(deps(files, order[k])) \subseteq {order[j] : j \in 1 .. k - 1}
Resolves(files) ==
  LET provides(f) == Provides[files[f]][f] IN
  /\ \A f \in DOMAIN files : Needs[files[f]][f] \subseteq UNION {provides(g) : g \in DOMAIN files}
  /\ \A f, g \in DOMAIN files : f # g => provides(f) \cap provides(g) = {}
PoolAccepts(files) == Ordered(files, topo_sort(files)) /\ Resolves(files)

-----------------------------------------------------------------------------
(* load_all: list, fetch each service, build                               *)

Listed(p) ==
  /\ load[p].at \in {"list", "list_alpha"} /\ load[p].open
  /\ Update(p, [load[p] EXCEPT !.at = "next", !.left = Services[version], !.open = FALSE])

\* v1 answers UNIMPLEMENTED: v1alpha is tried.
FallsBack(p) ==
  /\ load[p].at = "list"
  /\ Update(p, [load[p] EXCEPT !.at = "list_alpha", !.open = FALSE])

\* The listing fails, and the load with it.
ListFails(p) ==
  /\ load[p].at \in {"list", "list_alpha"}
  /\ Fault(p, [load[p] EXCEPT !.at = "failed"])

\* The call of the next service is made; its request is queued once it is open.
FetchStarts(p) ==
  /\ load[p].at = "next" /\ load[p].left # <<>>
  /\ Update(p, [load[p] EXCEPT !.at = "fetch", !.pending = 1,
                               !.sending = <<Head(load[p].left)>>])

\* Mutant of Leave: the files of a service replace those of the ones before.
LeaveReplaces(l, kept) ==
  [l EXCEPT !.at = "next", !.left = Tail(@), !.all = kept, !.open = FALSE,
            !.files = <<>>, !.asked = {}, !.pending = 0, !.sending = <<>>, !.reqq = <<>>, !.respq = <<>>]

\* Files are added to a map, and replace those of their names.
extend(files, more) ==
  [f \in DOMAIN files \cup DOMAIN more |-> IF f \in DOMAIN more THEN more[f] ELSE files[f]]

\* The driver is left, with the service's files or with the service skipped.
Leave(l, kept) ==
  [l EXCEPT !.at = "next", !.left = Tail(@), !.all = extend(@, kept), !.open = FALSE,
            !.files = <<>>, !.asked = {}, !.pending = 0, !.sending = <<>>, !.reqq = <<>>, !.respq = <<>>]

\* An import that is neither here nor asked for is asked for.
Ask(l, d) ==
  IF d \in DOMAIN l.files \/ d \in l.asked THEN l
  ELSE [l EXCEPT !.asked = @ \cup {d}, !.sending = Append(@, d), !.pending = @ + 1]

\* A file of an answer, of version v, is noted after its imports are asked for.
Note(l, f, v) ==
  LET asks[k \in 0 .. Len(Deps[v][f])] == IF k = 0 THEN l ELSE Ask(asks[k - 1], Deps[v][f][k])
  IN [asks[Len(Deps[v][f])] EXCEPT !.files = extend(@, [g \in {f} |-> v])]

\* The files of an answer are noted in order.
NoteAll(l, files, v) ==
  LET notes[k \in 0 .. Len(files)] == IF k = 0 THEN l ELSE Note(notes[k - 1], files[k], v)
  IN notes[Len(files)]

\* inbound.message() yields an answer.
TakeAnswer(p) ==
  /\ load[p].at = "fetch" /\ load[p].pending > 0 /\ load[p].sending = <<>>
  /\ load[p].respq # <<>>
  /\ LET answer == Head(load[p].respq)
         taken == [load[p] EXCEPT !.pending = @ - 1, !.respq = Tail(@)]
     IN Update(p,
          CASE answer.kind = "files" -> NoteAll(taken, answer.files, answer.ver)
            [] answer.kind = "other" -> taken
            [] answer.kind = "error" -> Leave(load[p], <<>>)
            [] answer.kind = "end"   -> Leave(load[p], load[p].files))

Ended(p) == \E k \in DOMAIN load[p].respq : load[p].respq[k].kind = "end"

\* Mutant of SendNext: a request is queued without waiting for room.
SendNextUnbounded(p) ==
  /\ load[p].at = "fetch" /\ load[p].open /\ load[p].sending # <<>>
  /\ Update(p, [load[p] EXCEPT !.sending = Tail(@), !.reqq = Append(@, Head(load[p].sending))])

\* A request is queued; on a stream that has ended, that may fail.
SendNext(p) ==
  /\ load[p].at = "fetch" /\ load[p].open /\ load[p].sending # <<>>
  /\ \/ /\ Len(load[p].reqq) < ReqCap
        /\ Update(p, [load[p] EXCEPT !.sending = Tail(@), !.reqq = Append(@, Head(load[p].sending))])
     \/ Ended(p) /\ Update(p, Leave(load[p], <<>>))

Fetched(p) ==
  /\ load[p].at = "fetch" /\ load[p].pending = 0 /\ load[p].sending = <<>>
  /\ Update(p, Leave(load[p], load[p].files))

\* Every service is done: the load yields a transcoder, or fails for want of
\* files or because the pool does not take them.
Complete(p) == load[p].at = "next" /\ load[p].left = <<>>
Builds(p) == load[p].all # <<>> /\ PoolAccepts(load[p].all)

BuildFails(p) ==
  /\ Complete(p) /\ ~Builds(p)
  /\ Update(p, [load[p] EXCEPT !.at = "failed"])

-----------------------------------------------------------------------------
(* The upstream (external)                                                 *)

\* Its response headers arrive, at once or with its first answer.
UpstreamOpens(p) ==
  /\ load[p].at \in {"list", "list_alpha", "fetch"} /\ ~load[p].open
  /\ HeadersFirst \/ load[p].reqq # <<>>
  /\ Update(p, [load[p] EXCEPT !.open = TRUE])

Reading(p) ==
  /\ load[p].at = "fetch" /\ load[p].reqq # <<>>
  /\ Len(load[p].respq) < Window /\ ~Ended(p)

Answered(p, answer) ==
  [load[p] EXCEPT !.reqq = Tail(@), !.respq = Append(@, answer)]

\* It answers from the schema it has now: with the file, or that it has none.
UpstreamAnswers(p) ==
  /\ Reading(p)
  /\ LET n == Head(load[p].reqq) IN
     \/ /\ n \in DOMAIN Answers[version]
        /\ \E a \in Answers[version][n] :
             Update(p, Answered(p, [kind |-> "files", files |-> a, ver |-> version]))
     \/ /\ n \notin DOMAIN Answers[version]
        /\ Update(p, Answered(p, [kind |-> "error", files |-> <<>>, ver |-> version]))

\* The call of a service fails.
UpstreamRefuses(p) ==
  /\ load[p].at = "fetch" /\ ~load[p].open
  /\ Fault(p, Leave(load[p], <<>>))

\* It fails the request, answers something else, or ends the stream.
UpstreamFails(p) ==
  /\ Reading(p)
  /\ \E kind \in {"error", "other", "end"} :
       Fault(p, Answered(p, [kind |-> kind, files |-> <<>>, ver |-> version]))

UpstreamStep(p) ==
  UpstreamOpens(p) \/ UpstreamRefuses(p) \/ UpstreamAnswers(p) \/ UpstreamFails(p)

\* It is deployed anew: from now on it answers by the next version of its schema,
\* on the streams that are open too.
UpstreamChanges ==
  /\ version < MaxVersion
  /\ version' = version + 1
  /\ UNCHANGED <<faults, load>>

LoadStep(p) ==
  \/ Listed(p) \/ FallsBack(p) \/ FetchStarts(p)
  \/ TakeAnswer(p) \/ SendNext(p) \/ Fetched(p) \/ BuildFails(p)
=============================================================================
