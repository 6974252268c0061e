------------------------------- MODULE Schema -------------------------------
(***************************************************************************)
(* The descriptor source of the +json path                                 *)
(* (src/rust/crates/grpc-webnext/src/schema.rs): the snapshot in its watch *)
(* channel, the background refresh, forced reloads, and the requests that  *)
(* take a transcoder from it. Loads are those of Reflect.                  *)
(***************************************************************************)
EXTENDS Reflect

CONSTANTS
  Sources,   \* descriptor sources to consider
  Refresh,   \* the refresh loop, one of Loaders; the others are reload handlers
  Requests   \* requests that need a transcoder

ASSUME SchemaAssumption ==
  /\ Sources \subseteq {"None", "Bundled", "Reflection", "ReflectionOrBundled"}
  /\ Refresh \in Loaders

VARIABLES
  source,    \* the configured source
  snapshot,  \* what the watch channel holds: files with their versions; when the load
             \* they are from began, and whether it was steady
  done,      \* what each reload came to
  request    \* where each request is, or the transcoder it has

schemaVars == <<source, snapshot, done, request>>
vars == <<reflectVars, schemaVars>>

NoSnapshot == [files |-> <<>>, since |-> 0, steady |-> FALSE]
Loaded == snapshot # NoSnapshot
Reflects == source \in {"Reflection", "ReflectionOrBundled"}
Reloads == Loaders \ {Refresh}

-----------------------------------------------------------------------------
(* load_and_swap, in the refresh loop and in a reload                      *)

Begins(p) ==
  load' = [load EXCEPT ![p] = [NoLoad EXCEPT !.at = "list", !.since = version]]

\* refresh_loop: at start, then each time its sleep is over.
RefreshBegins ==
  /\ Reflects
  /\ load[Refresh].at = "off"
  /\ Begins(Refresh)
  /\ UNCHANGED <<version, faults, schemaVars>>

\* reload(): refused when nothing can be reloaded.
ReloadBegins(p) ==
  /\ p \in Reloads /\ done[p] = "none" /\ load[p].at = "off"
  /\ IF Reflects THEN Begins(p) /\ UNCHANGED done
     ELSE done' = [done EXCEPT ![p] = "refused"] /\ UNCHANGED load
  /\ UNCHANGED <<version, faults, source, snapshot, request>>

Ends(p, outcome) ==
  /\ load' = [load EXCEPT ![p] = NoLoad]
  /\ done' = [r \in Reloads |-> IF r = p THEN outcome ELSE done[r]]
  /\ UNCHANGED <<version, source, request>>

\* The upstream has neither failed the load nor changed since it began.
Steady(p) == ~load[p].faulted /\ load[p].since = version

\* Mutant of Swap: a snapshot that is there is not replaced.
SwapFirst(p) ==
  /\ Complete(p) /\ Builds(p)
  /\ snapshot' = IF Loaded THEN snapshot
                 ELSE [files |-> load[p].all, since |-> load[p].since, steady |-> Steady(p)]
  /\ Ends(p, "ok")
  /\ UNCHANGED faults

\* tx.send: the load's transcoder replaces whatever the channel holds.
Swap(p) ==
  /\ Complete(p) /\ Builds(p)
  /\ snapshot' = [files |-> load[p].all, since |-> load[p].since, steady |-> Steady(p)]
  /\ Ends(p, "ok")
  /\ UNCHANGED faults

\* Mutant of LoadFails: the refresh loop returns when a load fails.
LoadFailsForGood(p) ==
  /\ p # Refresh /\ load[p].at = "failed"
  /\ Ends(p, "failed")
  /\ UNCHANGED <<snapshot, faults>>

LoadFails(p) ==
  /\ load[p].at = "failed"
  /\ Ends(p, "failed")
  /\ UNCHANGED <<snapshot, faults>>

\* LOAD_TIMEOUT passed: on a slow upstream, a fault of it, or on a stream that
\* waits to be opened while the upstream waits for its request.
NeverOpens(p) ==
  /\ load[p].at \in {"list", "list_alpha", "fetch"}
  /\ ~load[p].open /\ ~HeadersFirst

LoadTimesOut(p) ==
  /\ load[p].at \notin {"off", "failed"}
  /\ faults' = faults + (IF NeverOpens(p) THEN 0 ELSE 1) /\ faults' <= MaxFaults
  /\ Ends(p, "failed")
  /\ UNCHANGED snapshot

\* The client of a reload goes away, and the handler with it.
ReloadAbandoned(p) ==
  /\ p \in Reloads /\ load[p].at # "off"
  /\ Ends(p, "abandoned")
  /\ UNCHANGED <<snapshot, faults>>

-----------------------------------------------------------------------------
(* transcoder_any                                                          *)

Takes(r, t) ==
  /\ request' = [request EXCEPT ![r] = t]
  /\ UNCHANGED <<reflectVars, source, snapshot, done>>

RequestArrives(r) ==
  /\ request[r] = "idle"
  /\ CASE source = "None"    -> Takes(r, "unimplemented")
       [] source = "Bundled" -> Takes(r, "bundle")
       [] source = "Reflection" -> Takes(r, IF Loaded THEN "snapshot" ELSE "waiting")
       [] source = "ReflectionOrBundled" -> Takes(r, IF Loaded THEN "snapshot" ELSE "bundle")

RequestWakes(r) ==
  /\ request[r] = "waiting" /\ Loaded
  /\ Takes(r, "snapshot")

\* FIRST_LOAD_WAIT passed (timeout polls the channel before the clock).
RequestGivesUp(r) ==
  /\ request[r] = "waiting" /\ ~Loaded
  /\ Takes(r, "unavailable")

-----------------------------------------------------------------------------
Init ==
  /\ source \in Sources
  /\ version = 0 /\ faults = 0
  /\ load = [p \in Loaders |-> NoLoad]
  /\ snapshot = NoSnapshot
  /\ done = [p \in Reloads |-> "none"]
  /\ request = [r \in Requests |-> "idle"]

Loading(p) ==
  \/ (LoadStep(p) \/ ListFails(p) \/ UpstreamStep(p)) /\ UNCHANGED schemaVars
  \/ Swap(p) \/ LoadFails(p) \/ LoadTimesOut(p)
  \/ ReloadBegins(p) \/ ReloadAbandoned(p)

\* A source that is never reloaded, all requests answered.
Settled ==
  /\ ~Reflects /\ version = MaxVersion
  /\ \A p \in Reloads : done[p] # "none"
  /\ \A r \in Requests : request[r] \notin {"idle", "waiting"}
  /\ UNCHANGED vars

Next ==
  \/ RefreshBegins \/ Settled
  \/ \E p \in Loaders : Loading(p)
  \/ UpstreamChanges /\ UNCHANGED schemaVars
  \/ \E r \in Requests : RequestArrives(r) \/ RequestWakes(r) \/ RequestGivesUp(r)

Spec == Init /\ [][Next]_vars

\* A load that can move does, an upstream that is asked answers unless it fails,
\* sleeps and waits end, and so does a load whose stream cannot open. Failures
\* are not owed, and a change of schema neither.
Fairness ==
  /\ WF_vars(RefreshBegins)
  /\ \A p \in Loaders :
       /\ WF_vars((LoadStep(p) /\ UNCHANGED schemaVars) \/ Swap(p) \/ LoadFails(p))
       /\ WF_vars((UpstreamOpens(p) \/ UpstreamAnswers(p)) /\ UNCHANGED schemaVars)
       /\ WF_vars(NeverOpens(p) /\ LoadTimesOut(p))
  /\ \A r \in Requests : WF_vars(RequestWakes(r) \/ RequestGivesUp(r))
FairSpec == Spec /\ Fairness

-----------------------------------------------------------------------------
(* Properties                                                              *)

FileMap == UNION {[S -> Versions] : S \in SUBSET Files}
\* Every variable keeps its type, and the request queue of a driver its capacity.
TypeOK ==
  /\ source \in Sources
  /\ version \in Versions /\ faults \in 0 .. MaxFaults
  /\ \A p \in Loaders : LET l == load[p] IN
       /\ l.at \in {"off", "list", "list_alpha", "next", "fetch", "failed"}
       /\ l.all \in FileMap /\ l.files \in FileMap
       /\ l.asked \subseteq Files /\ l.pending \in Nat
       /\ l.sending \in Seq(Names) /\ l.reqq \in Seq(Names)
       /\ Len(l.reqq) <= ReqCap /\ Len(l.respq) <= Window
  /\ snapshot.files \in FileMap
  /\ done \in [Reloads -> {"none", "ok", "failed", "refused", "abandoned"}]
  /\ request \in [Requests -> {"idle", "waiting", "snapshot", "bundle", "unimplemented", "unavailable"}]

\* A load fails only for cause: the upstream failed it, or changed its schema while
\* it ran, so that the files come from two versions, which the descriptor pool may
\* refuse, or that what one version names is gone in the next. Otherwise the driver
\* (reflection_driver) asks for every import and waits for every answer, and
\* topo_sort orders what it got so that the pool takes it.
LoadFailsForCause ==
  \A p \in Loaders : load[p].at = "failed" => ~Steady(p)

\* The snapshot that load_and_swap publishes is whole: no file lacks an import; and
\* if the upstream neither failed nor changed while it was loaded, every service is
\* there and every file is of the one version.
SnapshotCovers ==
  Loaded =>
    /\ \A f \in DOMAIN snapshot.files : ToSet(deps(snapshot.files, f)) \subseteq DOMAIN snapshot.files
    /\ snapshot.steady =>
         LET v == snapshot.since IN
         /\ \A k \in DOMAIN Services[v] : Defines[v][Services[v][k]] \in DOMAIN snapshot.files
         /\ \A f \in DOMAIN snapshot.files : snapshot.files[f] = v

\* refresh_loop keeps trying: when the upstream's failures are over, a snapshot
\* is loaded. No queue on the way may hold the load up for good.
EventuallyLoaded == Reflects ~> Loaded

\* refresh_loop catches up: once the upstream has failed and changed for the last
\* time, the snapshot comes to be the schema it serves, every service and each file,
\* and stays so, whatever older or mixed load a reload has swapped in meanwhile.
UpToDate ==
  /\ \A k \in DOMAIN Services[version] :
       Defines[version][Services[version][k]] \in DOMAIN snapshot.files
  /\ \A f \in DOMAIN snapshot.files : snapshot.files[f] = version
CatchesUp == Reflects => <>[]UpToDate

\* schema.rs, of the watch channel: "readers see the latest atomically". A swap
\* (tx.send) puts no file in place of a newer one.
NeverOlder ==
  [][\A f \in DOMAIN snapshot.files \cap DOMAIN snapshot'.files :
       snapshot'.files[f] >= snapshot.files[f]]_vars
=============================================================================
