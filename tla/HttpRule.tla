------------------------------ MODULE HttpRule ------------------------------
(***************************************************************************)
(* google.api.http routes (src/rust/crates/grpc-webnext/src/httprule.rs):  *)
(* the table compiled from the descriptors, matching a URL, and building   *)
(* the request message from path, query and body. Pure operators.          *)
(*                                                                         *)
(* Templates and paths are given in segments, a query as a sequence of     *)
(* pairs. A message is a function from the field paths that are set to the *)
(* sequence of their values; a JSON body has the same form.                *)
(***************************************************************************)
EXTENDS Naturals, Sequences, SequencesExt

CONSTANTS
  Rules,     \* annotated methods in pool order: [method, rule, additional]
  Kinds,     \* field path -> "string", "number", "list" or "message"
  Numerals,  \* the strings that parse as numbers
  Bad        \* what fails to parse, or to bind: not a message

Names == Seq(STRING)   \* field paths, and the parts of a URL's path
Segment == [kind : {"literal"}, text : STRING] \cup [kind : {"single", "rest"}, field : Names]
Pattern == [verb : STRING, segments : Seq(Segment), body : STRING]
Pairs == Seq([field : Names, value : Names])

\* google.api.http: a rest ("**") is the last segment of its template.
RestIsLast(segments) ==
  \A k \in DOMAIN segments : segments[k].kind = "rest" => k = Len(segments)

ASSUME KindsAssumption ==
  /\ Kinds \in [DOMAIN Kinds -> {"string", "number", "list", "message"}]
  /\ DOMAIN Kinds \subseteq Names \ {<<>>}
ASSUME RulesAssumption ==
  /\ Rules \in Seq([method : Names, rule : Pattern, additional : Seq(Pattern)])
  /\ \A k \in DOMAIN Rules :
       /\ RestIsLast(Rules[k].rule.segments)
       /\ \A j \in DOMAIN Rules[k].additional : RestIsLast(Rules[k].additional[j].segments)

Default == <<>>   \* the message with no field set
IsMessage(m) ==
  DOMAIN m \subseteq Names \ {<<>>} /\ m \in [DOMAIN m -> Seq(Names)]

-----------------------------------------------------------------------------
(* The table                                                               *)

\* A rule without a pattern is no binding.
push_binding(rule, method) ==
  IF rule.verb = "none" THEN <<>>
  ELSE <<[verb |-> rule.verb, segments |-> rule.segments, body |-> rule.body, method |-> method]>>

\* The top rule and its additional bindings.
collect_rule(m) ==
  LET rules == <<m.rule>> \o m.additional IN
  FlattenSeq([k \in DOMAIN rules |-> push_binding(rules[k], m.method)])

bindings == FlattenSeq([k \in DOMAIN Rules |-> collect_rule(Rules[k])])

Literal(name) == [kind |-> "literal", text |-> name]
Single(field) == [kind |-> "single", field |-> field]
Rest(field) == [kind |-> "rest", field |-> field]

-----------------------------------------------------------------------------
(* Matching                                                                *)

NoMatch == [ok |-> FALSE]

\* One segment, p being how far those before it have come: i is the next part of
\* the path. A rest takes all that is left, and so leaves nothing after it.
match_segment(seg, parts, p) ==
  LET there == p.ok /\ p.i <= Len(parts)
      Take(v, next) ==
        [ok |-> TRUE, i |-> next, vars |-> Append(p.vars, [field |-> seg.field, value |-> v])]
  IN CASE seg.kind = "literal" /\ there /\ parts[p.i] = seg.text -> [p EXCEPT !.i = @ + 1]
       [] seg.kind = "single" /\ there -> Take(<<parts[p.i]>>, p.i + 1)
       [] seg.kind = "rest" /\ p.ok -> Take(SubSeq(parts, p.i, Len(parts)), Len(parts) + 1)
       [] OTHER -> [p EXCEPT !.ok = FALSE]

\* The segments in order, against the whole path.
match_segments(segments, parts) ==
  LET after[k \in 0..Len(segments)] ==
        IF k = 0 THEN [ok |-> TRUE, i |-> 1, vars |-> <<>>]
        ELSE match_segment(segments[k], parts, after[k - 1])
      whole == after[Len(segments)]
  IN IF whole.ok /\ whole.i = Len(parts) + 1 THEN [ok |-> TRUE, vars |-> whole.vars] ELSE NoMatch

Matches(b, parts) == match_segments(b.segments, parts).ok

FirstOf(hits) ==
  IF hits = {} THEN NoMatch
  ELSE [ok |-> TRUE, binding |-> bindings[CHOOSE k \in hits : \A j \in hits : k <= j]]

\* A WebSocket upgrade is a GET whatever the rule's verb; a request has its own.
match_ws(parts) == FirstOf({k \in DOMAIN bindings : Matches(bindings[k], parts)})
match_request(verb, parts) ==
  FirstOf({k \in DOMAIN bindings : bindings[k].verb = verb /\ Matches(bindings[k], parts)})

-----------------------------------------------------------------------------
(* Building the message                                                    *)

Get(msg, path) == IF path \in DOMAIN msg THEN msg[path] ELSE <<>>
Set(msg, path, values) ==
  [p \in DOMAIN msg \cup {path} |-> IF p = path THEN values ELSE msg[p]]

\* A value of one part for a scalar; a rest value is its parts joined, never a number.
Coerces(kind, v) == kind # "message" /\ (kind = "number" => Len(v) = 1 /\ v[1] \in Numerals)

\* Scalars are replaced, lists grow. Unknown fields and values that do not parse fail.
set_by_path(msg, path, v) ==
  IF msg = Bad \/ path \notin DOMAIN Kinds THEN Bad
  ELSE IF ~Coerces(Kinds[path], v) THEN Bad
  ELSE IF Kinds[path] = "list" THEN Set(msg, path, Append(Get(msg, path), v))
  ELSE Set(msg, path, <<v>>)

\* The pairs in order, but for the fields that are taken.
set_all(msg, pairs, taken) ==
  LET after[k \in 0..Len(pairs)] ==
        IF k = 0 THEN msg
        ELSE IF pairs[k].field \in taken THEN after[k - 1]
        ELSE set_by_path(after[k - 1], pairs[k].field, pairs[k].value)
  IN after[Len(pairs)]

\* Unknown fields fail, and several values for a field that is not a list.
Accepts(path, values) ==
  path \in DOMAIN Kinds /\ (Kinds[path] # "list" => Len(values) <= 1)

\* JSON read as a message that sits at a path of the request ("" body: none is read).
deserialize_message(body, at) ==
  IF body = Bad THEN Bad
  ELSE IF \E p \in DOMAIN body : ~Accepts(at \o p, body[p]) THEN Bad
  ELSE [q \in {at \o p : p \in DOMAIN body} |-> body[SubSeq(q, Len(at) + 1, Len(q))]]

FromBody(b, body) ==
  CASE b.body = "none" \/ (b.body # "*" /\ body = Default) -> Default
    [] b.body = "*" -> deserialize_message(body, <<>>)
    [] OTHER -> IF <<b.body>> \notin DOMAIN Kinds THEN Bad
                ELSE IF Kinds[<<b.body>>] # "message" THEN Bad
                ELSE deserialize_message(body, <<b.body>>)

\* Mutant of build_message: query parameters bind over what the path has bound.
build_message_query_wins(b, vars, query, body) ==
  LET overlaid == set_all(FromBody(b, body), vars, {}) IN
  IF b.body = "*" THEN overlaid ELSE set_all(overlaid, query, {})

\* Path variables overlay the body; query parameters bind unless the body is the
\* whole message, and never a field that the path has bound.
build_message(b, vars, query, body) ==
  LET overlaid == set_all(FromBody(b, body), vars, {}) IN
  IF b.body = "*" THEN overlaid
  ELSE set_all(overlaid, query, {vars[k].field : k \in DOMAIN vars})

\* A REST request: no route, a bad request, or the call it stands for.
transcode(verb, parts, query, body) ==
  LET route == match_request(verb, parts) IN
  IF ~route.ok THEN [is |-> "none"]
  ELSE LET b == route.binding
           message == build_message(b, match_segments(b.segments, parts).vars, query, body)
       IN IF message = Bad THEN [is |-> "bad"]
          ELSE [is |-> "call", method |-> b.method, message |-> message]

-----------------------------------------------------------------------------
(* The same, said declaratively: what the comments of google.api.http and  *)
(* PROTOCOL.md (REST binding precedence) ask for.                          *)

\* Cuts of the path that give each segment its part: one component to a literal or
\* a single, any number to a rest.
Cuts(segments, parts) ==
  {cut \in [0..Len(segments) -> 0..Len(parts)] :
     /\ cut[0] = 0 /\ cut[Len(segments)] = Len(parts)
     /\ \A k \in DOMAIN segments :
          LET seg == segments[k] IN
          /\ cut[k - 1] <= cut[k]
          /\ seg.kind # "rest" => cut[k] = cut[k - 1] + 1
          /\ seg.kind = "literal" => parts[cut[k]] = seg.text}

\* The bindings a request could take, and the one it should: the first.
Candidates(verb, parts) ==
  {k \in DOMAIN bindings : bindings[k].verb = verb /\ Cuts(bindings[k].segments, parts) # {}}
Chosen(verb, parts) ==
  LET all == Candidates(verb, parts) IN bindings[CHOOSE k \in all : \A j \in all : k <= j]

\* What the path gives to the variables of a template, in order.
PathPairs(segments, parts) ==
  LET cut == CHOOSE c \in Cuts(segments, parts) : TRUE
      Given(k) ==
        IF segments[k].kind = "literal" THEN <<>>
        ELSE <<[field |-> segments[k].field, value |-> SubSeq(parts, cut[k - 1] + 1, cut[k])]>>
  IN FlattenSeq([k \in DOMAIN segments |-> Given(k)])

\* What the body gives to the field at a path.
BodyAt(b, body, path) ==
  CASE b.body = "none" -> <<>>
    [] b.body = "*" -> Get(body, path)
    [] OTHER -> IF Len(path) > 1 /\ path[1] = b.body THEN Get(body, Tail(path)) ELSE <<>>

\* The values a source gives a field, in order.
ValuesOf(pairs, path) ==
  FlattenSeq([k \in DOMAIN pairs |-> IF pairs[k].field = path THEN <<pairs[k].value>> ELSE <<>>])
LastOf(values) == IF values = <<>> THEN <<>> ELSE <<values[Len(values)]>>

\* The path's value wins over the query's, the query's over the body's; lists take all.
FieldOf(path, fromBody, fromPath, fromQuery) ==
  LET q == IF fromPath = <<>> THEN fromQuery ELSE <<>> IN
  IF Kinds[path] = "list" THEN fromBody \o fromPath \o q
  ELSE LastOf(fromBody \o fromPath \o q)

RouteMessage(b, parts, query, body) ==
  [path \in DOMAIN Kinds |->
     FieldOf(path, BodyAt(b, body, path), ValuesOf(PathPairs(b.segments, parts), path),
             IF b.body = "*" THEN <<>> ELSE ValuesOf(query, path))]
=============================================================================
