----------------------------- MODULE MCUnaryCall -----------------------------
(***************************************************************************)
(* Instances of UnaryCall: a schema with overlapping routes, and requests  *)
(* of each kind, well formed and not.                                      *)
(***************************************************************************)
EXTENDS UnaryCall

MCLenBytes == 2
MCKinds == (<<"id">> :> "string") @@ (<<"n">> :> "number") @@ (<<"tags">> :> "list")
           @@ (<<"user">> :> "message") @@ (<<"user", "name">> :> "string")
MCNumerals == {"1", "7"}

Rule(verb, segments, body) == [verb |-> verb, segments |-> segments, body |-> body]
User == <<Literal("v1"), Literal("users"), Single(<<"id">>)>>
Get_ == <<"Users", "Get">>
Put_ == <<"Users", "Put">>
List_ == <<"Files", "List">>
MCRules ==
  << [method |-> Get_, rule |-> Rule("GET", User, "none"),
      additional |-> <<Rule("none", <<>>, "none")>>],
     [method |-> Put_, rule |-> Rule("POST", <<Literal("v1"), Literal("users")>>, "*"),
      additional |-> <<Rule("PUT", User, "user"), Rule("POST", User, "*")>>],
     [method |-> List_,
      rule |-> Rule("GET", <<Literal("v1"), Single(<<"tags">>), Rest(<<"id">>)>>, "none"),
      additional |-> <<>>] >>
MCKnownMethods == {Get_, Put_, List_}

Param(field, v) == [field |-> <<field>>, value |-> <<v>>]
Request(sdk, ct, verb, parts, query, json, bytes, timeout) ==
  [sdk |-> sdk, ct |-> ct, verb |-> verb, parts |-> parts, query |-> query, json |-> json,
   bytes |-> bytes, timeout |-> timeout]
ProtoCall(sdk, parts, bytes, timeout) ==
  Request(sdk, "proto", "POST", parts, <<>>, Default, bytes, timeout)
JsonCall(parts, json, bytes, timeout) ==
  Request(TRUE, "json", "POST", parts, <<>>, json, bytes, timeout)
Rest_(verb, parts, query, json, bytes) ==
  Request(FALSE, "plain", verb, parts, query, json, bytes, 0)

Text == <<0, 0>>   \* the bytes of a JSON body count by their number only
Name == <<"name">> :> <<<<"ann">>>>
MCRequests ==
  { ProtoCall(TRUE, Get_, block(<<7, 8>>), 2), ProtoCall(TRUE, Get_, block(<<>>), 0),
    ProtoCall(TRUE, Get_, block(<<1, 2, 3, 4>>), 0), ProtoCall(FALSE, Get_, <<0>>, 0),
    ProtoCall(FALSE, Get_, block(<<7>>), 2),
    ProtoCall(FALSE, <<"v1", "users", "7">>, block(<<7>>), 0),
    JsonCall(Get_, <<"id">> :> <<<<"7">>>>, <<0, 0, 0>>, 2), JsonCall(Get_, Default, <<>>, 0),
    JsonCall(Get_, <<"id">> :> <<<<"7">>, <<"8">>>>, Text, 0),
    JsonCall(<<"Users", "Gone">>, Default, Text, 0), JsonCall(Get_, Bad, Text, 0),
    JsonCall(Get_, <<"age">> :> <<<<"7">>>>, Text, 0), JsonCall(Get_, Default, <<0, 0, 0, 0>>, 0),
    Rest_("GET", <<"v1", "users", "7">>,
          <<Param("tags", "a"), Param("n", "1"), Param("tags", "b"), Param("id", "8"), Param("n", "7")>>,
          Default, <<>>),
    Rest_("GET", <<"v1", "users", "7">>, <<Param("n", "x")>>, Default, <<>>),
    Rest_("GET", <<"v1", "users", "7">>, <<Param("user", "x")>>, Default, <<>>),
    Rest_("GET", <<"v1", "a", "b", "c">>, <<Param("tags", "z")>>, Default, <<>>),
    Rest_("GET", <<"v1", "a">>, <<>>, Default, <<>>),
    Rest_("PUT", <<"v1", "users", "7">>, <<Param("n", "1")>>, Name, Text),
    Rest_("POST", <<"v1", "users">>, <<Param("n", "1")>>,
          (<<"id">> :> <<<<"8">>>>) @@ (<<"tags">> :> <<<<"a">>, <<"b">>>>), Text),
    Rest_("POST", <<"v1", "users", "7">>, <<>>, <<"id">> :> <<<<"8">>>>, Text),
    Rest_("PUT", <<"v1", "users", "7">>, <<>>, Bad, Text),
    Rest_("PUT", <<"v1", "a", "7">>, <<>>, Default, <<>>),
    Request(FALSE, "other", "POST", Get_, <<>>, Default, <<>>, 0) }

Reply(headers, messages, trailers) ==
  [headers |-> headers, messages |-> messages, trailers |-> trailers]
MCReplies ==
  { Reply(Unset, <<<<7, 8>>>>, OK), Reply(Unset, <<<<>>>>, OK), Reply(Unset, <<<<7, 8, 9>>>>, Unset),
    Reply(Unset, <<<<6>>>>, OK), Reply(Unset, <<<<7>>>>, 5), Reply(RESOURCE_EXHAUSTED, <<>>, Unset) }
MCGarbled == {<<6>>}
=============================================================================
