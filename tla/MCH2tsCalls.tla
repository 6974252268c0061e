----------------------------- MODULE MCH2tsCalls -----------------------------
(* An instance of H2tsCalls: a stream and a unary call on one transport.   *)
EXTENDS H2tsCalls

MCMessages == {<<>>, <<1, 2>>}
Work(sends, answers, after) == [sends |-> sends, answers |-> answers, after |-> after]
MCWorkloads == { "stream" :> Work(2, 0, {}), "stream" :> Work(1, 2, {}), "unary" :> Work(1, 1, {}),
  ("stream" :> Work(0, 0, {})) @@ ("unary" :> Work(0, 0, {"stream"})) }
MCAnswers == <<<<7>>, <<>>>>
End(trailers, headers, http) == [trailers |-> trailers, headers |-> headers, http |-> http]
MCEndings == {End(OK, Unset, 200), End(RESOURCE_EXHAUSTED, Unset, 200), End(Unset, 5, 200),
              End(Unset, Unset, 503)}
=============================================================================
