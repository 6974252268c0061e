----------------------------- MODULE MCWsServer -----------------------------
(* Small instances of WsServer for TLC. Payloads are model values: one the *)
(* server takes, one that is too big, one with no transcoding.             *)
EXTENDS WsServerProperties

CONSTANTS p1, big, bad, none

Accepted(c, r) == [codec |-> c, route |-> r, reject |-> "none"]

\* A codec inferred from the first frame, an annotated route, a rejection.
AnyHandshake ==
  {Accepted("none", "method"), Accepted("text", "nobody"),
   [codec |-> "none", route |-> "method", reject |-> "UNIMPLEMENTED"]}
BinHandshake == {Accepted("bin", "method")}

\* What peers send. Binary peers, who can open a second stream, open with
\* neither a payload nor a timeout; JSON peers with both or either.
BinFrames ==
  {f \in Frames : f.ty = "bin" /\ ~f.t /\ f.p # bad /\ (f.kind = "Subscribe" => f.p = none)}
TextFrames ==
  {f \in Frames : f.ty = "text" /\ f.p # big /\ (f.t => f.kind = "HalfClose")}
AnyFrames == BinFrames \cup TextFrames
=============================================================================
