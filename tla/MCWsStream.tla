----------------------------- MODULE MCWsStream -----------------------------
(* Small instances of WsStream for TLC.                                    *)
EXTENDS WsStream

CONSTANTS p1, big, none

JsonHandshake ==
  {[codec |-> "text", route |-> "method", reject |-> r] : r \in {"none", "UNIMPLEMENTED"}}
ProtoHandshake == {[codec |-> "bin", route |-> "method", reject |-> "none"]}
=============================================================================
