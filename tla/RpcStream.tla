----------------------------- MODULE RpcStream ------------------------------
(* What one streaming call promises its two ends, whatever carries it: the *)
(* application that calls and the backend that answers.                     *)
EXTENDS Naturals, Sequences, SequencesExt

CONSTANTS Requests, Outcomes

VARIABLES
  requests,  \* messages the application has sent
  pulled,    \* messages the backend has received
  answers,   \* number of messages the backend has answered with
  received,  \* messages the application has received, numbered as answered
  outcome    \* statuses the application has been given

rpcVars == <<requests, pulled, answers, received, outcome>>

RpcInit ==
  requests = <<>> /\ pulled = <<>> /\ answers = 0 /\ received = <<>> /\ outcome = <<>>

Request(m) ==
  /\ outcome = <<>>
  /\ requests' = Append(requests, m)
  /\ UNCHANGED <<pulled, answers, received, outcome>>

\* The backend receives the next requests.
Pull ==
  /\ \E n \in (Len(pulled) + 1)..Len(requests) : pulled' = SubSeq(requests, 1, n)
  /\ UNCHANGED <<requests, answers, received, outcome>>

\* A call that succeeded has been answered in full.
Answer ==
  /\ outcome # <<"OK">>
  /\ answers' = answers + 1
  /\ UNCHANGED <<requests, pulled, received, outcome>>

\* The application receives the next answers, and nothing after its status.
Receive ==
  /\ outcome = <<>>
  /\ \E n \in (Len(received) + 1)..answers : received' = [k \in 1..n |-> k]
  /\ UNCHANGED <<requests, pulled, answers, outcome>>

\* The call ends once; it succeeds only when every answer has been received.
End(c) ==
  /\ outcome = <<>>
  /\ c = "OK" => Len(received) = answers
  /\ outcome' = <<c>>
  /\ UNCHANGED <<requests, pulled, answers, received>>

RpcNext ==
  \/ \E m \in Requests : Request(m)
  \/ Pull \/ Answer \/ Receive
  \/ \E c \in Outcomes : End(c)

RpcSpec == RpcInit /\ [][RpcNext]_rpcVars
=============================================================================
