----------------------------- MODULE MCStepFlow -----------------------------
(* Instances of StepFlow: programs like those of the Hello service.          *)
EXTENDS StepFlow

Via(send) == [send |-> send, next |-> -1]

\* Two requests to other nodes, then a state that only finishes.
Linear == <<Via("node"), Via("node"), Via("none")>>

\* A request to a node, an HTTP request whose state chooses its successor, as in
\* StepHttpRequestState, a state that is passed over, and one that only finishes.
Mixed == <<Via("node"), [send |-> "http", next |-> 3], Via("http"), Via("none")>>
=============================================================================
