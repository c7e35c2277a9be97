------------------------------ MODULE MCCenter ------------------------------
(***************************************************************************)
(* Two nodes of one type that need each other and themselves, as the "auto"  *)
(* route of the deployed CenterCmd.json has it.                             *)
(***************************************************************************)
EXTENDS Center

CONSTANTS a, b

MCType == [n \in Nodes |-> "LOGIC"]
MCNeeded == [t \in {"LOGIC"} |-> {"LOGIC"}]
=============================================================================
