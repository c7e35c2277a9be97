------------------------------ MODULE MCDbSync ------------------------------
(* DbSync for model checking: two writes whose records differ in size.      *)
EXTENDS DbSync
MCSize == <<1, 2>>
=============================================================================
