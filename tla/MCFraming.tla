------------------------------ MODULE MCFraming ------------------------------
(***************************************************************************)
(* Small instances of Framing: messages of two to four bytes, buffers that   *)
(* start at two bytes, and a socket smaller than a message.                  *)
(***************************************************************************)
EXTENDS Framing

MCLinks == {<<"worker", "worker">>, <<"worker", "manager">>, <<"manager", "worker">>}
=============================================================================
