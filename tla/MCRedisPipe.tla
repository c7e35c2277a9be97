----------------------------- MODULE MCRedisPipe -----------------------------
(* Instances of RedisPipe for TLC; the bounds are in the configurations.      *)
EXTENDS RedisPipe
=============================================================================
