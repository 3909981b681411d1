-------------------------------- MODULE MCRcu --------------------------------
(* Rcu for TLC. *)
EXTENDS Rcu
=============================================================================
