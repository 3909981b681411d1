------------------------------ MODULE MCTasklet ------------------------------
(* Tasklet for TLC. *)
EXTENDS Tasklet
=============================================================================
