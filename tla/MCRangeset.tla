----------------------------- MODULE MCRangeset -----------------------------
(* Rangeset for TLC: small words. *)
EXTENDS Rangeset
=============================================================================
