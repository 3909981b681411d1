------------------------------- MODULE MCVchan -------------------------------
(* Vchan for TLC. *)
EXTENDS Vchan

(* The client sends packets and writes a buffer that does not fit, the server *)
(* receives packets and reads single bytes; both also ask what there is.      *)
Calls == [e \in Ends |->
    IF e = "cli"
    THEN {<<"send", 2, FALSE>>, <<"write", 3, TRUE>>, <<"space", 1, FALSE>>}
    ELSE {<<"recv", 2, TRUE>>, <<"read", 1, FALSE>>, <<"ready", 1, FALSE>>}]
=============================================================================
