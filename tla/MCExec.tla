------------------------------- MODULE MCExec -------------------------------
(* The commands of rank 0 in the run of MpyExec. *)
EXTENDS MpyExec

TheCommands == {<<"in", "out">>, <<"ring">>, <<"include">>}
=============================================================================
