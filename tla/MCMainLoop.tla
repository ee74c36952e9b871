----------------------------- MODULE MCMainLoop -----------------------------
(* Values of the constants of MainLoop for the model checker. *)
EXTENDS MainLoop

TwoDelays == {1, 2}
OneDelay == {1}
=============================================================================
