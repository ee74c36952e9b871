---------------------------- MODULE MCHeartbeat -----------------------------
(* Values of the constants of Heartbeat for the model checker. *)
EXTENDS Heartbeat

NoCb == [kind |-> "none"]
TwoLimits == {0, 2}
OneInterval == {1}
=============================================================================
