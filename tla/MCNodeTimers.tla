---------------------------- MODULE MCNodeTimers ----------------------------
(* Values of the constants of NodeTimers for the model checker. *)
EXTENDS NodeTimers, TLC

NoOrLong == {0, 2}
Symmetry == Permutations(Transfers)
=============================================================================
