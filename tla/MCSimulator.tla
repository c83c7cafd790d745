----------------------------- MODULE MCSimulator -----------------------------
(* Simulator on small instances.                                           *)
EXTENDS Simulator, TLC

Symmetry == Permutations(Starts) \cup Permutations(Stops)
=============================================================================
