---------------------------- MODULE MCSweepFlow -----------------------------
(* SweepFlow for TLC.                                                       *)
EXTENDS SweepFlowInductive, TLC

Symmetry == Permutations(Address) \cup Permutations(Session)

=============================================================================
