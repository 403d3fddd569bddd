--------------------------- MODULE MCReadinessNode --------------------------
(* Instances of ReadinessNode for TLC. *)
EXTENDS ReadinessNode, TLC

Symmetry == Permutations(Setter) \cup Permutations(Updater) \cup Permutations(Token)

=============================================================================
