-------------------------- MODULE MCReadinessQueue --------------------------
(* Instances of ReadinessQueue for TLC. *)
EXTENDS ReadinessQueue, TLC

\* Nodes and producers are interchangeable in the safety properties.
Symmetry == Permutations(Node) \cup Permutations(Producer)

=============================================================================
