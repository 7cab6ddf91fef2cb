--------------------------- MODULE MCEvidenceLog ---------------------------
(* EvidenceLog on a small instance: two keys, two bodies, three calls. *)
EXTENDS EvidenceLog, TLC

Symmetry == Permutations(Calls) \cup Permutations(Keys) \cup Permutations(Bodies)

=============================================================================
