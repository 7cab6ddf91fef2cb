------------------------------ MODULE MCKeySet ------------------------------
(* KeySet on a small instance, with the proportions of its time constants. *)
EXTENDS KeySet, TLC

Symmetry == Permutations(Requests) \cup Permutations(Kids)

=============================================================================
