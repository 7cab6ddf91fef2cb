------------------------- MODULE MCSubmissionQuota -------------------------
(* SubmissionQuota on a small instance: a second and a half to the window. *)
EXTENDS SubmissionQuota, TLC

Symmetry == Permutations(Principals)

=============================================================================
