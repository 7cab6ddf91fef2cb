---------------------------- MODULE MCIntakeSeam ----------------------------
(* IntakeSeam on a small instance, with a policy that is relaxed or tightened. *)
EXTENDS IntakeSeam, TLC

CONSTANTS t1, t2

TwoPolicies == {{t1}, {t1, t2}}

Symmetry ==
  Permutations(Submissions) \cup Permutations(Processes) \cup Permutations(Workspaces)

=============================================================================
