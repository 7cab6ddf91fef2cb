-------------------------- MODULE MCPostgresStore --------------------------
(* PostgresStore on a small instance. *)
EXTENDS PostgresStore, TLC

Symmetry == Permutations(Calls) \cup Permutations(Keys) \cup Permutations(Bodies)

=============================================================================
