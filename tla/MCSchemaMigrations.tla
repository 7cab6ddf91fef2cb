------------------------- MODULE MCSchemaMigrations -------------------------
(* SchemaMigrations with three builds: one, its successor, and a branch of it. *)
EXTENDS SchemaMigrations

CONSTANTS f1, f2, f3, g2, g3

ThreeBuilds == {<<f1, f2>>, <<f1, f2, f3>>, <<f1, g2, g3>>}

=============================================================================
