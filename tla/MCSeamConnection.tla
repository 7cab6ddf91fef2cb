-------------------------- MODULE MCSeamConnection --------------------------
(* SeamConnection on a small instance. *)
EXTENDS SeamConnection

=============================================================================
