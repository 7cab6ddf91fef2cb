----------------------------- MODULE MCKeyFetch -----------------------------
(* KeyFetch on a small instance. *)
EXTENDS KeyFetch

=============================================================================
