----------------------------- MODULE MCPacRouter -----------------------------
(* TLC instance of PacRouter. *)
EXTENDS PacRouter
=============================================================================
