----------------------------- MODULE MCTrayMode -----------------------------
(* TLC instance of TrayMode. *)
EXTENDS TrayMode
=============================================================================
