------------------------------ MODULE MCLookups ------------------------------
(* TLC instance of Lookups. *)
EXTENDS Lookups
=============================================================================
