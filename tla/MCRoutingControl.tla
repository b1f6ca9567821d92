-------------------------- MODULE MCRoutingControl --------------------------
(* TLC instances of RoutingControl. *)
EXTENDS RoutingControl
=============================================================================
