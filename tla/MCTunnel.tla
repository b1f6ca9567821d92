------------------------------ MODULE MCTunnel ------------------------------
(* TLC instance of Tunnel. *)
EXTENDS Tunnel
=============================================================================
