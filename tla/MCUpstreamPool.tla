--------------------------- MODULE MCUpstreamPool ---------------------------
(* TLC instance of UpstreamPool. *)
EXTENDS UpstreamPool
=============================================================================
