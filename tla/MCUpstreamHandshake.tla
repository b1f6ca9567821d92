------------------------ MODULE MCUpstreamHandshake ------------------------
(* UpstreamHandshake with the program's own limits. *)
EXTENDS UpstreamHandshake
=============================================================================
