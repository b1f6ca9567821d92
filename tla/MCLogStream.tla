----------------------------- MODULE MCLogStream -----------------------------
(* TLC instances of LogStream. *)
EXTENDS LogStream
=============================================================================
