---------------------------- MODULE MCProxyServer ----------------------------
(* TLC instance of ProxyServer. *)
EXTENDS ProxyServer
=============================================================================
