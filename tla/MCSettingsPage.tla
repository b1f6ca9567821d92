-------------------------- MODULE MCSettingsPage --------------------------
(* TLC instance of SettingsPage. *)
EXTENDS SettingsPage
=============================================================================
