----------------------------- MODULE MCMonitors -----------------------------
(* Small instances of Monitors for TLC. *)
EXTENDS Monitors
=============================================================================
