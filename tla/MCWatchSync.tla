----------------------------- MODULE MCWatchSync -----------------------------
(* Small instances of WatchSync for TLC. *)
EXTENDS WatchSync
=============================================================================
