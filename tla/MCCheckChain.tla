---------------------------- MODULE MCCheckChain ----------------------------
(* Small instances of CheckChain for TLC. *)
EXTENDS CheckChain
=============================================================================
