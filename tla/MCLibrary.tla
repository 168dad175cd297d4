------------------------------- MODULE MCLibrary -------------------------------
(* Small instances of Library for TLC: downloads that share one title. *)
EXTENDS Library

CONSTANT talk

MCTitle == [d \in Downloads |-> talk]
MCSize == [d \in Downloads |-> d]
=============================================================================
