--------------------------- MODULE MCVideoArchive ---------------------------
(* Small instances of VideoArchive for TLC. *)
EXTENDS VideoArchive
=============================================================================
