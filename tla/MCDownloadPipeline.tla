-------------------------- MODULE MCDownloadPipeline --------------------------
(* Small instances of DownloadPipeline for TLC. *)
EXTENDS DownloadPipeline
=============================================================================
