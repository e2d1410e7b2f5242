----------------------------- MODULE MCWorkdir -----------------------------
(* Instances of Pipeline with its files for TLC.  Init enumerates requests. *)
EXTENDS Workdir
=============================================================================
