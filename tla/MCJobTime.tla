----------------------------- MODULE MCJobTime -----------------------------
(* Instances of JobTime for TLC. *)
EXTENDS JobTime
=============================================================================
