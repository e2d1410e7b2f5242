-------------------------------- MODULE MCIcc --------------------------------
(* Instances of Icc for TLC. *)
EXTENDS Icc
=============================================================================
