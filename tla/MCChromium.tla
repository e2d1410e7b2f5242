----------------------------- MODULE MCChromium -----------------------------
(* Instances of Chromium for TLC. *)
EXTENDS Chromium
=============================================================================
