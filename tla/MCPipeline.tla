----------------------------- MODULE MCPipeline -----------------------------
(* Instances of Pipeline for TLC.  Requests are enumerated by Init. *)
EXTENDS Pipeline
=============================================================================
