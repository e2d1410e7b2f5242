--------------------------- MODULE MCExportWorker ---------------------------
(* Instances of ExportWorker for TLC. *)
EXTENDS ExportWorker, TLC

\* Job ids are drawn by uuid4 and only ever compared for equality.
Symmetry == Permutations(Jobs)

=============================================================================
