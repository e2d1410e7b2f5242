-------------------------- MODULE MCStorageUpload --------------------------
(* Instances of StorageUpload for TLC. *)
EXTENDS StorageUpload, TLC

\* Uploads and keys are only compared for equality.
Symmetry == Permutations(Puts) \cup Permutations(Keys)

=============================================================================
