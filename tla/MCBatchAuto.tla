----------------------------- MODULE MCBatchAuto -----------------------------
(* Instances of BatchAuto for TLC. *)
EXTENDS BatchAuto, TLC

SchemaSymmetry == Permutations(Schemas)
=============================================================================
