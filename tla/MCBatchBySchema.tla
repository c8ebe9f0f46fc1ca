-------------------------- MODULE MCBatchBySchema --------------------------
(* Instances of BatchBySchema for TLC. *)
EXTENDS BatchBySchema
=============================================================================
