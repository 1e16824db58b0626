-------------------------- MODULE MCCheckpointStore --------------------------
(***************************************************************************)
(* CheckpointStore on the instance of MCCheckpointStore.cfg: two processes *)
(* that execute commands, one that publishes, two requests and one crash.  *)
(***************************************************************************)
EXTENDS CheckpointStore
=============================================================================
