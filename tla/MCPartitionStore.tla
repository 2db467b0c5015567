-------------------------- MODULE MCPartitionStore --------------------------
(* PartitionStore on a small instance. *)
EXTENDS PartitionStore
=============================================================================
