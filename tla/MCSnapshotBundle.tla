-------------------------- MODULE MCSnapshotBundle --------------------------
(* Processes are interchangeable. *)
EXTENDS SnapshotBundle, TLC
ProcsUpToOrder == Permutations(Procs)
=============================================================================
