--------------------------- MODULE MCRefLifecycle ---------------------------
(* One web context and one ref name are enough for every pair of contexts   *)
(* and for a ref that is in one map and not in the next; two snapshots, in  *)
(* one run three, let an id become current, be loaded from disk and be      *)
(* superseded.                                                              *)
EXTENDS RefLifecycle
=============================================================================
