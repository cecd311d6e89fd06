--------------------------- MODULE MCSessionDaemon ---------------------------
(***************************************************************************)
(* Instances of SessionDaemon for TLC.  Daemons are model values that      *)
(* differ in nothing, so the safety runs take them up to permutation.      *)
(***************************************************************************)
EXTENDS SessionDaemon, TLC

DaemonSymmetry == Permutations(Daemons)
=============================================================================
