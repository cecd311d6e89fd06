---------------------------- MODULE MCAppiumServer ----------------------------
(* Instances of AppiumServer for TLC: pids are interchangeable, and so are  *)
(* ports and commands.                                                      *)
EXTENDS AppiumServer, TLC

ServerSymmetry == Permutations(Procs) \cup Permutations(Ports) \cup Permutations(Clis)
=============================================================================
