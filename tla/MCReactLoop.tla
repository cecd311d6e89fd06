----------------------------- MODULE MCReactLoop -----------------------------
(* Instances of ReactLoop for TLC: one tool that observes, one that acts.   *)
EXTENDS ReactLoop

ObserveAndTap == {"snapshot", "tap"}
=============================================================================
