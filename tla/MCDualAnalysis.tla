---- MODULE MCDualAnalysis ----
(* Instances of DualAnalysis for TLC: the constants are in the .cfg. *)
EXTENDS DualAnalysis
====
