---- MODULE MCPageCheckpoint ----
(* Instances of PageCheckpoint for TLC: the constants are in the .cfg. *)
EXTENDS PageCheckpoint
====
