---- MODULE MCResultStore ----
(* Instances of ResultStore for TLC: the constants are given in the .cfg. *)
EXTENDS ResultStore
====
