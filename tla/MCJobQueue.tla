---- MODULE MCJobQueue ----
(* Instances of JobQueue for TLC: the constants are given in the .cfg.    *)
EXTENDS JobQueue
====
