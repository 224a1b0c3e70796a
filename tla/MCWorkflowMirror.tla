---- MODULE MCWorkflowMirror ----
(* Instances of WorkflowMirror for TLC: the constants are in the .cfg. *)
EXTENDS WorkflowMirror
====
