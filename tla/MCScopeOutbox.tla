---- MODULE MCScopeOutbox ----
(* Instances of ScopeOutbox for TLC: the constants are in the .cfg. *)
EXTENDS ScopeOutbox
====
