---- MODULE MCLockOrder ----
(* Instances of LockOrder for TLC: the constants are in the .cfg. *)
EXTENDS LockOrder, TLC

\* Connections are interchangeable.
Symmetry == Permutations(Clients)
====
