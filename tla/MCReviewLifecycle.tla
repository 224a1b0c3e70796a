---- MODULE MCReviewLifecycle ----
(* Instances of ReviewLifecycle for TLC: the constants are in the .cfg. *)
EXTENDS ReviewLifecycle, TLC

\* The requests of reviewers are interchangeable.
Symmetry == Permutations(Reviewers)
====
