----------------------------- MODULE MCReviewRun -----------------------------
(* Small instances of ReviewRun for TLC; the values are in the .cfg files. *)
EXTENDS ReviewRun, TLC

\* Workflow runs are interchangeable.
Symmetry == Permutations(Runs)
=============================================================================
