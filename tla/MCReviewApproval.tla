-------------------------- MODULE MCReviewApproval --------------------------
(* Small instances of ReviewApproval for TLC.                              *)
EXTENDS ReviewApproval, TLC

\* Calls of Resolve are interchangeable in every safety property.
Symmetry == Permutations(Answers)
=============================================================================
