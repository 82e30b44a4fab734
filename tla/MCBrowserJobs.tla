---------------------------- MODULE MCBrowserJobs ----------------------------
(* Small instances of BrowserJobs for TLC.                                  *)
EXTENDS BrowserJobs, TLC

\* The members of these sets are interchangeable in every safety property.
Symmetry == Permutations(Jobs) \cup Permutations(Sessions) \cup Permutations(Cancellers)
=============================================================================
