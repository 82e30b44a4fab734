-------------------------- MODULE MCTaskScheduler --------------------------
(* Small instances of TaskScheduler for TLC.                               *)
EXTENDS TaskScheduler, TLC

\* The members of these sets are interchangeable in every safety property.
Symmetry == Permutations(Schedules) \cup Permutations(Runs)
            \cup Permutations(Loops) \cup Permutations(Callers)
=============================================================================
