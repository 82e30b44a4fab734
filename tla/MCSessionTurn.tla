--------------------------- MODULE MCSessionTurn ---------------------------
(* Small instances of SessionTurn for TLC.                                 *)
EXTENDS SessionTurn, TLC

\* Messages that are not scheduled are interchangeable in every safety property.
Symmetry == Permutations(Messages \ Scheduled)
=============================================================================
