----------------------------- MODULE MCCoreTurn -----------------------------
(* Small instances of CoreTurn for TLC.                                    *)
EXTENDS CoreTurn
=============================================================================
