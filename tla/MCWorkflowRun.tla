--------------------------- MODULE MCWorkflowRun ---------------------------
(* Four tasks under every dependency relation, the cyclic ones included.  *)
EXTENDS WorkflowRun
=============================================================================
