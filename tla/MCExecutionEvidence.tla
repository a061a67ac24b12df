-------------------------- MODULE MCExecutionEvidence --------------------------
(* ExecutionEvidence on small instances. *)
EXTENDS ExecutionEvidence

CONSTANTS x1, x2

ExecutionSet == {x1, x2}

================================================================================
