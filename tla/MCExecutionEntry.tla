-------------------------- MODULE MCExecutionEntry --------------------------
(***************************************************************************)
(* Model-checking instances of ExecutionEntry.                             *)
(***************************************************************************)
EXTENDS ExecutionEntry
=============================================================================
