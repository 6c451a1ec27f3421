-------------------------- MODULE MCExecutionStream --------------------------
(***************************************************************************)
(* Two session ids and two callers of execute() for ExecutionStream.       *)
(***************************************************************************)
EXTENDS ExecutionStream

CONSTANTS s1, s2, c1, c2
=============================================================================
