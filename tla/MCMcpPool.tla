----------------------------- MODULE MCMcpPool -----------------------------
(***************************************************************************)
(* Three threads: one that connects, one that waits for it, and one that   *)
(* comes between when the wait has timed out.                              *)
(***************************************************************************)
EXTENDS McpPool

CONSTANTS t1, t2, t3
=============================================================================
