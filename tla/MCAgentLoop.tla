---------------------------- MODULE MCAgentLoop ----------------------------
(***************************************************************************)
(* AgentLoop with three inputs, one crash and three iterations.            *)
(***************************************************************************)
EXTENDS AgentLoop
=============================================================================
