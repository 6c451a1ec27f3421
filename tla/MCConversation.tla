--------------------------- MODULE MCConversation ---------------------------
(***************************************************************************)
(* Conversation with five messages: enough for a prompt, a turn with two   *)
(* calls and its results, a compaction in between and a message after a    *)
(* restart.                                                                *)
(***************************************************************************)
EXTENDS Conversation
=============================================================================
