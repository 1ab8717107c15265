-------------------------- MODULE MCAgentReplies --------------------------
(* TLC instance of AgentReplies. *)
EXTENDS AgentReplies
=============================================================================
