---------------------------- MODULE MCAgentChat ----------------------------
(* Small instances of AgentChat.                                           *)
EXTENDS AgentChat

=============================================================================
