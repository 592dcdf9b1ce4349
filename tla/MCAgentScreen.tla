--------------------------- MODULE MCAgentScreen ---------------------------
(***************************************************************************)
(* Instances of AgentScreen for TLC.                                       *)
(***************************************************************************)
EXTENDS AgentScreen

=============================================================================
