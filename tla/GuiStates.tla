----------------------------- MODULE GuiStates -----------------------------
(***************************************************************************)
(* The states of the agent that the server, the link and the screen know.  *)
(***************************************************************************)
CONSTANT States   \* states that commands set

AgentStates == {"idle", "listening", "thinking", "speaking", "error"}

ASSUME StatesKnown == States \subseteq AgentStates

=============================================================================
