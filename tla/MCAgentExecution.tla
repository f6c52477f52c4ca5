--------------------------- MODULE MCAgentExecution ---------------------------
(***************************************************************************)
(* Plans of the Agent Execution runs.                                      *)
(***************************************************************************)
EXTENDS AgentExecution
CONSTANTS stepA, stepB, stepC
Chain == {<<stepA, stepB>>}
Independent == {}
=============================================================================
