--------------------------- MODULE MCAgentProtocol ---------------------------
(* TLC instance of AgentProtocol: two prompts and two connections, so that *)
(* a request outlives the connection it was made on. No symmetry: the run  *)
(* checks liveness.                                                        *)
EXTENDS AgentProtocol
=============================================================================
