---------------------------- MODULE MCPromptFlow ----------------------------
(* TLC instance of PromptFlow: two agents, two prompts, two connections,   *)
(* and one exchange per conversation, so that a stream outlives its row,   *)
(* its conversation's place on screen and the connection it was asked on.  *)
EXTENDS PromptFlow, TLC

Symmetry == Permutations(Subjects) \cup Permutations(Requests)
=============================================================================
