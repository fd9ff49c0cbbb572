---------------------------- MODULE MCAttachments ----------------------------
(* TLC instance of Attachments: a notebook of two pages, two agents, and   *)
(* a limit that a PDF fits and a PNG of both pages does not.               *)
EXTENDS Attachments, TLC

Symmetry == Permutations(Agents)
=============================================================================
