---------------------------- MODULE MCPageBlocks ----------------------------
(* TLC instance of PageBlocks: a block for each way through the decoder,   *)
(* with the point sizes of the code and short headers. The point arrays    *)
(* fit their bodies, say more than the body holds, or are of no whole      *)
(* number of points.                                                       *)
EXTENDS PageBlocks

Line(version, points, room, clean) ==
  [type |-> "line", length |-> room + 1, version |-> version, valued |-> TRUE,
   clean |-> clean, points |-> points, room |-> room, typed |-> FALSE]
Text(typed, clean) ==
  [type |-> "text", length |-> 2, version |-> 1, valued |-> TRUE,
   clean |-> clean, points |-> 0, room |-> 0, typed |-> typed]
Skipped(type, length) ==
  [type |-> type, length |-> length, version |-> 2, valued |-> FALSE,
   clean |-> TRUE, points |-> 0, room |-> 0, typed |-> FALSE]

MCBodies ==
  {Line(2, 28, 28, TRUE), Line(1, 28, 28, TRUE), Line(2, 28, 28, FALSE),
   Line(2, 42, 15, TRUE), Line(2, 14, 0, TRUE), Line(2, 0, 0, TRUE),
   Text(TRUE, TRUE), Text(FALSE, TRUE), Text(TRUE, FALSE),
   Skipped("line", 1), Skipped("other", 0), Skipped("other", 1)}
=============================================================================
