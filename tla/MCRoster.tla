------------------------------ MODULE MCRoster ------------------------------
(* TLC instance of Roster: an agent with two instances, one with a slower  *)
(* beat than the default and one that advertises a negative one, and a     *)
(* second agent (see MCRoster.cfg).                                        *)
EXTENDS Roster

CONSTANTS i1, i2, i3

MCSubjectOf == [i \in Instances |-> IF i = i3 THEN "other" ELSE "agent"]
MCStaticSubjects == <<"agent">>
MCCadences == [i \in Instances |-> IF i = i1 THEN {2} ELSE {-1}]
=============================================================================
