---------------------------- MODULE MCController ----------------------------
(* TLC instance of what a user does between connecting and sending: the    *)
(* roster he picks an agent from (Roster), the pages he stages for it      *)
(* (Attachments), and the parse of a page's file (PageBlocks). The parts   *)
(* share no state, so each moves while the others are as they were made:   *)
(* before the first connection, with a notebook without page files, and    *)
(* with an empty file.                                                     *)
EXTENDS MCRoster, MCAttachments, MCPageBlocks

NoFile ==
  /\ file = [supported |-> FALSE, blocks |-> <<>>] /\ size = 0
  /\ phase = "header" /\ reader = [pos |-> 0, ok |-> TRUE]
  /\ page = Blank /\ count = 0
NoPages ==
  /\ device = [p \in PageNumbers |-> [rm |-> "none", thumb |-> FALSE]]
  /\ notes = <<>>
  /\ temp = {} /\ staging = NothingStaged
  /\ selection = Nobody /\ published = Unpublished

MCInit ==
  /\ RosterInit
  /\ (NoFile /\ AttachInit) \/ (BlocksInit /\ NoPages)
MCNext ==
  \/ NoFile /\ NoPages /\ RosterNext /\ UNCHANGED <<attachVars, blockVars>>
  \/ NoFile /\ RosterInit /\ AttachNext /\ UNCHANGED <<rosterVars, blockVars>>
  \/ NoPages /\ RosterInit /\ BlocksNext /\ UNCHANGED <<rosterVars, attachVars>>
MCSpec == MCInit /\ [][MCNext]_<<rosterVars, attachVars, blockVars>>
=============================================================================
