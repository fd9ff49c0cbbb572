------------------------------- MODULE MCNats -------------------------------
(* TLC instance of nats/NatsClient. What it sends (NatsClient) and what it *)
(* reads (FrameParser) meet in nothing but a lost connection, which each   *)
(* module has: one half moves while the other is as it was made.           *)
(* Outbound: two dials, so that a reconnect happens over every state of    *)
(* the first connection, and listeners that outlive it. Inbound: every     *)
(* pair of frames of up to two payload bytes, in every segmentation,       *)
(* before and after a lost connection.                                     *)
EXTENDS NatsClient, FrameParser

MCInit == ClientInit /\ FrameInit
MCNext ==
  \/ FrameInit /\ ClientNext /\ UNCHANGED frameVars
  \/ ClientInit /\ FrameNext /\ UNCHANGED clientVars
MCSpec == MCInit /\ [][MCNext]_<<clientVars, frameVars>> /\ ClientFairness
=============================================================================
