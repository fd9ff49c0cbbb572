--------------------------- MODULE NatsConnection ---------------------------
(***************************************************************************)
(* What the users of nats/INatsConnection.h have of the outbound side, in  *)
(* the order that NatsClient's write() and its queue give it: a connection *)
(* is a FIFO pipe of commands. Commands accepted while it is being set up  *)
(* are sent, once and in order, when it opens; a connection never carries  *)
(* a command accepted for another one; and commands accepted while no      *)
(* connection exists or is being set up are forgotten.                     *)
(*                                                                         *)
(* NatsClient implements it (MCNats checks the refinement).                *)
(***************************************************************************)
EXTENDS Sequences, SequencesExt

VARIABLES phase,      \* "down", "dialing" or "up"
          accepted,   \* commands accepted for the current connection
          sent        \* commands that reached its wire

pipeVars == <<phase, accepted, sent>>

PipeInit == phase = "down" /\ accepted = <<>> /\ sent = <<>>

(* connectToServer(): a new pipe, whatever became of the one before.       *)
Dial == phase' = "dialing" /\ accepted' = <<>> /\ sent' = <<>>

(* connected(): what was accepted so far is on the wire.                   *)
Open ==
  /\ phase = "dialing" /\ phase' = "up"
  /\ sent' = accepted /\ UNCHANGED accepted

(* subscribe(), unsubscribe(), publish(), or several of them in a turn, or *)
(* the client's own answer to a ping.                                      *)
Accept ==
  /\ phase # "down" /\ UNCHANGED phase
  /\ IsPrefix(accepted, accepted')
  /\ sent' = IF phase = "up" THEN accepted' ELSE sent

(* disconnected(), or a dial that failed: the pipe and all in it is gone.  *)
Drop ==
  /\ phase # "down" /\ phase' = "down"
  /\ accepted' = <<>> /\ sent' = <<>>

PipeNext == Dial \/ Open \/ Accept \/ Drop

PipeSpec == PipeInit /\ [][PipeNext]_pipeVars
=============================================================================
