----------------------------- MODULE PromptFlow -----------------------------
(***************************************************************************)
(* Prompts from the send button to the settled answer: AppController's     *)
(* selectAgent() and sendPrompt(), and the three slots that pass           *)
(* AgentProtocol's signals on to ChatModel, over the connection of Link.   *)
(* Each handler and all it calls is one step: the modules' operators are   *)
(* conjoined here as the code calls them.                                  *)
(*                                                                         *)
(* Not in this module: the staged attachments, which sendPrompt() may      *)
(* refuse (nothing changes then), and the roster the selection comes from. *)
(***************************************************************************)
EXTENDS ChatModel, AgentProtocol

ASSUME OneAlphabet == Prompts = Requests /\ Deltas = Chunks

VARIABLES selected,    \* m_selectedSubject; none while m_selectedRow < 0
          addressee    \* the subject each prompt was published to

appVars == <<selected, addressee>>
flowVars == <<chatVars, protocolVars, appVars>>
------------------------------------------------------------------------------
(* The slots on promptResponse, promptComplete and promptError.            *)
Slot(c, r, signal) ==
  CASE signal.kind = "response" -> AppendDelta(c, r, signal.n)
    [] signal.kind = "complete" -> SetDone(c, r)
    [] signal.kind = "error" -> SetError(c, r)

(* Slots run within the step that emits: the protocol speaks of r alone.   *)
SlotsRun(r) ==
  /\ chat' = IF proto'.heard[r] = proto.heard[r] THEN chat
             ELSE Slot(chat, r, proto'.heard[r][Len(proto'.heard[r])])
  /\ UNCHANGED <<issued, appVars>>

FlowInit ==
  /\ ChatInit /\ ProtocolInit
  /\ selected = NoSubject
  /\ addressee = [r \in Requests |-> NoSubject]

(* selectAgent(), of a row of the roster that is not the selected one.     *)
SelectAgentOnly(k) ==
  /\ selected # k /\ selected' = k
  /\ UNCHANGED <<chatVars, addressee, protocolVars>>
SelectAgent(k) ==
  /\ selected # k /\ selected' = k
  /\ chat' = SetConversation(chat, k)
  /\ UNCHANGED <<issued, addressee, protocolVars>>

(* sendPrompt(): refused without a selection or a connection.              *)
SendUnconnected(r) ==
  /\ selected # NoSubject
  /\ SendPrompt(r)
  /\ addressee' = [addressee EXCEPT ![r] = selected]
  /\ chat' = AppendAgentPending(AppendUser(chat), r)
  /\ issued' = issued \cup {r}
  /\ UNCHANGED selected
Send(r) ==
  /\ selected # NoSubject /\ label = "connected"
  /\ SendPrompt(r)
  /\ addressee' = [addressee EXCEPT ![r] = selected]
  /\ chat' = AppendAgentPending(AppendUser(chat), r)
  /\ issued' = issued \cup {r}
  /\ UNCHANGED selected

Message(r) == Deliver(r) /\ SlotsRun(r)
Timeout(r) == InactivityTimeout(r) /\ SlotsRun(r)
TimerRuns(r) == IntervalElapses(r) /\ UNCHANGED <<chatVars, appVars>>

FlowNext ==
  \/ \E k \in Subjects : SelectAgent(k)
  \/ \E r \in Requests : Send(r) \/ Message(r)
  \/ \E r \in Requests : TimerRuns(r) \/ Timeout(r)
  \/ (AgentActs \/ LinkMoves) /\ UNCHANGED <<chatVars, appVars>>

FlowSpec == FlowInit /\ [][FlowNext]_flowVars
------------------------------------------------------------------------------
(* The row of r, wherever it is retained.                                  *)
Retained(r) == \E k \in Subjects : RowsOf(chat.convs[k], r) # {}
Row(r) ==
  LET k == CHOOSE s \in Subjects : RowsOf(chat.convs[s], r) # {}
  IN chat.convs[k][RowForRequest(chat.convs[k], r)]

(* An answer is in the conversation with the agent that was asked, however *)
(* the user switched agents before and after.                              *)
AnswersAddressee ==
  \A r \in Requests, k \in Subjects \cup {NoSubject} :
    RowsOf(chat.convs[k], r) # {} => addressee[r] = k

(* A retained row shows exactly what the protocol reported of its request, *)
(* in order, and its status follows the latest report. Only the last       *)
(* report can be one of completion, which adds no text.                    *)
Completed(signals) ==
  signals # <<>> /\ signals[Len(signals)].kind = "complete"
TextOf(signals) ==
  [i \in 1 .. IF Completed(signals) THEN Len(signals) - 1 ELSE Len(signals) |->
     IF signals[i].kind = "error" THEN ErrorMark ELSE signals[i].n]
StatusOf(signals) ==
  IF signals = <<>> THEN "pending"
  ELSE CASE signals[Len(signals)].kind = "response" -> "streaming"
         [] signals[Len(signals)].kind = "complete" -> "done"
         [] signals[Len(signals)].kind = "error" -> "error"
ShowsWhatWasHeard ==
  \A r \in Requests :
    Retained(r) => /\ Row(r).text = TextOf(proto.heard[r])
                   /\ Row(r).status = StatusOf(proto.heard[r])

(* The controller's guard keeps prompts out of the transport's queue, and  *)
(* every prompt the user sees in a conversation was really published.      *)
PromptsPublished ==
  waiting = {} /\ \A r \in issued : agent[r].phase \notin {"idle", "unasked"}

(* Once its request is over, a row is settled, for good or ill: an answer  *)
(* is not shown as under way with nobody left to end it. For an agent that *)
(* reported an error this is what agents/AgentProtocol.cpp lines 212-214   *)
(* say: "we report it now and finalise when the terminator (or timeout)    *)
(* arrives".                                                               *)
FinishedRowsSettled ==
  \A r \in issued \ Live(proto) :
    Retained(r) => Row(r).status \in {"done", "error"}
=============================================================================
