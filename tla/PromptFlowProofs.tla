-------------------------- MODULE PromptFlowProofs --------------------------
(***************************************************************************)
(* The composition of controller, protocol and chat, for any number of     *)
(* agents, prompts and connections: what is proved of the protocol and of  *)
(* the chat model holds in it, answers are in the conversation of the      *)
(* agent that was asked, and what the user sees as sent was published.     *)
(***************************************************************************)
EXTENDS PromptFlow, ChatModelProofs, AgentProtocolProofs

(* The label is behind the link, never before it: Send's guard rests on it.*)
LabelIsTrue == label = "connected" => link = "up"

(* The model shows the selected agent's conversation; a request that the   *)
(* chat model indexes is indexed under its addressee.                      *)
ChatFollows ==
  /\ chat.curKey = selected /\ selected \in Keys
  /\ addressee \in [Requests -> Keys]
  /\ \A r \in Requests :
       chat.reqConv[r] # NoSubject => chat.reqConv[r] = addressee[r]

(* The inductive invariant of the composition.                             *)
FlowInv ==
  ChatInv /\ ProtocolInv /\ LabelIsTrue /\ ChatFollows /\ PromptsPublished

(* Each step of the composition is one of the protocol, or none of its     *)
(* business.                                                               *)
LEMMA FlowStepOfProtocol ==
  [FlowNext]_flowVars => [ProtocolNext]_protocolVars
<1> SUFFICES ASSUME [FlowNext]_flowVars PROVE [ProtocolNext]_protocolVars
  OBVIOUS
<1>1. ASSUME NEW k \in Subjects, SelectAgent(k) PROVE UNCHANGED protocolVars
  BY <1>1 DEF SelectAgent
<1>2. ASSUME NEW r \in Requests, Send(r) \/ Message(r) \/ Timeout(r)
      PROVE  ProtocolNext
  BY <1>2, OneAlphabet DEF Send, Message, Timeout, ProtocolNext
<1>3. CASE AgentActs \/ LinkMoves
  BY <1>3 DEF ProtocolNext
<1>4. CASE UNCHANGED flowVars
  BY <1>4 DEF flowVars
<1>5. ASSUME NEW r \in Requests, TimerRuns(r) PROVE ProtocolNext
  BY <1>5, OneAlphabet DEF TimerRuns, ProtocolNext
<1> QED BY <1>1, <1>2, <1>3, <1>4, <1>5 DEF FlowNext

(* What is proved of AgentProtocol holds under this controller.            *)
THEOREM FlowImplementsProtocol == FlowSpec => ProtocolSpec
<1>1. FlowInit => ProtocolInit
  BY DEF FlowInit
<1> QED BY <1>1, FlowStepOfProtocol, PTL DEF FlowSpec, ProtocolSpec
------------------------------------------------------------------------------
(* The index, after each method.                                           *)
LEMMA ReplyIndex ==
  ASSUME NEW c \in ChatRecords, NEW r, NEW status, NEW tail
  PROVE  /\ Reply(c, r, status, tail).reqConv = c.reqConv
         /\ Reply(c, r, status, tail).curKey = c.curKey
BY DEF Reply, Store, ChatRecords

LEMMA AppendIndex ==
  ASSUME NEW c \in ChatRecords, NEW m, NEW idx
  PROVE  /\ AppendTo(c, c.curKey, m, idx).curKey = c.curKey
         /\ \A x \in Requests :
              AppendTo(c, c.curKey, m, idx).reqConv[x] \in {NoSubject, idx[x]}
BY DEF AppendTo, Unindexed, ChatRecords

LEMMA PromptIndex ==
  ASSUME NEW c, NEW ids \in SUBSET Requests, ChatRecordInv(c, ids),
         NEW r \in Requests
  PROVE  LET d == AppendAgentPending(AppendUser(c), r)
         IN /\ d.curKey = c.curKey
            /\ \A x \in Requests :
                 d.reqConv[x] \in {NoSubject, IF x = r THEN c.curKey ELSE c.reqConv[x]}
<1> DEFINE u == AppendUser(c)
<1>1. UserRow \in Rows /\ UserRow.requestId = NoRequest
  BY DEF UserRow, Rows
<1>2. u \in ChatRecords /\ u.curKey = c.curKey
  BY <1>1, AppendToInv DEF AppendUser, ChatRecordInv
<1>3. c \in ChatRecords /\ \A x \in Requests : u.reqConv[x] \in {NoSubject, c.reqConv[x]}
  BY AppendIndex DEF AppendUser, ChatRecordInv
<1>4. u.reqConv \in [Requests -> Keys]
  BY <1>2 DEF ChatRecords, Keys
<1> HIDE DEF u
<1>5. \A x \in Requests :
        [u.reqConv EXCEPT ![r] = u.curKey][x]
          = IF x = r THEN c.curKey ELSE u.reqConv[x]
  BY <1>2, <1>4
<1> DEFINE idx == [u.reqConv EXCEPT ![r] = u.curKey]
           d == AppendAgentPending(u, r)
<1>6. d = AppendTo(u, u.curKey, PendingRow(r), idx)
  BY DEF AppendAgentPending
<1> HIDE DEF idx, d
<1>7. /\ d.curKey = u.curKey
      /\ \A x \in Requests : d.reqConv[x] \in {NoSubject, idx[x]}
  BY <1>2, <1>6, AppendIndex
<1>8. \A x \in Requests : idx[x] = IF x = r THEN c.curKey ELSE u.reqConv[x]
  BY <1>5 DEF idx
<1>9. /\ d.curKey = c.curKey
      /\ \A x \in Requests :
           d.reqConv[x] \in {NoSubject, IF x = r THEN c.curKey ELSE c.reqConv[x]}
  BY <1>2, <1>3, <1>7, <1>8
<1> QED BY <1>9 DEF u, d

LEMMA SelectionIndex ==
  ASSUME NEW c \in ChatRecords, NEW k
  PROVE  /\ SetConversation(c, k).curKey = k
         /\ SetConversation(c, k).reqConv = c.reqConv
BY DEF SetConversation, ChatRecords
------------------------------------------------------------------------------
(* One lemma per action.                                                   *)
LEMMA SelectFlow ==
  ASSUME FlowInv, NEW k \in Subjects, SelectAgent(k)
  PROVE  FlowInv'
<1>1. ChatRecordInv(chat, issued) /\ chat \in ChatRecords /\ k \in Keys
  BY DEF FlowInv, ChatInv, ChatRecordInv, Keys
<1>2. ChatInv'
  BY <1>1, SetConversationInv DEF FlowInv, ChatInv, SelectAgent
<1>3. ChatFollows'
  BY <1>1, SelectionIndex DEF FlowInv, ChatFollows, SelectAgent
<1>4. UNCHANGED protocolVars
  BY DEF SelectAgent
<1>5. ProtocolInv'
  BY <1>4, ProtocolStep DEF FlowInv
<1>6. LabelIsTrue' /\ PromptsPublished'
  BY <1>4 DEF FlowInv, LabelIsTrue, PromptsPublished, protocolVars, netVars,
              linkVars, SelectAgent
<1> QED BY <1>2, <1>3, <1>5, <1>6 DEF FlowInv

LEMMA SendFlow ==
  ASSUME FlowInv, NEW r \in Requests, Send(r)
  PROVE  FlowInv'
<1>1. /\ ChatRecordInv(chat, issued) /\ issued \in SUBSET Requests
      /\ r \in Prompts /\ Requests = Prompts
  BY OneAlphabet DEF FlowInv, ChatInv
<1>2. r \notin issued
  BY DEF FlowInv, PromptsPublished, Send, SendPrompt, Unused, Idle
<1>3. chat.curKey = selected /\ selected # NoSubject
  BY DEF FlowInv, ChatFollows, Send
<1>4. ChatInv'
  <2>1. ChatRecordInv(chat', issued \cup {r})
    BY <1>1, <1>2, <1>3, MethodsInv DEF Send
  <2> QED BY <1>1, <2>1 DEF ChatInv, Send
<1>5. ChatFollows'
  <2>1. /\ chat'.curKey = chat.curKey
        /\ \A x \in Requests :
             chat'.reqConv[x]
               \in {NoSubject, IF x = r THEN chat.curKey ELSE chat.reqConv[x]}
    BY <1>1, PromptIndex DEF Send
  <2>2. /\ addressee' = [addressee EXCEPT ![r] = selected]
        /\ addressee \in [Requests -> Keys] /\ selected \in Keys
        /\ UNCHANGED selected
    BY DEF FlowInv, ChatFollows, Send
  <2> QED BY <1>3, <2>1, <2>2 DEF FlowInv, ChatFollows
<1>6. SendPrompt(r) /\ link = "up" /\ UNCHANGED linkVars
  BY DEF FlowInv, LabelIsTrue, Send, SendPrompt
<1>7. ProtocolInv'
  BY <1>1, <1>6, SendPromptInv DEF FlowInv
<1>8. LabelIsTrue'
  BY <1>6 DEF FlowInv, LabelIsTrue, linkVars
<1>9. PromptsPublished'
  <2>1. UNCHANGED waiting
    BY <1>6 DEF SendPrompt
  <2>2. PICK absent : Reach({r}, absent)
    BY <1>6 DEF SendPrompt
  <2>3. \A x \in Prompts \ {r} : agent'[x] = agent[x]
    BY <2>2 DEF Reach
  <2>4. agent'[r].phase \in {"answering", "absent"}
    BY <1>1, <2>2 DEF Reach, Idle
  <2>5. issued' = issued \cup {r}
    BY DEF Send
  <2> QED BY <1>1, <2>1, <2>3, <2>4, <2>5 DEF FlowInv, PromptsPublished
<1> QED BY <1>4, <1>5, <1>7, <1>8, <1>9 DEF FlowInv

(* What a message or a timeout of r leaves: one signal more was heard of   *)
(* r, or none; a completion ends the request; and a request that ends was  *)
(* told so, unless it was told of an error before.                         *)
LEMMA HeardEffect ==
  ASSUME ProtocolInv, NEW r \in Prompts, Deliver(r) \/ InactivityTimeout(r)
  PROVE  /\ \A x \in Prompts \ {r} :
              /\ proto'.heard[x] = proto.heard[x]
              /\ x \in Live(proto') <=> x \in Live(proto)
              /\ x \in Errored(proto') <=> x \in Errored(proto)
         /\ \/ proto'.heard[r] = proto.heard[r]
            \/ \E s \in Signals :
                 /\ proto'.heard[r] = Append(proto.heard[r], s)
                 /\ s.kind = "complete" => r \notin Live(proto')
         /\ r \notin Live(proto) => proto' = proto
         /\ r \in Live(proto') => r \in Live(proto)
         /\ r \in Errored(proto') =>
              \/ r \in Errored(proto)
              \/ proto'.heard[r] = Append(proto.heard[r], [kind |-> "error"])
         /\ r \in Live(proto) \ Live(proto') =>
              \/ r \in Errored(proto) /\ proto'.heard[r] = proto.heard[r]
              \/ \E s \in Signals :
                   /\ s.kind \in {"complete", "error"}
                   /\ proto'.heard[r] = Append(proto.heard[r], s)
<1> DEFINE h == proto.heard[r]
           error == [kind |-> "error"]
           complete == [kind |-> "complete"]
<1>1. proto \in Protocols /\ h \in Seq(Signals)
  BY Held DEF ProtocolInv, ProtocolTypeOK
<1>2. /\ error \in Signals /\ error.kind = "error"
      /\ complete \in Signals /\ complete.kind = "complete"
  BY DEF Signals
<1>3. \A s \in Signals : h \o <<s>> = Append(h, s)
  BY <1>1, AppendIsConcat
<1>4. h \o <<>> = h
  BY <1>1, ConcatEmptySeq
<1>5. CASE InactivityTimeout(r)
  <2>1. /\ Live(proto') = Live(proto) \ {r} /\ Errored(proto') = Errored(proto) \ {r}
        /\ proto'.heard = [proto.heard EXCEPT ![r] = h \o <<error>>]
    BY <1>1, <1>5, TimeoutEffect DEF InactivityTimeout
  <2>2. /\ proto'.heard[r] = Append(h, error)
        /\ \A x \in Prompts \ {r} : proto'.heard[x] = proto.heard[x]
    BY <1>1, <1>2, <1>3, <2>1, Held
  <2>3. r \in Live(proto)
    BY <1>5 DEF InactivityTimeout
  <2> QED BY <1>2, <2>1, <2>2, <2>3
<1>6. CASE Deliver(r) /\ r \in Live(proto)
  <2> DEFINE m == Head(inflight[r])
             sig == SignalsOf(proto, r, m)
  <2>1. m \in Messages /\ proto' = OnMessage(proto, r, m)
    BY <1>6, HeadTailProperties DEF Deliver, ProtocolInv, ProtocolTypeOK
  <2>2. /\ proto'.heard = [proto.heard EXCEPT ![r] = h \o sig]
        /\ Live(proto') = IF Ends(m) THEN Live(proto) \ {r} ELSE Live(proto)
        /\ Errored(proto') = IF Ends(m) THEN Errored(proto) \ {r}
                            ELSE IF m.kind = "error" THEN Errored(proto) \cup {r}
                            ELSE Errored(proto)
    BY <1>1, <1>6, <2>1, MessageEffect
  <2>3. /\ proto'.heard[r] = h \o sig
        /\ \A x \in Prompts \ {r} : proto'.heard[x] = proto.heard[x]
    BY <1>1, <2>2, Held
  <2>8. CASE m.kind = "other"
    <3>1. sig = <<>> /\ ~ Ends(m)
      BY <2>8 DEF SignalsOf, Ends
    <3> QED BY <1>4, <1>6, <2>2, <2>3, <2>8, <3>1
  <2>4. CASE m.kind = "chunk"
    <3>1. sig = <<[kind |-> "response", n |-> m.n]>> /\ ~ Ends(m)
      BY <2>4 DEF SignalsOf, Ends
    <3>2. [kind |-> "response", n |-> m.n] \in Signals
      BY <2>1, <2>4 DEF Messages, Signals
    <3>3. proto'.heard[r] = Append(h, [kind |-> "response", n |-> m.n])
      BY <1>3, <2>3, <3>1, <3>2
    <3> QED BY <1>6, <2>2, <2>3, <2>4, <3>1, <3>2, <3>3
  <2>5. CASE m.kind \in {"error", "unreachable"}
    <3>1. sig = <<error>>
      BY <2>5 DEF SignalsOf
    <3>2. proto'.heard[r] = Append(h, error)
      BY <1>2, <1>3, <2>3, <3>1
    <3> QED BY <1>2, <1>6, <2>2, <2>3, <3>2
  <2>6. CASE m.kind = "terminator" /\ r \in Errored(proto)
    <3>1. sig = <<>> /\ Ends(m)
      BY <2>6 DEF SignalsOf, Ends
    <3> QED BY <1>4, <1>6, <2>2, <2>3, <2>6, <3>1
  <2>7. CASE m.kind = "terminator" /\ r \notin Errored(proto)
    <3>1. sig = <<complete>> /\ Ends(m)
      BY <2>7 DEF SignalsOf, Ends
    <3>2. proto'.heard[r] = Append(h, complete)
      BY <1>2, <1>3, <2>3, <3>1
    <3> QED BY <1>2, <1>6, <2>2, <2>3, <3>1, <3>2
  <2> QED BY <2>1, <2>4, <2>5, <2>6, <2>7, <2>8 DEF Messages
<1>7. CASE Deliver(r) /\ r \notin Live(proto)
  <2>1. Head(inflight[r]) \in Messages
    BY <1>7, HeadTailProperties DEF Deliver, ProtocolInv, ProtocolTypeOK
  <2>2. proto' = proto
    BY <1>1, <1>7, <2>1, MessageEffect DEF Deliver
  <2> QED BY <1>7, <2>2
<1> QED BY <1>5, <1>6, <1>7

LEMMA HeardStays ==
  ASSUME ProtocolInv, NEW r \in Prompts, Deliver(r) \/ InactivityTimeout(r)
  PROVE  proto'.heard[r] = proto.heard[r] \/ proto'.heard[r] # <<>>
<1>1. proto.heard[r] \in Seq(Signals)
  BY Held DEF ProtocolInv, ProtocolTypeOK
<1>2. \A s \in Signals : Append(proto.heard[r], s) # <<>>
  BY <1>1, AppendProperties
<1> QED BY <1>2, HeardEffect

(* The slots, of whatever the protocol emitted.                            *)
LEMMA SlotsFlow ==
  ASSUME FlowInv, NEW r \in Requests, SlotsRun(r), ProtocolInv',
         proto'.heard[r] = proto.heard[r] \/ proto'.heard[r] # <<>>
  PROVE  ChatInv' /\ ChatFollows'
<1>1. /\ ChatRecordInv(chat, issued) /\ chat \in ChatRecords
      /\ issued \in SUBSET Requests
  BY DEF FlowInv, ChatInv, ChatRecordInv
<1>2. UNCHANGED <<issued, selected, addressee>>
  BY DEF SlotsRun, appVars
<1>3. CASE chat' = chat
  BY <1>2, <1>3 DEF FlowInv, ChatInv, ChatFollows
<1>4. CASE chat' # chat
  <2> DEFINE h == proto'.heard[r]
             s == h[Len(h)]
  <2>1. chat' = Slot(chat, r, s) /\ h # <<>>
    BY <1>4 DEF SlotsRun
  <2>2. h \in Seq(Signals)
    BY OneAlphabet, Held DEF ProtocolInv, ProtocolTypeOK
  <2> HIDE DEF h
  <2>3. s \in Signals
    BY <2>1, <2>2
  <2> HIDE DEF s
  <2>4. \/ s.kind = "response" /\ s.n \in Deltas
        \/ s.kind = "complete" \/ s.kind = "error"
    BY <2>3, OneAlphabet DEF Signals
  <2>5. /\ ChatRecordInv(chat', issued) /\ chat'.reqConv = chat.reqConv
        /\ chat'.curKey = chat.curKey
    <3>1. CASE s.kind = "response" /\ s.n \in Deltas
      <4>1. chat' = AppendDelta(chat, r, s.n)
        BY <2>1, <3>1 DEF Slot
      <4> QED BY <1>1, <3>1, <4>1, MethodsInv, ReplyIndex DEF AppendDelta
    <3>2. CASE s.kind = "complete"
      <4>1. chat' = SetDone(chat, r)
        BY <2>1, <3>2 DEF Slot
      <4> QED BY <1>1, <4>1, MethodsInv, ReplyIndex DEF SetDone
    <3>3. CASE s.kind = "error"
      <4>1. chat' = SetError(chat, r)
        BY <2>1, <3>3 DEF Slot
      <4> QED BY <1>1, <4>1, MethodsInv, ReplyIndex DEF SetError
    <3> QED BY <2>4, <3>1, <3>2, <3>3
  <2> QED BY <1>1, <1>2, <2>5 DEF FlowInv, ChatInv, ChatFollows
<1> QED BY <1>3, <1>4

LEMMA MessageFlow ==
  ASSUME FlowInv, NEW r \in Requests, Message(r) \/ Timeout(r)
  PROVE  FlowInv'
<1>1. /\ Deliver(r) \/ InactivityTimeout(r)
      /\ SlotsRun(r) /\ r \in Prompts /\ ProtocolInv
  BY OneAlphabet DEF Message, Timeout, FlowInv
<1>2. ProtocolInv'
  BY <1>1, DeliverInv, InactivityTimeoutInv
<1>3. proto'.heard[r] = proto.heard[r] \/ proto'.heard[r] # <<>>
  BY <1>1, HeardStays
<1>4. ChatInv' /\ ChatFollows'
  BY <1>1, <1>2, <1>3, SlotsFlow
<1>5. UNCHANGED <<waiting, agent, linkVars, issued>>
  BY <1>1 DEF Deliver, InactivityTimeout, SlotsRun
<1>6. LabelIsTrue' /\ PromptsPublished'
  BY <1>5 DEF FlowInv, LabelIsTrue, PromptsPublished, linkVars
<1> QED BY <1>2, <1>4, <1>6 DEF FlowInv

LEMMA TimerFlow ==
  ASSUME FlowInv, NEW r \in Requests, TimerRuns(r)
  PROVE  FlowInv'
<1>1. /\ IntervalElapses(r) /\ r \in Prompts
      /\ UNCHANGED chatVars /\ UNCHANGED appVars
  BY OneAlphabet DEF TimerRuns
<1>2. ProtocolInv'
  BY <1>1, IntervalElapsesInv DEF FlowInv
<1>3. ChatInv' /\ ChatFollows'
  BY <1>1 DEF FlowInv, ChatInv, ChatFollows, chatVars, appVars
<1>4. LabelIsTrue' /\ PromptsPublished'
  BY <1>1 DEF FlowInv, LabelIsTrue, PromptsPublished, IntervalElapses,
              chatVars, netVars, linkVars
<1> QED BY <1>2, <1>3, <1>4 DEF FlowInv

LEMMA AroundFlow ==
  ASSUME FlowInv, AgentActs \/ LinkMoves, UNCHANGED <<chatVars, appVars>>
  PROVE  FlowInv'
<1>1. ProtocolInv'
  BY AgentActsInv, LinkMovesInv DEF FlowInv
<1>2. ChatInv' /\ ChatFollows'
  BY DEF FlowInv, ChatInv, ChatFollows, chatVars, appVars
<1>3. issued' = issued /\ waiting = {} /\ Requests = Prompts
  BY OneAlphabet DEF chatVars, FlowInv, PromptsPublished
<1>4. LabelIsTrue' /\ PromptsPublished'
  <2>1. CASE AgentActs
    <3>1. UNCHANGED <<waiting, linkVars>>
      BY <2>1 DEF AgentActs
    <3>2. PICK r \in Prompts : AgentSays(r) \/ AgentFails(r) \/ AgentEnds(r)
      BY <2>1 DEF AgentActs
    <3>3. agent \in [Prompts -> Agents]
      BY DEF FlowInv, ProtocolInv, ProtocolTypeOK, Agents
    <3>4. \A x \in Prompts :
            agent[x].phase \notin {"idle", "unasked"}
              => agent'[x].phase \notin {"idle", "unasked"}
      BY <3>2, <3>3 DEF AgentSays, AgentFails, AgentEnds, Agents
    <3> QED
      BY <1>3, <3>1, <3>4
      DEF FlowInv, ChatInv, LabelIsTrue, PromptsPublished, linkVars
  <2>2. CASE LinkMoves
    <3>1. waiting' = {} /\ agent' = agent
      <4>1. CASE OpenConnection
        <5>1. PICK absent : Reach({}, absent)
          BY <1>3, <4>1 DEF OpenConnection
        <5>2. agent \in [Prompts -> Agents]
          BY DEF FlowInv, ProtocolInv, ProtocolTypeOK, Agents
        <5> QED BY <4>1, <5>1, <5>2 DEF OpenConnection, Reach
      <4> QED
        BY <1>3, <2>2, <4>1
        DEF LinkMoves, Dial, LoseConnection, ForgetConnection, netVars
    <3>2. LabelIsTrue'
      BY <2>2 DEF LinkMoves, Dial, LoseConnection, OpenConnection,
                  ConnectToServer, Disconnected, DialFailed, Connected,
                  TcpConnected, ServerError, FlowInv, LabelIsTrue
    <3> QED BY <1>3, <3>1, <3>2 DEF FlowInv, PromptsPublished
  <2> QED BY <2>1, <2>2
<1> QED BY <1>1, <1>2, <1>4 DEF FlowInv

(* The chat model, the protocol and the controller between them.           *)
THEOREM FlowInvariant == FlowSpec => []FlowInv
<1>1. FlowInit => FlowInv
  <2> SUFFICES ASSUME FlowInit PROVE FlowInv
    OBVIOUS
  <2>1. ChatInv
    BY ChatStart DEF FlowInit
  <2>2. ProtocolInv
    BY ProtocolStart DEF FlowInit
  <2>3. LabelIsTrue /\ PromptsPublished
    BY DEF FlowInit, ChatInit, ProtocolInit, LinkInit, LabelIsTrue,
           PromptsPublished
  <2>4. ChatFollows
    BY DEF FlowInit, ChatInit, EmptyChat, ChatFollows, Keys
  <2> QED BY <2>1, <2>2, <2>3, <2>4 DEF FlowInv
<1>2. FlowInv /\ [FlowNext]_flowVars => FlowInv'
  <2> SUFFICES ASSUME FlowInv, [FlowNext]_flowVars PROVE FlowInv'
    OBVIOUS
  <2>1. ASSUME NEW k \in Subjects, SelectAgent(k) PROVE FlowInv'
    BY <2>1, SelectFlow
  <2>2. ASSUME NEW r \in Requests, Send(r) PROVE FlowInv'
    BY <2>2, SendFlow
  <2>3. ASSUME NEW r \in Requests, Message(r) \/ Timeout(r) PROVE FlowInv'
    BY <2>3, MessageFlow
  <2>6. ASSUME NEW r \in Requests, TimerRuns(r) PROVE FlowInv'
    BY <2>6, TimerFlow
  <2>4. CASE (AgentActs \/ LinkMoves) /\ UNCHANGED <<chatVars, appVars>>
    BY <2>4, AroundFlow
  <2>5. CASE UNCHANGED flowVars
    <3>1. UNCHANGED protocolVars /\ UNCHANGED chatVars /\ UNCHANGED appVars
      BY <2>5 DEF flowVars
    <3>2. ProtocolInv'
      BY <3>1, ProtocolStep DEF FlowInv
    <3>3. ChatInv' /\ ChatFollows'
      BY <3>1 DEF FlowInv, ChatInv, ChatFollows, chatVars, appVars
    <3>4. LabelIsTrue' /\ PromptsPublished'
      BY <3>1 DEF FlowInv, LabelIsTrue, PromptsPublished, chatVars,
                  protocolVars, netVars, linkVars
    <3> QED BY <3>2, <3>3, <3>4 DEF FlowInv
  <2> QED BY <2>1, <2>2, <2>3, <2>4, <2>5, <2>6 DEF FlowNext
<1> QED BY <1>1, <1>2, PTL DEF FlowSpec

(* An answer is in the conversation of the agent that was asked, for any   *)
(* number of agents and switches between them.                             *)
THEOREM AnswersReachAddressee == FlowSpec => []AnswersAddressee
<1>1. FlowInv => AnswersAddressee
  <2> SUFFICES ASSUME FlowInv, NEW r \in Requests,
                      NEW k \in Subjects \cup {NoSubject},
                      RowsOf(chat.convs[k], r) # {}
               PROVE  addressee[r] = k
    BY DEF AnswersAddressee
  <2>1. k # NoSubject /\ chat.reqConv[r] = k
    BY DEF FlowInv, ChatInv, ChatRecordInv, IndexExact
  <2> QED BY <2>1 DEF FlowInv, ChatFollows
<1> QED BY <1>1, FlowInvariant, PTL

(* A prompt the user sees in a conversation was published: the guard of    *)
(* sendPrompt() keeps it out of the transport's queue.                     *)
THEOREM SentIsPublished == FlowSpec => []PromptsPublished
BY FlowInvariant, PTL DEF FlowInv

(* The chat model under this controller keeps its own invariants.          *)
THEOREM FlowKeepsChat == FlowSpec => [](ChatTypeOK /\ RoutingExact /\ ViewMatches)
<1>1. FlowInv => ChatTypeOK /\ RoutingExact /\ ViewMatches
  BY DEF FlowInv, ChatInv, ChatRecordInv, ChatTypeOK, RoutingExact, ViewMatches
<1> QED BY <1>1, FlowInvariant, PTL
------------------------------------------------------------------------------
(* Each retained row shows what was heard of its request.                  *)
RowsShown ==
  \A k \in Keys : \A i \in DOMAIN chat.convs[k] : \A r \in Requests :
    chat.convs[k][i].requestId = r =>
      /\ chat.convs[k][i].status = StatusOf(proto.heard[r])
      /\ chat.convs[k][i].text = TextOf(proto.heard[r])

(* A request not made was told of nothing, one in flight of no completion, *)
(* one marked errored of an error, and one that is over of its end, unless *)
(* the agent went on after one.                                            *)
SaidEnd(h) == h # <<>> /\ h[Len(h)].kind \in {"complete", "error"}
WentOnAfterError(r) ==
  \E i, j \in DOMAIN proto.heard[r] :
    /\ i < j
    /\ proto.heard[r][i].kind = "error" /\ proto.heard[r][j].kind = "response"
EndsHeard ==
  \A r \in Requests :
    /\ agent[r].phase = "idle" => proto.heard[r] = <<>> /\ r \notin Live(proto)
    /\ r \in Live(proto) => ~ Completed(proto.heard[r])
    /\ r \in Errored(proto) => Has(proto.heard[r], "error")
    /\ r \in issued \ Live(proto) =>
         SaidEnd(proto.heard[r]) \/ WentOnAfterError(r)

SettledInv == FlowInv /\ RowsShown /\ EndsHeard

(* The end of a request heard, or an error heard before.                   *)
LEMMA LastHeard ==
  ASSUME NEW h \in Seq(Signals), NEW s \in Signals
  PROVE  /\ Append(h, s) # <<>> /\ Append(h, s)[Len(Append(h, s))] = s
         /\ Has(h, "error") \/ s.kind = "error" => Has(Append(h, s), "error")
<1> DEFINE g == Append(h, s)
<1>1. /\ g # <<>> /\ Len(g) = Len(h) + 1 /\ g[Len(h) + 1] = s /\ Len(h) \in Nat
      /\ DOMAIN h = 1 .. Len(h) /\ DOMAIN g = 1 .. Len(h) + 1
      /\ \A i \in 1 .. Len(h) : g[i] = h[i]
  BY AppendProperties
<1> HIDE DEF g
<1>2. Has(h, "error") \/ s.kind = "error" => Has(g, "error")
  BY <1>1 DEF Has
<1> QED BY <1>1, <1>2 DEF g

LEMMA EndAfterError ==
  ASSUME NEW h \in Seq(Signals), Has(h, "error"), ~ SaidEnd(h)
  PROVE  \E i, j \in DOMAIN h :
           i < j /\ h[i].kind = "error" /\ h[j].kind = "response"
<1>1. DOMAIN h = 1 .. Len(h) /\ Len(h) \in Nat
  OBVIOUS
<1>2. PICK i \in DOMAIN h : h[i].kind = "error"
  BY DEF Has
<1>3. Len(h) \in DOMAIN h /\ h # <<>> /\ i \in 1 .. Len(h)
  BY <1>1, <1>2
<1>4. h[Len(h)] \in Signals
  BY <1>1, <1>3
<1>5. h[Len(h)].kind = "response"
  BY <1>3, <1>4 DEF SaidEnd, Signals
<1>6. i # Len(h)
  BY <1>2, <1>5
<1> QED BY <1>1, <1>2, <1>3, <1>5, <1>6

(* What a row shows of a request before, and one signal after another.     *)
LEMMA NothingHeard == TextOf(<<>>) = <<>> /\ StatusOf(<<>>) = "pending"
BY DEF TextOf, StatusOf, Completed

TailOf(s) == CASE s.kind = "response" -> <<s.n>>
               [] s.kind = "complete" -> <<>>
               [] s.kind = "error" -> <<ErrorMark>>

LEMMA TextGrows ==
  ASSUME NEW h \in Seq(Signals), NEW s \in Signals, ~ Completed(h)
  PROVE  TextOf(Append(h, s)) = TextOf(h) \o TailOf(s)
<1> DEFINE mark(x) == IF x.kind = "error" THEN ErrorMark ELSE x.n
           S == {mark(h[i]) : i \in 1 .. Len(h)} \cup {mark(s)}
           g == Append(h, s)
           a == TextOf(h)
           b == TextOf(g)
           t == TailOf(s)
<1>1. /\ Len(g) = Len(h) + 1 /\ Len(h) \in Nat /\ g # <<>>
      /\ \A i \in 1 .. Len(h) : g[i] = h[i] /\ h[i] \in Signals
      /\ g[Len(h) + 1] = s
  OBVIOUS
<1>2. /\ t \in Seq(S) /\ Len(t) = IF s.kind = "complete" THEN 0 ELSE 1
      /\ s.kind # "complete" => t[1] = mark(s)
  <2>1. CASE s.kind = "response"
    <3>1. t = <<mark(s)>> /\ mark(s) \in S
      BY <2>1 DEF TailOf
    <3> HIDE DEF t, S, mark
    <3> QED BY <2>1, <3>1
  <2>2. CASE s.kind = "complete"
    <3>1. t = <<>>
      BY <2>2 DEF TailOf
    <3> HIDE DEF t, S, mark
    <3> QED BY <2>2, <3>1
  <2>3. CASE s.kind = "error"
    <3>1. t = <<mark(s)>> /\ mark(s) \in S
      BY <2>3 DEF TailOf
    <3> HIDE DEF t, S, mark
    <3> QED BY <2>3, <3>1
  <2> QED BY <2>1, <2>2, <2>3 DEF Signals
<1>3. \A i \in 1 .. Len(h) : mark(h[i]) \in S
  <2> HIDE DEF mark
  <2> QED OBVIOUS
<1>4. a = [i \in 1 .. Len(h) |-> mark(h[i])]
  BY DEF TextOf
<1> HIDE DEF t, S
<1>5. b = [i \in 1 .. Len(h) + Len(t) |-> mark(g[i])]
  <2>1. Completed(g) <=> s.kind = "complete"
    <3> HIDE DEF g
    <3> QED BY <1>1 DEF Completed
  <2>2. (IF Completed(g) THEN Len(g) - 1 ELSE Len(g)) = Len(h) + Len(t)
    <3> HIDE DEF g
    <3> QED BY <1>1, <1>2, <2>1
  <2> QED BY <2>2 DEF TextOf
<1> HIDE DEF g, a, b, mark
<1>6. a \in Seq(S) /\ Len(a) = Len(h) /\ \A i \in 1 .. Len(h) : a[i] = mark(h[i])
  BY <1>1, <1>3, <1>4
<1>7. /\ a \o t \in Seq(S) /\ Len(a \o t) = Len(h) + Len(t)
      /\ \A i \in 1 .. Len(h) + Len(t) :
           (a \o t)[i] = IF i <= Len(h) THEN a[i] ELSE t[i - Len(h)]
  <2>1. a \in Seq(S) /\ t \in Seq(S)
    BY <1>2, <1>6
  <2>2. /\ a \o t \in Seq(S) /\ Len(a \o t) = Len(a) + Len(t)
        /\ \A i \in 1 .. Len(a) + Len(t) :
             (a \o t)[i] = IF i <= Len(a) THEN a[i] ELSE t[i - Len(a)]
    BY ONLY <2>1, ConcatProperties
  <2> QED BY <1>6, <2>2
<1>8. \A i \in 1 .. Len(h) + Len(t) : mark(g[i]) = (a \o t)[i] /\ mark(g[i]) \in S
  <2> SUFFICES ASSUME NEW i \in 1 .. Len(h) + Len(t)
               PROVE  mark(g[i]) = (a \o t)[i] /\ mark(g[i]) \in S
    OBVIOUS
  <2>1. CASE i <= Len(h)
    <3>1. i \in 1 .. Len(h)
      BY <1>1, <2>1
    <3> QED BY <1>1, <1>3, <1>6, <1>7, <2>1, <3>1
  <2>2. CASE ~ (i <= Len(h))
    <3>1. Len(t) = 1 /\ i = Len(h) + 1 /\ i - Len(h) = 1 /\ s.kind # "complete"
      BY <1>1, <1>2, <2>2
    <3>2. g[i] = s /\ (a \o t)[i] = mark(s)
      BY <1>1, <1>2, <1>7, <2>2, <3>1
    <3> QED BY <3>2 DEF S
  <2> QED BY <2>1, <2>2
<1>9. Len(h) + Len(t) \in Nat
  BY <1>1, <1>2
<1>10. b \in Seq(S) /\ Len(b) = Len(h) + Len(t)
  BY <1>5, <1>8, <1>9
<1>11. \A i \in 1 .. Len(b) : b[i] = (a \o t)[i]
  BY <1>5, <1>8, <1>10
<1>12. b = a \o t
  BY <1>7, <1>10, <1>11, SeqEqual
<1> QED BY <1>12 DEF a, b, g, t

LEMMA SendSettled ==
  ASSUME SettledInv, FlowInv', NEW r \in Requests, Send(r)
  PROVE  RowsShown' /\ EndsHeard'
<1> DEFINE u == AppendUser(chat)
<1>1. /\ ChatRecordInv(chat, issued) /\ issued \in SUBSET Requests
      /\ Requests = Prompts
  BY OneAlphabet DEF SettledInv, FlowInv, ChatInv
<1>2. agent[r].phase = "idle" /\ proto.heard[r] = <<>>
  BY DEF SettledInv, EndsHeard, Send, SendPrompt, Unused, Idle
<1>3. /\ proto'.heard = proto.heard /\ Live(proto') = Live(proto) \cup {r}
      /\ Errored(proto') = Errored(proto) \ {r}
  <2>1. proto \in Protocols /\ proto' = Begin(proto, r)
    BY DEF SettledInv, FlowInv, ProtocolInv, ProtocolTypeOK, Send, SendPrompt
  <2> QED BY <1>1, <2>1, BeginTyped
<1>4. /\ UserRow \in Rows /\ UserRow.requestId = NoRequest
      /\ PendingRow(r) \in Rows /\ PendingRow(r).requestId = r
      /\ PendingRow(r).status = "pending" /\ PendingRow(r).text = <<>>
  BY DEF UserRow, PendingRow, Rows
<1>5. ChatRecordInv(u, issued)
  BY <1>1, <1>4, AppendToInv DEF AppendUser
<1>6. \A k \in Keys : \A i \in DOMAIN u.convs[k] :
        \/ u.convs[k][i] = UserRow
        \/ \E j \in DOMAIN chat.convs[k] : u.convs[k][i] = chat.convs[k][j]
  <2> DEFINE m == UserRow
             idx == chat.reqConv
             d == AppendTo(chat, chat.curKey, m, idx)
  <2>1. u = d
    BY DEF AppendUser
  <2> HIDE DEF m, idx
  <2>2. m \in Rows /\ ChatRecordInv(chat, issued)
    BY <1>1, <1>4 DEF m
  <2>3. \A k \in Keys : \A i \in DOMAIN d.convs[k] :
          \/ d.convs[k][i] = m
          \/ \E j \in DOMAIN chat.convs[k] : d.convs[k][i] = chat.convs[k][j]
    BY <2>2, AppendRows
  <2> HIDE DEF d, u
  <2> QED BY <2>1, <2>3 DEF m
<1>7. chat' = AppendAgentPending(u, r)
  BY DEF Send
<1> HIDE DEF u
<1>8. \A k \in Keys : \A i \in DOMAIN chat'.convs[k] :
        \/ chat'.convs[k][i] = PendingRow(r)
        \/ \E j \in DOMAIN u.convs[k] : chat'.convs[k][i] = u.convs[k][j]
  <2> DEFINE m == PendingRow(r)
             idx == [u.reqConv EXCEPT ![r] = u.curKey]
             d == AppendTo(u, u.curKey, m, idx)
  <2>1. chat' = d
    BY <1>7 DEF AppendAgentPending
  <2> HIDE DEF m, idx
  <2>2. m \in Rows
    BY <1>4 DEF m
  <2>3. \A k \in Keys : \A i \in DOMAIN d.convs[k] :
          \/ d.convs[k][i] = m
          \/ \E j \in DOMAIN u.convs[k] : d.convs[k][i] = u.convs[k][j]
    BY <1>5, <2>2, AppendRows
  <2> HIDE DEF d
  <2> QED BY <2>1, <2>3 DEF m
<1>9. RowsShown'
  <2> SUFFICES ASSUME NEW k \in Keys, NEW i \in DOMAIN chat'.convs[k],
                      NEW x \in Requests, chat'.convs[k][i].requestId = x
               PROVE  /\ chat'.convs[k][i].status = StatusOf(proto.heard[x])
                      /\ chat'.convs[k][i].text = TextOf(proto.heard[x])
    BY <1>3 DEF RowsShown
  <2>1. CASE chat'.convs[k][i] = PendingRow(r)
    <3>1. x = r /\ proto.heard[x] = <<>>
      BY <1>2, <1>4, <2>1
    <3> QED BY <1>4, <2>1, <3>1, NothingHeard
  <2>2. CASE chat'.convs[k][i] # PendingRow(r)
    <3>1. chat'.convs[k][i] # UserRow
      BY <1>4, RequestAssumption
    <3>2. PICK j \in DOMAIN chat.convs[k] : chat'.convs[k][i] = chat.convs[k][j]
      BY <1>6, <1>8, <2>2, <3>1
    <3> QED BY <3>2 DEF SettledInv, RowsShown
  <2> QED BY <2>1, <2>2
<1>10. EndsHeard'
  <2>1. \A x \in Requests \ {r} : agent'[x] = agent[x]
    <3>1. CASE link = "up"
      <4>1. PICK absent : Reach({r}, absent)
        BY <3>1 DEF Send, SendPrompt
      <4> QED BY <1>1, <4>1 DEF Reach
    <3>2. CASE link # "up"
      BY <1>1, <3>2 DEF Send, SendPrompt, SettledInv, FlowInv, ProtocolInv,
                        ProtocolTypeOK
    <3> QED BY <3>1, <3>2
  <2>2. issued' = issued \cup {r}
    BY DEF Send
  <2>3. agent'[r].phase # "idle"
    BY <2>2 DEF FlowInv, PromptsPublished
  <2>4. ~ Completed(proto'.heard[r])
    BY <1>2, <1>3 DEF Completed
  <2> SUFFICES ASSUME NEW x \in Requests
               PROVE  /\ agent'[x].phase = "idle"
                           => proto'.heard[x] = <<>> /\ x \notin Live(proto')
                      /\ x \in Live(proto') => ~ Completed(proto'.heard[x])
                      /\ x \in Errored(proto') => Has(proto'.heard[x], "error")
                      /\ x \in issued' \ Live(proto') =>
                           SaidEnd(proto'.heard[x]) \/ WentOnAfterError(x)'
    BY DEF EndsHeard, Completed
  <2>5. WentOnAfterError(x)' <=> WentOnAfterError(x)
    BY <1>3 DEF WentOnAfterError
  <2>6. CASE x = r
    BY <1>3, <2>2, <2>3, <2>4, <2>5, <2>6 DEF SettledInv, EndsHeard
  <2>7. CASE x # r
    BY <1>3, <2>1, <2>2, <2>5, <2>7 DEF SettledInv, EndsHeard
  <2> QED BY <2>6, <2>7
<1> QED BY <1>9, <1>10

(* A slot gives the row of r the status and the text of the signal, and no *)
(* other row.                                                              *)
LEMMA SlotRows ==
  ASSUME NEW c, NEW ids, ChatRecordInv(c, ids), NEW r \in Requests,
         NEW h \in Seq(Signals), h # <<>>
  PROVE  LET s == h[Len(h)]
         IN RepliedTo(c, Slot(c, r, s), r, StatusOf(h), TailOf(s))
<1> DEFINE s == h[Len(h)]
           d == Slot(c, r, s)
           status == StatusOf(h)
           tail == TailOf(s)
<1>1. s \in Signals
  OBVIOUS
<1>2. /\ d = Reply(c, r, status, tail)
      /\ status \in {"streaming", "done", "error"}
  <2> HIDE DEF s
  <2>1. CASE s.kind = "response"
    BY <2>1 DEF StatusOf, Slot, AppendDelta, TailOf, s
  <2>2. CASE s.kind = "complete"
    BY <2>2 DEF StatusOf, Slot, SetDone, TailOf, s
  <2>3. CASE s.kind = "error"
    BY <2>3 DEF StatusOf, Slot, SetError, TailOf, s
  <2> QED BY <1>1, <2>1, <2>2, <2>3 DEF Signals
<1> HIDE DEF d, status, s, tail
<1>3. RepliedTo(c, Reply(c, r, status, tail), r, status, tail)
  BY <1>2, ReplyRows
<1>4. RepliedTo(c, d, r, status, tail)
  BY <1>2, <1>3
<1> QED BY <1>4 DEF d, status, s, tail

LEMMA MessageSettled ==
  ASSUME SettledInv, FlowInv', NEW r \in Requests, Message(r) \/ Timeout(r)
  PROVE  RowsShown' /\ EndsHeard'
<1> DEFINE h == proto.heard[r]
           g == proto'.heard[r]
<1>1. /\ Deliver(r) \/ InactivityTimeout(r)
      /\ SlotsRun(r) /\ r \in Prompts /\ Requests = Prompts /\ ProtocolInv
      /\ ChatRecordInv(chat, issued)
  BY OneAlphabet DEF Message, Timeout, SettledInv, FlowInv, ChatInv
<1>2. h \in Seq(Signals) /\ g \in Seq(Signals)
  BY <1>1, Held DEF FlowInv, ProtocolInv, ProtocolTypeOK
<1>3. UNCHANGED <<agent, issued>>
  BY <1>1 DEF Deliver, InactivityTimeout, SlotsRun
<1>4. /\ \A x \in Requests \ {r} :
           /\ proto'.heard[x] = proto.heard[x]
           /\ x \in Live(proto') <=> x \in Live(proto)
           /\ x \in Errored(proto') <=> x \in Errored(proto)
      /\ r \notin Live(proto) => proto' = proto
      /\ \/ g = h
         \/ \E s \in Signals : /\ g = Append(h, s)
                               /\ s.kind = "complete" => r \notin Live(proto')
      /\ r \in Live(proto') => r \in Live(proto)
      /\ r \in Errored(proto') => \/ r \in Errored(proto)
                                 \/ g = Append(h, [kind |-> "error"])
      /\ r \in Live(proto) \ Live(proto') =>
           \/ r \in Errored(proto) /\ g = h
           \/ \E s \in Signals :
                s.kind \in {"complete", "error"} /\ g = Append(h, s)
  BY <1>1, HeardEffect
<1>5. RowsShown'
  <2>1. CASE g = h
    <3>1. chat' = chat
      BY <1>1, <2>1 DEF SlotsRun
    <3>2. \A x \in Requests : proto'.heard[x] = proto.heard[x]
      BY <1>4, <2>1
    <3> QED BY <3>1, <3>2 DEF SettledInv, RowsShown
  <2>2. CASE g # h
    <3>1. chat' = Slot(chat, r, g[Len(g)])
      BY <1>1, <2>2 DEF SlotsRun
    <3>2. g # <<>>
      BY <1>1, <2>2, HeardStays
    <3>3. ~ Completed(h)
      BY <1>4, <2>2 DEF SettledInv, EndsHeard
    <3>4. PICK s \in Signals : g = Append(h, s)
      BY <1>4, <2>2
    <3> HIDE DEF g, h
    <3>5. g[Len(g)] = s
      BY <1>2, <3>4, LastHeard
    <3>6. TextOf(g) = TextOf(h) \o TailOf(s)
      BY <1>2, <3>3, <3>4, TextGrows
    <3>7. RepliedTo(chat, chat', r, StatusOf(g), TailOf(s))
      BY <1>1, <1>2, <3>1, <3>2, <3>5, SlotRows
    <3> SUFFICES ASSUME NEW k \in Keys, NEW i \in DOMAIN chat'.convs[k],
                        NEW x \in Requests, chat'.convs[k][i].requestId = x
                 PROVE  /\ chat'.convs[k][i].status = StatusOf(proto'.heard[x])
                        /\ chat'.convs[k][i].text = TextOf(proto'.heard[x])
      BY DEF RowsShown, StatusOf, TextOf, Completed
    <3>8. CASE x = r
      <4>1. /\ i \in DOMAIN chat.convs[k] /\ chat.convs[k][i].requestId = r
            /\ chat'.convs[k][i].status = StatusOf(g)
            /\ chat'.convs[k][i].text = chat.convs[k][i].text \o TailOf(s)
        BY <3>7, <3>8 DEF RepliedTo
      <4>2. chat.convs[k][i].text = TextOf(h)
        BY <4>1 DEF SettledInv, RowsShown, h
      <4> QED BY <3>6, <3>8, <4>1, <4>2 DEF g
    <3>9. CASE x # r
      <4>1. /\ i \in DOMAIN chat.convs[k] /\ chat'.convs[k][i] = chat.convs[k][i]
            /\ proto'.heard[x] = proto.heard[x]
        BY <1>4, <3>7, <3>9 DEF RepliedTo
      <4> QED BY <4>1 DEF SettledInv, RowsShown
    <3> QED BY <3>8, <3>9
  <2> QED BY <2>1, <2>2
<1>6. ASSUME NEW x \in Requests \ {r}
      PROVE  /\ agent'[x].phase = "idle" => proto'.heard[x] = <<>> /\ x \notin Live(proto')
             /\ x \in Live(proto') => ~ Completed(proto'.heard[x])
             /\ x \in Errored(proto') => Has(proto'.heard[x], "error")
             /\ x \in issued' \ Live(proto') =>
                  SaidEnd(proto'.heard[x]) \/ WentOnAfterError(x)'
  <2>1. WentOnAfterError(x)' <=> WentOnAfterError(x)
    BY <1>4 DEF WentOnAfterError
  <2> QED BY <1>3, <1>4, <2>1 DEF SettledInv, EndsHeard
<1>7. CASE r \notin Live(proto)
  <2>1. proto' = proto
    BY <1>1, <1>7, HeardEffect
  <2>2. EndsHeard'
    BY <1>3, <2>1 DEF SettledInv, EndsHeard, WentOnAfterError
  <2> QED BY <1>5, <2>2
<1>8. CASE r \in Live(proto)
  <2>1. agent'[r].phase # "idle"
    BY <1>3, <1>8 DEF SettledInv, EndsHeard
  <2>2. r \in Errored(proto) => Has(h, "error")
    BY DEF SettledInv, EndsHeard
  <2>3. r \in Errored(proto') => Has(g, "error")
    <3>1. [kind |-> "error"] \in Signals
      BY DEF Signals
    <3> HIDE DEF h, g
    <3>2. g = Append(h, [kind |-> "error"]) => Has(g, "error")
      BY <1>2, <3>1, LastHeard
    <3>3. g # h => \E s \in Signals : g = Append(h, s)
      BY <1>4 DEF g, h
    <3>4. Has(h, "error") => Has(g, "error")
      BY <1>2, <3>3, LastHeard
    <3> QED BY <1>4, <2>2, <3>2, <3>4 DEF g, h
  <2>4. r \in issued' \ Live(proto') => SaidEnd(g) \/ WentOnAfterError(r)'
    <3> SUFFICES ASSUME r \notin Live(proto')
                 PROVE  SaidEnd(g) \/ WentOnAfterError(r)'
      OBVIOUS
    <3>1. CASE r \in Errored(proto) /\ g = h
      BY <1>2, <2>2, <3>1, EndAfterError DEF WentOnAfterError
    <3>2. CASE \E s \in Signals :
                 s.kind \in {"complete", "error"} /\ g = Append(h, s)
      <4>1. PICK s \in Signals :
              s.kind \in {"complete", "error"} /\ g = Append(h, s)
        BY <3>2
      <4> HIDE DEF g, h
      <4>2. g # <<>> /\ g[Len(g)] = s
        BY <1>2, <4>1, LastHeard
      <4> QED BY <4>1, <4>2 DEF SaidEnd
    <3> QED BY <1>4, <1>8, <3>1, <3>2
  <2>5. r \in Live(proto') => ~ Completed(g)
    <3>1. r \in Live(proto) => ~ Completed(h)
      BY DEF SettledInv, EndsHeard
    <3> HIDE DEF g, h
    <3>2. \A s \in Signals : g = Append(h, s) => g # <<>> /\ g[Len(g)] = s
      BY <1>2, LastHeard
    <3> QED BY <1>4, <3>1, <3>2 DEF Completed
  <2>6. EndsHeard'
    <3> SUFFICES ASSUME NEW x \in Requests
                 PROVE  /\ agent'[x].phase = "idle"
                             => proto'.heard[x] = <<>> /\ x \notin Live(proto')
                        /\ x \in Live(proto') => ~ Completed(proto'.heard[x])
                        /\ x \in Errored(proto') => Has(proto'.heard[x], "error")
                        /\ x \in issued' \ Live(proto') =>
                             SaidEnd(proto'.heard[x]) \/ WentOnAfterError(x)'
      BY DEF EndsHeard, Completed
    <3>1. CASE x = r
      BY <2>1, <2>3, <2>4, <2>5, <3>1
    <3>2. CASE x # r
      BY <1>6, <3>2
    <3> QED BY <3>1, <3>2
  <2> QED BY <1>5, <2>6
<1> QED BY <1>7, <1>8

LEMMA TimerSettled ==
  ASSUME SettledInv, NEW r \in Requests, TimerRuns(r)
  PROVE  RowsShown' /\ EndsHeard'
<1>1. IntervalElapses(r) /\ r \in Prompts /\ UNCHANGED <<chat, issued>>
  BY OneAlphabet DEF TimerRuns, chatVars
<1>2. /\ proto'.heard = proto.heard /\ agent' = agent
      /\ Live(proto') = Live(proto) /\ Errored(proto') = Errored(proto)
  BY <1>1, ElapsesEffect
  DEF SettledInv, FlowInv, ProtocolInv, IntervalElapses, netVars
<1>3. RowsShown'
  BY <1>1, <1>2 DEF SettledInv, RowsShown
<1>4. \A x \in Requests : WentOnAfterError(x)' <=> WentOnAfterError(x)
  BY <1>2 DEF WentOnAfterError
<1>5. EndsHeard'
  BY <1>1, <1>2, <1>4 DEF SettledInv, EndsHeard
<1> QED BY <1>3, <1>5

LEMMA SelectSettled ==
  ASSUME SettledInv, NEW k \in Subjects, SelectAgent(k)
  PROVE  RowsShown' /\ EndsHeard'
<1>1. /\ chat'.convs = chat.convs
      /\ UNCHANGED <<proto, agent, issued>>
  BY DEF SelectAgent, SetConversation, SettledInv, FlowInv, ChatInv,
         ChatRecordInv, ChatRecords, protocolVars, netVars
<1> QED BY <1>1 DEF SettledInv, RowsShown, EndsHeard, WentOnAfterError

LEMMA AroundSettled ==
  ASSUME SettledInv, AgentActs \/ LinkMoves, UNCHANGED <<chatVars, appVars>>
  PROVE  RowsShown' /\ EndsHeard'
<1>1. UNCHANGED <<chat, issued>> /\ Requests = Prompts
  BY OneAlphabet DEF chatVars
<1>2. agent \in [Prompts -> Agents]
  BY DEF SettledInv, FlowInv, ProtocolInv, ProtocolTypeOK, Agents
<1>3. /\ proto' = proto
      /\ \A x \in Prompts : agent'[x].phase = "idle" => agent[x].phase = "idle"
  <2>1. CASE AgentActs
    <3>1. PICK r \in Prompts : AgentSays(r) \/ AgentFails(r) \/ AgentEnds(r)
      BY <2>1 DEF AgentActs
    <3>2. \A x \in Prompts : agent'[x].phase = "idle" => agent[x].phase = "idle"
      BY <1>2, <3>1 DEF AgentSays, AgentFails, AgentEnds, Agents
    <3> QED BY <2>1, <3>2 DEF AgentActs
  <2>2. CASE OpenConnection
    <3>1. PICK absent : Reach(waiting, absent)
      BY <2>2 DEF OpenConnection
    <3>2. \A x \in Prompts : agent'[x].phase = "idle" => agent[x].phase = "idle"
      BY <1>2, <3>1 DEF Reach, Idle
    <3> QED BY <2>2, <3>2 DEF OpenConnection
  <2>3. CASE LinkMoves /\ ~ OpenConnection
    BY <2>3 DEF LinkMoves, Dial, LoseConnection, ForgetConnection, netVars
  <2> QED BY <2>1, <2>2, <2>3
<1> QED BY <1>1, <1>3 DEF SettledInv, RowsShown, EndsHeard, WentOnAfterError

(* A retained row shows what was heard of its request, and the last thing  *)
(* heard of a request that is over was its end, unless responses came      *)
(* behind an error.                                                        *)
THEOREM SettledInvariant == FlowSpec => []SettledInv
<1>1. FlowInit => RowsShown /\ EndsHeard
  <2> SUFFICES ASSUME FlowInit PROVE RowsShown /\ EndsHeard
    OBVIOUS
  <2>1. \A k \in Keys : chat.convs[k] = <<>>
    BY DEF FlowInit, ChatInit, EmptyChat, Keys
  <2>2. \A r \in Requests : proto.heard[r] = <<>>
    BY OneAlphabet, NewIsEmpty DEF FlowInit, ProtocolInit
  <2>3. Live(proto) = {} /\ Errored(proto) = {} /\ issued = {}
    BY NewIsEmpty DEF FlowInit, ChatInit, ProtocolInit, Errored
  <2> QED BY <2>1, <2>2, <2>3 DEF RowsShown, EndsHeard, Completed
<1>2. SettledInv /\ FlowInv' /\ [FlowNext]_flowVars => RowsShown' /\ EndsHeard'
  <2> SUFFICES ASSUME SettledInv, FlowInv', [FlowNext]_flowVars
               PROVE  RowsShown' /\ EndsHeard'
    OBVIOUS
  <2>1. ASSUME NEW k \in Subjects, SelectAgent(k)
        PROVE  RowsShown' /\ EndsHeard'
    BY <2>1, SelectSettled
  <2>2. ASSUME NEW r \in Requests, Send(r) PROVE RowsShown' /\ EndsHeard'
    BY <2>2, SendSettled
  <2>3. ASSUME NEW r \in Requests, Message(r) \/ Timeout(r)
        PROVE  RowsShown' /\ EndsHeard'
    BY <2>3, MessageSettled
  <2>6. ASSUME NEW r \in Requests, TimerRuns(r) PROVE RowsShown' /\ EndsHeard'
    BY <2>6, TimerSettled
  <2>4. CASE (AgentActs \/ LinkMoves) /\ UNCHANGED <<chatVars, appVars>>
    BY <2>4, AroundSettled
  <2>5. CASE UNCHANGED flowVars
    <3>1. UNCHANGED <<chat, issued, proto, agent>>
      BY <2>5 DEF flowVars, chatVars, protocolVars, netVars
    <3> QED
      BY <3>1 DEF SettledInv, RowsShown, EndsHeard, WentOnAfterError
  <2> QED BY <2>1, <2>2, <2>3, <2>4, <2>5, <2>6 DEF FlowNext
<1> QED BY <1>1, <1>2, FlowInvariant, PTL DEF FlowSpec, SettledInv

(* What the invariant says of the row a property asks for.                 *)
LEMMA RowShows ==
  ASSUME SettledInv, NEW r \in Requests, Retained(r)
  PROVE  /\ Row(r).text = TextOf(proto.heard[r])
         /\ Row(r).status = StatusOf(proto.heard[r])
<1> DEFINE k == CHOOSE s \in Subjects : RowsOf(chat.convs[s], r) # {}
           i == RowForRequest(chat.convs[k], r)
<1>1. k \in Subjects /\ RowsOf(chat.convs[k], r) # {}
  BY DEF Retained
<1>2. k \in Keys /\ Row(r) = chat.convs[k][i]
  BY <1>1 DEF Keys, Row
<1> HIDE DEF k
<1>3. ChatRecordInv(chat, issued)
  BY DEF SettledInv, FlowInv, ChatInv
<1>4. i \in RowsOf(chat.convs[k], r)
  BY <1>1, <1>2, <1>3, RowFound
<1>5. i \in DOMAIN chat.convs[k] /\ chat.convs[k][i].requestId = r
  BY <1>4 DEF RowsOf
<1> QED BY <1>2, <1>5 DEF SettledInv, RowsShown

(* Every retained answer shows exactly the chunks and errors its agent's   *)
(* stream delivered, in order, whichever conversation is on screen.        *)
THEOREM AnswersShowReplies == FlowSpec => []ShowsWhatWasHeard
<1>1. SettledInv => ShowsWhatWasHeard
  BY RowShows DEF ShowsWhatWasHeard
<1> QED BY <1>1, SettledInvariant, PTL

(* Nothing is heard behind an error but another error: for agents that     *)
(* send nothing but the terminator then.                                   *)
Obedient == \A r \in Prompts : ~ WentOnAfterError(r)

LEMMA ObedientStep ==
  ASSUME ProtocolTypeOK, Obedient, [Stream!StreamNext]_Stream!streamVars
  PROVE  Obedient'
<1>1. CASE UNCHANGED proto.heard
  BY <1>1 DEF Obedient, WentOnAfterError
<1>2. CASE ~ UNCHANGED proto.heard
  <2>1. PICK r \in Prompts, s \in Signals :
          /\ proto'.heard = [proto.heard EXCEPT ![r] = Append(@, s)]
          /\ \/ s.kind = "response" /\ ~ Stream!Failed(r)
             \/ s.kind \in {"complete", "error"}
    <3>1. PICK r \in Prompts :
            \/ \E n \in 1 .. MaxChunks : Stream!Respond(r, n)
            \/ Stream!Report(r) \/ Stream!Succeed(r) \/ Stream!Fail(r)
      BY <1>2 DEF Stream!StreamNext, Stream!streamVars, Stream!Open,
                  Stream!EndFailed
    <3>2. /\ \A n \in 1 .. MaxChunks : [kind |-> "response", n |-> n] \in Signals
          /\ [kind |-> "error"] \in Signals /\ [kind |-> "complete"] \in Signals
      BY DEF Signals, Chunks
    <3>3. CASE \E n \in 1 .. MaxChunks : Stream!Respond(r, n)
      <4>1. PICK n \in 1 .. MaxChunks : Stream!Respond(r, n)
        BY <3>3
      <4> DEFINE t == [kind |-> "response", n |-> n]
      <4>2. t \in Signals /\ t.kind = "response"
        BY <3>2
      <4>3. ~ Stream!Failed(r) /\ Stream!Emits(r, t)
        BY <4>1 DEF Stream!Respond
      <4> HIDE DEF t
      <4> QED BY <4>2, <4>3 DEF Stream!Emits
    <3>4. CASE Stream!Report(r) \/ Stream!Succeed(r) \/ Stream!Fail(r)
      <4> DEFINE t == [kind |-> "error"]
                 u == [kind |-> "complete"]
      <4>1. t \in Signals /\ t.kind = "error" /\ u \in Signals /\ u.kind = "complete"
        BY <3>2
      <4>2. Stream!Emits(r, t) \/ Stream!Emits(r, u)
        BY <3>4 DEF Stream!Report, Stream!Succeed, Stream!Fail, Stream!Error,
                    Stream!Complete
      <4> HIDE DEF t, u
      <4> QED BY <4>1, <4>2 DEF Stream!Emits
    <3> QED BY <3>1, <3>3, <3>4
  <2> SUFFICES ASSUME NEW x \in Prompts PROVE ~ WentOnAfterError(x)'
    BY DEF Obedient, WentOnAfterError
  <2>2. /\ proto.heard \in [Prompts -> Seq(Signals)]
        /\ proto.heard[x] \in Seq(Signals) /\ ~ WentOnAfterError(x)
    BY Held DEF ProtocolTypeOK, Obedient
  <2>3. CASE x # r
    <3>1. proto'.heard[x] = proto.heard[x]
      BY <2>1, <2>2, <2>3
    <3> QED BY <2>2, <3>1 DEF WentOnAfterError
  <2>4. CASE x = r
    <3> DEFINE h == proto.heard[x]
               g == proto'.heard[x]
    <3>1. g = Append(h, s)
      BY <2>1, <2>2, <2>4
    <3>2. Stream!Failed(x) <=> Has(h, "error")
      <4>1. \A t \in Signals : t.kind = "error" <=> t = [kind |-> "error"]
        BY DEF Signals
      <4>2. \A i \in DOMAIN h : h[i] \in Signals
        BY <2>2
      <4> QED BY <4>1, <4>2 DEF Stream!Failed, Stream!Error, Has
    <3>3. \A i, j \in DOMAIN h :
            ~ (i < j /\ h[i].kind = "error" /\ h[j].kind = "response")
      BY <2>2 DEF WentOnAfterError
    <3>4. h \in Seq(Signals)
      BY <2>2
    <3> HIDE DEF h, g
    <3>5. /\ DOMAIN g = 1 .. Len(h) + 1 /\ DOMAIN h = 1 .. Len(h)
          /\ Len(h) \in Nat /\ g[Len(h) + 1] = s
          /\ \A i \in DOMAIN h : g[i] = h[i]
      BY <3>1, <3>4
    <3>6. \A i, j \in DOMAIN g :
            ~ (i < j /\ g[i].kind = "error" /\ g[j].kind = "response")
      <4> SUFFICES ASSUME NEW i \in DOMAIN g, NEW j \in DOMAIN g, i < j,
                          g[i].kind = "error", g[j].kind = "response"
                   PROVE  FALSE
        OBVIOUS
      <4>1. i \in DOMAIN h /\ h[i].kind = "error"
        BY <3>5
      <4>2. CASE j \in DOMAIN h
        BY <3>3, <3>5, <4>1, <4>2
      <4>3. CASE j = Len(h) + 1
        <5>1. s.kind = "response" /\ Has(h, "error")
          BY <3>5, <4>1, <4>3 DEF Has
        <5> QED BY <2>1, <2>4, <3>2, <5>1
      <4> QED BY <3>5, <4>2, <4>3
    <3> QED BY <3>6 DEF WentOnAfterError, g
  <2> QED BY <2>3, <2>4
<1> QED BY <1>1, <1>2

(* The row of a request that is over is settled, if agents send nothing    *)
(* behind an error but the terminator: then no row stays "streaming" for   *)
(* good, whatever is lost.                                                 *)
THEOREM RowsSettle ==
  ErrorEndsStream => (FlowSpec => []FinishedRowsSettled)
<1> SUFFICES ASSUME ErrorEndsStream PROVE FlowSpec => []FinishedRowsSettled
  OBVIOUS
<1>1. ProtocolInit => Obedient
  BY NewIsEmpty DEF ProtocolInit, Obedient, WentOnAfterError
<1>2. ProtocolTypeOK /\ Obedient /\ [Stream!StreamNext]_Stream!streamVars
        => Obedient'
  BY ObedientStep
<1>3. ProtocolSpec => []Obedient
  BY <1>1, <1>2, ProtocolTypes, ProtocolImplementsStream, PTL
  DEF ProtocolSpec, ImplementsStream, Stream!StreamSpec
<1>4. SettledInv /\ Obedient => FinishedRowsSettled
  <2> SUFFICES ASSUME SettledInv, Obedient, NEW r \in issued \ Live(proto),
                      Retained(r)
               PROVE  Row(r).status \in {"done", "error"}
    BY DEF FinishedRowsSettled
  <2>1. r \in Requests /\ SaidEnd(proto.heard[r])
    BY OneAlphabet DEF SettledInv, FlowInv, ChatInv, EndsHeard, Obedient
  <2>2. StatusOf(proto.heard[r]) \in {"done", "error"}
    BY <2>1 DEF SaidEnd, StatusOf
  <2> QED BY <2>1, <2>2, RowShows
<1> QED BY <1>3, <1>4, SettledInvariant, FlowImplementsProtocol, PTL
=============================================================================
