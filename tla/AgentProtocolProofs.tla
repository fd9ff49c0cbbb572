------------------------ MODULE AgentProtocolProofs ------------------------
(***************************************************************************)
(* Types and subscriptions of AgentProtocol for any number of prompts and  *)
(* connections, and, with agents that send nothing but the terminator      *)
(* after an error, that each request is a PromptStream to its caller. The  *)
(* lemmas are about one request: what its caller heard, what is on its     *)
(* way, and how far its agent is.                                          *)
(***************************************************************************)
EXTENDS AgentProtocol, SequenceTheorems, TLAPS

(* The two invariants together are inductive: the timer and the messages   *)
(* end a request and its subscription at once.                             *)
ProtocolInv == ProtocolTypeOK /\ NoOrphanInbox

LEMMA OneSignal ==
  ASSUME NEW s \in Signals
  PROVE  <<s>> \in Seq(Signals)
OBVIOUS

LEMMA SignalsTyped ==
  ASSUME NEW p \in Protocols, NEW r \in Prompts, NEW m \in Messages
  PROVE  SignalsOf(p, r, m) \in Seq(Signals)
<1>1. CASE m.kind = "chunk"
  <2>1. SignalsOf(p, r, m) = <<[kind |-> "response", n |-> m.n]>>
    BY <1>1 DEF SignalsOf
  <2>2. [kind |-> "response", n |-> m.n] \in Signals
    BY <1>1 DEF Messages, Signals
  <2> QED BY <2>1, <2>2, OneSignal
<1>2. CASE m.kind \in {"error", "unreachable"}
  <2>1. SignalsOf(p, r, m) = <<[kind |-> "error"]>>
    BY <1>2 DEF SignalsOf
  <2>2. [kind |-> "error"] \in Signals
    BY DEF Signals
  <2> QED BY <2>1, <2>2, OneSignal
<1>3. CASE m.kind = "terminator"
  <2>1. SignalsOf(p, r, m) \in {<<>>, <<[kind |-> "complete"]>>}
    BY <1>3 DEF SignalsOf
  <2>2. <<[kind |-> "complete"]>> \in Seq(Signals)
    BY OneSignal DEF Signals
  <2>3. <<>> \in Seq(Signals)
    OBVIOUS
  <2> QED BY <2>1, <2>2, <2>3
<1>4. CASE m.kind = "other"
  <2>1. SignalsOf(p, r, m) = <<>>
    BY <1>4 DEF SignalsOf
  <2> QED BY <2>1
<1> QED BY <1>1, <1>2, <1>3, <1>4 DEF Messages

(* m_bySid, whatever it holds; and what is made of it entry by entry.      *)
LEMMA Held ==
  ASSUME NEW p \in Protocols
  PROVE  /\ Live(p) \in SUBSET Prompts /\ p.bySid \in [Live(p) -> Entries]
         /\ p.heard \in [Prompts -> Seq(Signals)]
         /\ p = [bySid |-> p.bySid, heard |-> p.heard]
         /\ Errored(p) \subseteq Live(p)
<1>1. PICK live \in SUBSET Prompts : p.bySid \in [live -> Entries]
  BY DEF Protocols
<1>2. Live(p) = live
  BY <1>1 DEF Live
<1> QED BY <1>1, <1>2 DEF Protocols, Errored

LEMMA Holding ==
  ASSUME NEW q, NEW live, NEW entries, NEW heard,
         live \in SUBSET Prompts, entries \in [live -> Entries],
         heard \in [Prompts -> Seq(Signals)],
         q = [bySid |-> entries, heard |-> heard]
  PROVE  /\ q \in Protocols /\ Live(q) = live /\ q.heard = heard
         /\ Errored(q) = {r \in live : entries[r].errored}
BY DEF Protocols, Live, Errored

(* What is heard of r, after the signals s more.                           *)
Longer(heard, r, s) == [heard EXCEPT ![r] = @ \o s]

LEMMA EmitTyped ==
  ASSUME NEW p \in Protocols, NEW r \in Prompts, NEW s \in Seq(Signals)
  PROVE  /\ Emit(p, r, s) \in Protocols
         /\ Live(Emit(p, r, s)) = Live(p)
         /\ Errored(Emit(p, r, s)) = Errored(p)
         /\ Emit(p, r, s).heard = Longer(p.heard, r, s)
<1> DEFINE heard == [p.heard EXCEPT ![r] = @ \o s]
<1>1. p.heard[r] \o s \in Seq(Signals)
  BY ConcatProperties, Held
<1>2. heard \in [Prompts -> Seq(Signals)]
  BY <1>1, Held
<1>3. Emit(p, r, s) = [p EXCEPT !.heard = heard]
  BY DEF Emit
<1>4. /\ p = [bySid |-> p.bySid, heard |-> p.heard]
      /\ Live(p) \in SUBSET Prompts /\ p.bySid \in [Live(p) -> Entries]
  BY Held
<1> HIDE DEF heard
<1>5. Emit(p, r, s) = [bySid |-> p.bySid, heard |-> heard]
  BY <1>3, <1>4
<1>6. /\ Emit(p, r, s) \in Protocols /\ Live(Emit(p, r, s)) = Live(p)
      /\ Emit(p, r, s).heard = heard
      /\ Errored(Emit(p, r, s)) = {x \in Live(p) : p.bySid[x].errored}
  BY <1>2, <1>4, <1>5, Holding
<1> QED BY <1>6 DEF heard, Errored, Longer

LEMMA FinishTyped ==
  ASSUME NEW p \in Protocols, NEW r \in Prompts
  PROVE  /\ Finish(p, r) \in Protocols
         /\ Finish(p, r).heard = p.heard
         /\ Live(Finish(p, r)) = Live(p) \ {r}
         /\ Errored(Finish(p, r)) = Errored(p) \ {r}
<1> DEFINE left == Live(p) \ {r}
           entries == [q \in left |-> p.bySid[q]]
<1>1. left \in SUBSET Prompts /\ entries \in [left -> Entries]
  BY Held
<1>2. Finish(p, r) = [bySid |-> entries, heard |-> p.heard]
  BY Held DEF Finish
<1>3. \A q \in left : entries[q] = p.bySid[q]
  OBVIOUS
<1>4. left = Live(p) \ {r}
  OBVIOUS
<1> HIDE DEF left, entries
<1>5. /\ Finish(p, r) \in Protocols /\ Live(Finish(p, r)) = left
      /\ Finish(p, r).heard = p.heard
      /\ Errored(Finish(p, r)) = {q \in left : entries[q].errored}
  <2>1. p.heard \in [Prompts -> Seq(Signals)]
    BY Held
  <2> QED BY ONLY <1>1, <1>2, <2>1, Holding
<1> QED BY <1>3, <1>4, <1>5 DEF Errored

LEMMA BeginTyped ==
  ASSUME NEW p \in Protocols, NEW r \in Prompts
  PROVE  /\ Begin(p, r) \in Protocols
         /\ Begin(p, r).heard = p.heard
         /\ Live(Begin(p, r)) = Live(p) \cup {r}
         /\ Errored(Begin(p, r)) = Errored(p) \ {r}
<1> DEFINE more == Live(p) \cup {r}
           entries == [q \in more |-> IF q = r THEN NewEntry ELSE p.bySid[q]]
<1>1. NewEntry \in Entries /\ ~ NewEntry.errored
  BY DEF NewEntry, Entries
<1>2. more \in SUBSET Prompts /\ entries \in [more -> Entries]
  BY <1>1, Held
<1>3. Begin(p, r) = [bySid |-> entries, heard |-> p.heard]
  <2>1. Begin(p, r) = [p EXCEPT !.bySid = entries]
    BY DEF Begin
  <2>2. p = [bySid |-> p.bySid, heard |-> p.heard]
    BY Held
  <2> HIDE DEF entries
  <2> QED BY <2>1, <2>2
<1>4. \A q \in more : entries[q] = IF q = r THEN NewEntry ELSE p.bySid[q]
  OBVIOUS
<1>5. more = Live(p) \cup {r}
  OBVIOUS
<1> HIDE DEF more, entries
<1>6. /\ Begin(p, r) \in Protocols /\ Live(Begin(p, r)) = more
      /\ Begin(p, r).heard = p.heard
      /\ Errored(Begin(p, r)) = {q \in more : entries[q].errored}
  <2>1. p.heard \in [Prompts -> Seq(Signals)]
    BY Held
  <2> QED BY ONLY <1>2, <1>3, <2>1, Holding
<1> QED BY <1>1, <1>4, <1>5, <1>6 DEF Errored

(* One entry rewritten.                                                    *)
LEMMA EntrySet ==
  ASSUME NEW p \in Protocols, NEW r \in Live(p), NEW e \in Entries
  PROVE  LET q == [p EXCEPT !.bySid[r] = e]
         IN /\ q \in Protocols /\ q.heard = p.heard /\ Live(q) = Live(p)
            /\ Errored(q) = IF e.errored THEN Errored(p) \cup {r}
                            ELSE Errored(p) \ {r}
<1> DEFINE entries == [p.bySid EXCEPT ![r] = e]
           q == [p EXCEPT !.bySid[r] = e]
<1>1. entries \in [Live(p) -> Entries]
  BY Held
<1>2. q = [bySid |-> entries, heard |-> p.heard]
  <2>1. q = [p EXCEPT !.bySid = entries]
    OBVIOUS
  <2>2. p = [bySid |-> p.bySid, heard |-> p.heard]
    BY Held
  <2> HIDE DEF entries, q
  <2> QED BY <2>1, <2>2
<1>3. \A x \in Live(p) : entries[x] = IF x = r THEN e ELSE p.bySid[x]
  BY Held
<1> HIDE DEF entries, q
<1>4. /\ q \in Protocols /\ Live(q) = Live(p) /\ q.heard = p.heard
      /\ Errored(q) = {x \in Live(p) : entries[x].errored}
  <2>1. p.heard \in [Prompts -> Seq(Signals)] /\ Live(p) \in SUBSET Prompts
    BY Held
  <2> QED BY ONLY <1>1, <1>2, <2>1, Holding
<1>5. Errored(q) = IF e.errored THEN Errored(p) \cup {r} ELSE Errored(p) \ {r}
  BY <1>3, <1>4 DEF Errored
<1> QED BY <1>4, <1>5 DEF q

(* The timer moves, and the mark of an error is set.                       *)
LEMMA TimerSet ==
  ASSUME NEW p \in Protocols, NEW r \in Live(p), NEW t \in {"running", "due"}
  PROVE  LET q == [p EXCEPT !.bySid[r].timer = t]
         IN /\ q \in Protocols /\ q.heard = p.heard /\ Live(q) = Live(p)
            /\ Errored(q) = Errored(p)
<1> DEFINE e == [p.bySid[r] EXCEPT !.timer = t]
<1>1. p.bySid[r] \in Entries /\ (p.bySid[r].errored <=> r \in Errored(p))
  BY Held DEF Errored
<1>2. e \in Entries /\ e.errored = p.bySid[r].errored
  BY <1>1 DEF Entries
<1> DEFINE q == [p EXCEPT !.bySid[r] = e]
<1>3. [p EXCEPT !.bySid[r].timer = t] = q
  OBVIOUS
<1> HIDE DEF e
<1>4. /\ q \in Protocols /\ q.heard = p.heard /\ Live(q) = Live(p)
      /\ Errored(q) = IF e.errored THEN Errored(p) \cup {r} ELSE Errored(p) \ {r}
  BY <1>2, EntrySet
<1> HIDE DEF q
<1>5. Errored(q) = Errored(p)
  BY <1>1, <1>2, <1>4
<1> QED BY <1>3, <1>4, <1>5

LEMMA ErrorSet ==
  ASSUME NEW p \in Protocols, NEW r \in Live(p)
  PROVE  LET q == [p EXCEPT !.bySid[r].errored = TRUE]
         IN /\ q \in Protocols /\ q.heard = p.heard /\ Live(q) = Live(p)
            /\ Errored(q) = Errored(p) \cup {r}
<1> DEFINE e == [p.bySid[r] EXCEPT !.errored = TRUE]
<1>1. p.bySid[r] \in Entries
  BY Held
<1>2. e \in Entries /\ e.errored
  BY <1>1 DEF Entries
<1> DEFINE q == [p EXCEPT !.bySid[r] = e]
<1>3. [p EXCEPT !.bySid[r].errored = TRUE] = q
  OBVIOUS
<1> HIDE DEF e
<1>4. /\ q \in Protocols /\ q.heard = p.heard /\ Live(q) = Live(p)
      /\ Errored(q) = IF e.errored THEN Errored(p) \cup {r} ELSE Errored(p) \ {r}
  BY <1>2, EntrySet
<1> HIDE DEF q
<1> QED BY <1>2, <1>3, <1>4

(* What a message makes of the object: nothing of a request that is over;  *)
(* else its signals are heard, and it may mark or end the request.         *)
LEMMA MessageEffect ==
  ASSUME NEW p \in Protocols, NEW r \in Prompts, NEW m \in Messages
  PROVE  LET q == OnMessage(p, r, m)
         IN /\ q \in Protocols
            /\ r \notin Live(p) => q = p
            /\ r \in Live(p) =>
                 /\ q.heard = [p.heard EXCEPT ![r] = @ \o SignalsOf(p, r, m)]
                 /\ Live(q) = IF Ends(m) THEN Live(p) \ {r} ELSE Live(p)
                 /\ Errored(q) = IF Ends(m) THEN Errored(p) \ {r}
                                ELSE IF m.kind = "error" THEN Errored(p) \cup {r}
                                ELSE Errored(p)
<1>1. CASE r \notin Live(p)
  BY <1>1 DEF OnMessage
<1>2. CASE r \in Live(p)
  <2> DEFINE sig == SignalsOf(p, r, m)
             d == ResetInactivity(p, r)
             e == Emit(d, r, sig)
  <2>1. /\ d \in Protocols /\ d.heard = p.heard
        /\ Live(d) = Live(p) /\ Errored(d) = Errored(p)
    BY <1>2, TimerSet DEF ResetInactivity
  <2>2. sig \in Seq(Signals)
    BY SignalsTyped
  <2>3. OnMessage(p, r, m) =
          IF Ends(m) THEN Finish(e, r)
          ELSE IF m.kind = "error" THEN [e EXCEPT !.bySid[r].errored = TRUE]
          ELSE e
    BY <1>2 DEF OnMessage
  <2> HIDE DEF d, sig
  <2>4. /\ e \in Protocols /\ e.heard = [p.heard EXCEPT ![r] = @ \o sig]
        /\ Live(e) = Live(p) /\ Errored(e) = Errored(p)
    <3>1. /\ e \in Protocols /\ e.heard = Longer(d.heard, r, sig)
          /\ Live(e) = Live(d) /\ Errored(e) = Errored(d)
      BY <2>1, <2>2, EmitTyped, Zenon
    <3> HIDE DEF e
    <3> QED BY ONLY <2>1, <3>1 DEF Longer
  <2> HIDE DEF e
  <2>5. CASE Ends(m)
    BY <1>2, <2>3, <2>4, <2>5, FinishTyped DEF sig
  <2>6. CASE ~ Ends(m) /\ m.kind = "error"
    <3> DEFINE q == [e EXCEPT !.bySid[r].errored = TRUE]
    <3>1. /\ q \in Protocols /\ q.heard = e.heard
          /\ Live(q) = Live(e) /\ Errored(q) = Errored(e) \cup {r}
      BY <1>2, <2>4, ErrorSet
    <3> HIDE DEF q
    <3>2. OnMessage(p, r, m) = q
      BY <2>3, <2>6 DEF q
    <3> QED BY <1>2, <2>4, <2>6, <3>1, <3>2 DEF sig
  <2>7. CASE ~ Ends(m) /\ m.kind # "error"
    BY <1>2, <2>3, <2>4, <2>7 DEF sig
  <2> QED BY <2>5, <2>6, <2>7
<1> QED BY <1>1, <1>2

LEMMA TimeoutEffect ==
  ASSUME NEW p \in Protocols, NEW r \in Prompts
  PROVE  LET q == OnTimeout(p, r)
         IN /\ q \in Protocols
            /\ Live(q) = Live(p) \ {r} /\ Errored(q) = Errored(p) \ {r}
            /\ q.heard = [p.heard EXCEPT ![r] = @ \o <<[kind |-> "error"]>>]
<1> DEFINE d == Finish(p, r)
<1>1. /\ d \in Protocols /\ d.heard = p.heard
      /\ Live(d) = Live(p) \ {r} /\ Errored(d) = Errored(p) \ {r}
  BY FinishTyped
<1>2. <<[kind |-> "error"]>> \in Seq(Signals)
  BY OneSignal DEF Signals
<1> DEFINE sig == <<[kind |-> "error"]>>
           e == Emit(d, r, sig)
<1>3. OnTimeout(p, r) = e
  BY DEF OnTimeout
<1>4. sig \in Seq(Signals)
  BY <1>2
<1> HIDE DEF d, sig
<1>5. /\ e \in Protocols /\ e.heard = Longer(d.heard, r, sig)
      /\ Live(e) = Live(d) /\ Errored(e) = Errored(d)
  BY <1>1, <1>4, EmitTyped, Zenon
<1> HIDE DEF e
<1>6. /\ e \in Protocols /\ e.heard = Longer(p.heard, r, sig)
      /\ Live(e) = Live(p) \ {r} /\ Errored(e) = Errored(p) \ {r}
  BY ONLY <1>1, <1>5
<1> QED BY <1>3, <1>6 DEF sig, Longer

(* What is on its way, after a message more.                               *)
LEMMA TransmitTyped ==
  ASSUME ProtocolTypeOK, NEW r \in Prompts, NEW m \in Messages, Transmit(r, m)
  PROVE  inflight' \in [Prompts -> Seq(Messages)]
<1>1. Append(inflight[r], m) \in Seq(Messages)
  BY AppendProperties DEF ProtocolTypeOK
<1> QED BY <1>1 DEF Transmit, ProtocolTypeOK

Agents == [phase : {"idle", "unasked", "absent", "answering", "failed", "closed"},
           said : 0 .. MaxChunks]

LEMMA ReachTyped ==
  ASSUME ProtocolTypeOK, NEW asked, NEW absent, Reach(asked, absent)
  PROVE  /\ agent' \in [Prompts -> Agents]
         /\ inflight' \in [Prompts -> Seq(Messages)]
<1>1. \A r \in Prompts :
        Append(inflight[r], [kind |-> "unreachable"]) \in Seq(Messages)
  <2>1. [kind |-> "unreachable"] \in Messages
    BY DEF Messages
  <2> QED BY <2>1, AppendProperties DEF ProtocolTypeOK
<1>2. \A r \in Prompts : inflight[r] \in Seq(Messages) /\ agent[r] \in Agents
  BY DEF ProtocolTypeOK, Agents
<1>3. \A x \in {"absent", "answering"} : [Idle EXCEPT !.phase = x] \in Agents
  BY ProtocolAssumption DEF Idle, Agents
<1>4. \A r \in Prompts :
        [Idle EXCEPT !.phase = IF r \in absent THEN "absent" ELSE "answering"]
          \in Agents
  BY <1>3
<1> QED BY <1>1, <1>2, <1>4 DEF Reach
------------------------------------------------------------------------------
(* One lemma per action of the model.                                      *)
LEMMA SendPromptInv ==
  ASSUME ProtocolInv, NEW r \in Prompts, SendPrompt(r)
  PROVE  ProtocolInv'
<1>1. proto' \in Protocols /\ Live(proto') = Live(proto) \cup {r}
  BY BeginTyped DEF ProtocolInv, ProtocolTypeOK, SendPrompt
<1>2. UNCHANGED <<connects, linkVars>>
  BY DEF SendPrompt
<1>3. CASE link = "up"
  <2>1. routed' = routed \cup {r} /\ UNCHANGED waiting
    BY <1>3 DEF SendPrompt
  <2>2. PICK absent : Reach({r}, absent)
    BY <1>3 DEF SendPrompt
  <2>3. agent' \in [Prompts -> Agents] /\ inflight' \in [Prompts -> Seq(Messages)]
    BY <2>2, ReachTyped DEF ProtocolInv
  <2> QED
    BY <1>1, <1>2, <1>3, <2>1, <2>3
    DEF ProtocolInv, ProtocolTypeOK, NoOrphanInbox, Agents, LinkTypeOK, linkVars
<1>4. CASE link # "up"
  <2>1. /\ waiting' \in {waiting, waiting \cup {r}}
        /\ agent' = [agent EXCEPT ![r].phase = "unasked"]
        /\ UNCHANGED <<routed, inflight>>
    BY <1>4 DEF SendPrompt
  <2>2. agent' \in [Prompts -> Agents]
    BY <2>1 DEF ProtocolInv, ProtocolTypeOK, Agents
  <2> QED
    BY <1>1, <1>2, <2>1, <2>2
    DEF ProtocolInv, ProtocolTypeOK, NoOrphanInbox, Agents, LinkTypeOK, linkVars
<1> QED BY <1>3, <1>4

LEMMA DeliverInv ==
  ASSUME ProtocolInv, NEW r \in Prompts, Deliver(r)
  PROVE  ProtocolInv'
<1>1. Head(inflight[r]) \in Messages /\ Tail(inflight[r]) \in Seq(Messages)
  BY HeadTailProperties DEF ProtocolInv, ProtocolTypeOK, Deliver
<1>2. proto' = OnMessage(proto, r, Head(inflight[r]))
  BY DEF Deliver
<1>3. proto' \in Protocols /\ Live(proto') \subseteq Live(proto)
  <2> DEFINE m == Head(inflight[r])
             q == OnMessage(proto, r, m)
  <2>1. proto \in Protocols
    BY DEF ProtocolInv, ProtocolTypeOK
  <2>2. /\ q \in Protocols
        /\ r \notin Live(proto) => q = proto
        /\ r \in Live(proto) =>
             Live(q) = IF Ends(m) THEN Live(proto) \ {r} ELSE Live(proto)
    BY <1>1, <2>1, MessageEffect
  <2> HIDE DEF m, q
  <2>3. Live(q) \subseteq Live(proto)
    BY <2>2
  <2> QED BY <1>2, <2>2, <2>3 DEF m, q
<1>4. routed' = routed \cap Live(proto')
  BY DEF Deliver, Unsubscribed
<1>5. inflight' \in [Prompts -> Seq(Messages)]
  BY <1>1 DEF ProtocolInv, ProtocolTypeOK, Deliver
<1> QED
  BY <1>3, <1>4, <1>5
  DEF ProtocolInv, ProtocolTypeOK, NoOrphanInbox, Deliver, LinkTypeOK, linkVars

(* The timer of a request moves, and nothing else of it.                   *)
LEMMA ElapsesEffect ==
  ASSUME ProtocolTypeOK, NEW r \in Prompts, IntervalElapses(r)
  PROVE  /\ proto' \in Protocols /\ proto'.heard = proto.heard
         /\ Live(proto') = Live(proto) /\ Errored(proto') = Errored(proto)
<1>1. proto \in Protocols /\ r \in Live(proto)
  BY DEF ProtocolTypeOK, IntervalElapses
<1>2. proto' = [proto EXCEPT !.bySid[r].timer = "due"]
  BY DEF IntervalElapses
<1> QED BY <1>1, <1>2, TimerSet

LEMMA IntervalElapsesInv ==
  ASSUME ProtocolInv, NEW r \in Prompts, IntervalElapses(r)
  PROVE  ProtocolInv'
<1>1. proto' \in Protocols /\ Live(proto') = Live(proto)
  BY ElapsesEffect DEF ProtocolInv
<1> QED
  BY <1>1
  DEF ProtocolInv, ProtocolTypeOK, NoOrphanInbox, IntervalElapses,
      LinkTypeOK, linkVars, netVars

LEMMA InactivityTimeoutInv ==
  ASSUME ProtocolInv, NEW r \in Prompts, InactivityTimeout(r)
  PROVE  ProtocolInv'
<1>1. proto' \in Protocols /\ Live(proto') \subseteq Live(proto)
  <2>1. proto \in Protocols
    BY DEF ProtocolInv, ProtocolTypeOK
  <2>2. proto' = OnTimeout(proto, r)
    BY DEF InactivityTimeout
  <2>3. proto' \in Protocols /\ Live(proto') = Live(proto) \ {r}
    BY <2>1, <2>2, TimeoutEffect
  <2> QED BY <2>3
<1>2. routed' = routed \cap Live(proto')
  BY DEF InactivityTimeout, Unsubscribed
<1> QED
  BY <1>1, <1>2
  DEF ProtocolInv, ProtocolTypeOK, NoOrphanInbox, InactivityTimeout,
      LinkTypeOK, linkVars

LEMMA AgentActsInv ==
  ASSUME ProtocolInv, AgentActs
  PROVE  ProtocolInv'
<1>1. PICK r \in Prompts : AgentSays(r) \/ AgentFails(r) \/ AgentEnds(r)
  BY DEF AgentActs
<1>2. agent' \in [Prompts -> Agents] /\ inflight' \in [Prompts -> Seq(Messages)]
  <2>1. CASE AgentSays(r)
    <3>1. agent[r].said + 1 \in Chunks
      BY <2>1, ProtocolAssumption
      DEF ProtocolInv, ProtocolTypeOK, AgentSays, Chunks
    <3>2. /\ [kind |-> "chunk", n |-> agent[r].said + 1] \in Messages
          /\ [kind |-> "other"] \in Messages
      BY <3>1 DEF Messages
    <3>3. inflight' \in [Prompts -> Seq(Messages)]
      BY <2>1, <3>2, TransmitTyped DEF AgentSays, ProtocolInv
    <3>4. agent[r].said + 1 \in 0 .. MaxChunks /\ agent \in [Prompts -> Agents]
      BY <3>1, ProtocolAssumption
      DEF Chunks, ProtocolInv, ProtocolTypeOK, Agents
    <3>5. [agent[r] EXCEPT !.said = @ + 1] \in Agents
      BY <3>4 DEF Agents
    <3>6. agent' = [agent EXCEPT ![r] = [agent[r] EXCEPT !.said = @ + 1]]
      BY <2>1, <3>4 DEF AgentSays
    <3> QED BY <3>3, <3>4, <3>5, <3>6
  <2>2. CASE AgentFails(r)
    <3>1. [kind |-> "error"] \in Messages
      BY DEF Messages
    <3>2. inflight' \in [Prompts -> Seq(Messages)]
      BY <2>2, <3>1, TransmitTyped DEF AgentFails, ProtocolInv
    <3> QED
      BY <2>2, <3>2 DEF AgentFails, ProtocolInv, ProtocolTypeOK, Agents
  <2>3. CASE AgentEnds(r)
    <3>1. [kind |-> "terminator"] \in Messages
      BY DEF Messages
    <3>2. inflight' \in [Prompts -> Seq(Messages)]
      BY <2>3, <3>1, TransmitTyped DEF AgentEnds, ProtocolInv
    <3> QED
      BY <2>3, <3>2 DEF AgentEnds, ProtocolInv, ProtocolTypeOK, Agents
  <2> QED BY <1>1, <2>1, <2>2, <2>3
<1> QED
  BY <1>2
  DEF AgentActs, ProtocolInv, ProtocolTypeOK, NoOrphanInbox, Agents,
      LinkTypeOK, linkVars

LEMMA LinkMovesInv ==
  ASSUME ProtocolInv, LinkMoves
  PROVE  ProtocolInv'
<1>1. LinkTypeOK'
  BY DEF LinkMoves, Dial, LoseConnection, OpenConnection, ConnectToServer,
         Disconnected, DialFailed, Connected, TcpConnected, ServerError,
         AbortEmits, ProtocolInv, ProtocolTypeOK, LinkTypeOK
<1>2. CASE Dial \/ LoseConnection
  <2>1. ForgetConnection /\ connects' \in 0 .. MaxConnects
    BY <1>2, ProtocolAssumption
    DEF Dial, LoseConnection, ProtocolInv, ProtocolTypeOK
  <2>2. inflight' \in [Prompts -> Seq(Messages)]
    BY <2>1 DEF ForgetConnection
  <2> QED
    BY <1>1, <2>1, <2>2
    DEF ForgetConnection, ProtocolInv, ProtocolTypeOK, NoOrphanInbox
<1>3. CASE OpenConnection
  <2>1. /\ link' = "up" /\ UNCHANGED <<proto, connects>>
        /\ routed' = waiting \cap Live(proto) /\ waiting' = {}
    BY <1>3 DEF OpenConnection, Connected
  <2>2. PICK absent : Reach(waiting, absent)
    BY <1>3 DEF OpenConnection
  <2>3. agent' \in [Prompts -> Agents] /\ inflight' \in [Prompts -> Seq(Messages)]
    BY <2>2, ReachTyped DEF ProtocolInv
  <2> QED
    BY <1>1, <2>1, <2>3
    DEF ProtocolInv, ProtocolTypeOK, NoOrphanInbox, Agents
<1>4. CASE (TcpConnected \/ ServerError) /\ UNCHANGED <<proto, netVars>>
  <2>1. link' # "up" => link # "up"
    BY <1>4 DEF TcpConnected, ServerError
  <2> QED
    BY <1>1, <1>4, <2>1
    DEF netVars, ProtocolInv, ProtocolTypeOK, NoOrphanInbox,
        TcpConnected, ServerError
<1> QED BY <1>2, <1>3, <1>4 DEF LinkMoves

LEMMA ProtocolStep ==
  ASSUME ProtocolInv, [ProtocolNext]_protocolVars
  PROVE  ProtocolInv'
<1>1. ASSUME NEW r \in Prompts, SendPrompt(r) PROVE ProtocolInv'
  BY <1>1, SendPromptInv
<1>2. ASSUME NEW r \in Prompts, Deliver(r) PROVE ProtocolInv'
  BY <1>2, DeliverInv
<1>3. ASSUME NEW r \in Prompts, InactivityTimeout(r) PROVE ProtocolInv'
  BY <1>3, InactivityTimeoutInv
<1>7. ASSUME NEW r \in Prompts, IntervalElapses(r) PROVE ProtocolInv'
  BY <1>7, IntervalElapsesInv
<1>4. CASE AgentActs
  BY <1>4, AgentActsInv
<1>5. CASE LinkMoves
  BY <1>5, LinkMovesInv
<1>6. CASE UNCHANGED protocolVars
  BY <1>6 DEF protocolVars, netVars, linkVars, ProtocolInv, ProtocolTypeOK,
              LinkTypeOK, NoOrphanInbox
<1> QED BY <1>1, <1>2, <1>3, <1>4, <1>5, <1>6, <1>7 DEF ProtocolNext

LEMMA NewIsEmpty ==
  /\ NewProtocol \in Protocols /\ Live(NewProtocol) = {}
  /\ NewProtocol.heard = [r \in Prompts |-> <<>>]
<1> DEFINE none == [r \in {} |-> NewEntry]
           silent == [r \in Prompts |-> <<>>]
<1>1. /\ {} \in SUBSET Prompts /\ none \in [{} -> Entries]
      /\ silent \in [Prompts -> Seq(Signals)]
  OBVIOUS
<1>2. NewProtocol = [bySid |-> none, heard |-> silent]
  BY DEF NewProtocol
<1> HIDE DEF none, silent
<1>3. /\ NewProtocol \in Protocols /\ Live(NewProtocol) = {}
      /\ NewProtocol.heard = silent
  BY ONLY <1>1, <1>2, Holding
<1> QED BY <1>3 DEF silent

LEMMA ProtocolStart == ProtocolInit => ProtocolInv
<1> SUFFICES ASSUME ProtocolInit PROVE ProtocolInv
  OBVIOUS
<1>1. LinkTypeOK
  BY DEF ProtocolInit, LinkInit, LinkTypeOK
<1>2. proto \in Protocols /\ Live(proto) = {}
  BY NewIsEmpty DEF ProtocolInit
<1>3. Idle \in Agents
  BY ProtocolAssumption DEF Idle, Agents
<1> QED
  BY <1>1, <1>2, <1>3, ProtocolAssumption
  DEF ProtocolInit, ProtocolInv, ProtocolTypeOK, NoOrphanInbox, Agents

(* Types and subscriptions, whatever is lost and however often.            *)
THEOREM ProtocolInvariant == ProtocolSpec => []ProtocolInv
BY ProtocolStart, ProtocolStep, PTL DEF ProtocolSpec

(* The types of the object, the network and the agents.                    *)
THEOREM ProtocolTypes == ProtocolSpec => []ProtocolTypeOK
BY ProtocolInvariant, PTL DEF ProtocolInv

(* No subscription at the server outlives its request or its connection.   *)
THEOREM InboxesReleased == ProtocolSpec => []NoOrphanInbox
BY ProtocolInvariant, PTL DEF ProtocolInv
------------------------------------------------------------------------------
(* A request in flight: an error ends its stream but for the terminator,   *)
(* the chunks on their way are those said after the ones heard, in order,  *)
(* nothing is behind a message that ends it, and a terminator is on its way*)
(* only if the agent ended the stream.                                     *)
Has(s, kind) == \E i \in DOMAIN s : s[i].kind = kind

Ongoing(h, q, a) ==
  /\ ~ Has(h, "complete")
  /\ \A i \in DOMAIN q :
       Ends(q[i]) => i = Len(q) /\ a.phase \in {"absent", "closed"}
  /\ \A i \in DOMAIN q : q[i].kind = "terminator" => a.phase = "closed"
  /\ Has(h, "error") \/ Has(q, "error") => a.phase \in {"failed", "closed"}
  /\ Has(h, "error") => \A i \in DOMAIN q : q[i].kind = "terminator"
  /\ \A i, j \in DOMAIN q :
       i < j /\ q[i].kind = "error" => q[j].kind = "terminator"
  /\ \A i, j \in DOMAIN q :
       i < j /\ q[i].kind = "chunk" /\ q[j].kind = "chunk" => q[i].n < q[j].n
  /\ \A i \in DOMAIN q : q[i].kind = "chunk" => q[i].n <= a.said
  /\ \A i \in DOMAIN h : h[i].kind = "response" => h[i].n <= a.said
  /\ \A i \in DOMAIN h, j \in DOMAIN q :
       h[i].kind = "response" /\ q[j].kind = "chunk" => h[i].n < q[j].n
  /\ a.phase = "unasked" => h = <<>> /\ q = <<>>

(* An agent that moves on from a to b, with a message m.                   *)
Sends(a, m, b) ==
  /\ a.said <= b.said
  /\ a.phase \in {"answering", "failed"}
  /\ b.phase \in {"answering", "failed", "closed"}
  /\ a.phase = "failed" => b.phase # "answering"
  /\ m.kind \in {"chunk", "other"} => a.phase = "answering"
  /\ m.kind = "chunk" => a.said < m.n /\ m.n <= b.said
  /\ m.kind = "error" => a.phase = "answering" /\ b.phase = "failed"
  /\ Ends(m) => b.phase = "closed" /\ m.kind = "terminator"

(* What it sent may be lost, or be on its way.                             *)
LEMMA MoreOnItsWay ==
  ASSUME NEW h \in Seq(Signals), NEW q \in Seq(Messages),
         NEW a \in Agents, NEW b \in Agents, NEW m \in Messages,
         Ongoing(h, q, a), Sends(a, m, b)
  PROVE  Ongoing(h, q, b) /\ Ongoing(h, Append(q, m), b)
<1> DEFINE w == Append(q, m)
<1> USE DEF Sends
<1>1. /\ DOMAIN q = 1 .. Len(q) /\ Len(q) \in Nat
      /\ DOMAIN h = 1 .. Len(h) /\ Len(h) \in Nat
  OBVIOUS
<1>2. /\ DOMAIN w = 1 .. Len(q) + 1 /\ Len(w) = Len(q) + 1
      /\ \A i \in 1 .. Len(q) : w[i] = q[i]
      /\ w[Len(q) + 1] = m
  BY AppendProperties
<1>3. /\ \A i \in DOMAIN q : q[i] \in Messages
      /\ \A i \in DOMAIN h : h[i] \in Signals
  BY <1>1
<1>4. /\ a.said \in Nat /\ b.said \in Nat
      /\ \A x \in Messages : x.kind = "chunk" => x.n \in Nat
      /\ \A x \in Signals : x.kind = "response" => x.n \in Nat
  BY ProtocolAssumption DEF Agents, Messages, Signals, Chunks
<1>5. \A i \in DOMAIN q : ~ Ends(q[i])
  BY DEF Ongoing
<1> HIDE DEF w
<1>6. Ongoing(h, q, b)
  BY <1>1, <1>3, <1>4, <1>5 DEF Ongoing
<1>7. Has(h, "error") \/ Has(q, "error") => m.kind = "terminator"
  BY DEF Ongoing, Ends, Messages
<1>8. \A i \in DOMAIN w :
        (i \in DOMAIN q /\ w[i] = q[i]) \/ (i = Len(w) /\ w[i] = m)
  BY <1>1, <1>2
<1>9. Has(w, "error") => Has(q, "error") \/ m.kind = "error"
  BY <1>8 DEF Has
<1>10. /\ \A i \in DOMAIN w :
            Ends(w[i]) => i = Len(w) /\ b.phase \in {"absent", "closed"}
       /\ \A i \in DOMAIN w : w[i].kind = "terminator" => b.phase = "closed"
  BY <1>5, <1>8 DEF Ends
<1>11. Has(h, "error") \/ Has(w, "error") => b.phase \in {"failed", "closed"}
  BY <1>6, <1>9 DEF Ongoing
<1>12. Has(h, "error") => \A i \in DOMAIN w : w[i].kind = "terminator"
  BY <1>6, <1>7, <1>8 DEF Ongoing
<1>13. \A i, j \in DOMAIN w :
         i < j /\ w[i].kind = "error" => w[j].kind = "terminator"
  <2> SUFFICES ASSUME NEW i \in DOMAIN w, NEW j \in DOMAIN w,
                      i < j, w[i].kind = "error"
               PROVE  w[j].kind = "terminator"
    OBVIOUS
  <2>1. i \in DOMAIN q /\ w[i] = q[i]
    BY <1>1, <1>2
  <2>2. Has(q, "error")
    BY <2>1 DEF Has
  <2> QED BY <1>7, <1>8, <2>1, <2>2 DEF Ongoing
<1>14. \A i, j \in DOMAIN w :
         i < j /\ w[i].kind = "chunk" /\ w[j].kind = "chunk" => w[i].n < w[j].n
  <2> SUFFICES ASSUME NEW i \in DOMAIN w, NEW j \in DOMAIN w,
                      i < j, w[i].kind = "chunk", w[j].kind = "chunk"
               PROVE  w[i].n < w[j].n
    OBVIOUS
  <2>1. i \in DOMAIN q /\ w[i] = q[i]
    BY <1>1, <1>2
  <2>2. CASE j \in DOMAIN q /\ w[j] = q[j]
    BY <2>1, <2>2 DEF Ongoing
  <2>3. CASE j = Len(w) /\ w[j] = m
    <3>1. q[i].n <= a.said /\ a.said < m.n
      BY <2>1, <2>3 DEF Ongoing
    <3>2. q[i].n \in Nat /\ m.n \in Nat
      BY <1>3, <1>4, <2>1, <2>3
    <3> QED BY <1>4, <2>1, <2>3, <3>1, <3>2
  <2> QED BY <1>8, <2>2, <2>3
<1>15. \A i \in DOMAIN w : w[i].kind = "chunk" => w[i].n <= b.said
  BY <1>6, <1>8 DEF Ongoing
<1>16. \A i \in DOMAIN h, j \in DOMAIN w :
         h[i].kind = "response" /\ w[j].kind = "chunk" => h[i].n < w[j].n
  <2> SUFFICES ASSUME NEW i \in DOMAIN h, NEW j \in DOMAIN w,
                      h[i].kind = "response", w[j].kind = "chunk"
               PROVE  h[i].n < w[j].n
    OBVIOUS
  <2>1. CASE j \in DOMAIN q /\ w[j] = q[j]
    BY <2>1 DEF Ongoing
  <2>2. CASE j = Len(w) /\ w[j] = m
    <3>1. h[i].n <= a.said /\ a.said < m.n
      BY <2>2 DEF Ongoing
    <3>2. h[i].n \in Nat /\ m.n \in Nat
      BY <1>3, <1>4, <2>2
    <3> QED BY <1>4, <2>2, <3>1, <3>2
  <2> QED BY <1>8, <2>1, <2>2
<1>17. Ongoing(h, w, b)
  BY <1>6, <1>10, <1>11, <1>12, <1>13, <1>14, <1>15, <1>16 DEF Ongoing
<1> QED BY <1>6, <1>17 DEF w

(* A message that only starts the timer again: its caller is told nothing. *)
LEMMA OneMoreIgnored ==
  ASSUME NEW h, NEW q \in Seq(Messages), NEW a,
         Ongoing(h, q, a), q # <<>>, Head(q).kind = "other"
  PROVE  Ongoing(h, Tail(q), a)
<1> DEFINE t == Tail(q)
<1>1. DOMAIN q = 1 .. Len(q) /\ Len(q) \in Nat \ {0} /\ q[1].kind = "other"
  OBVIOUS
<1>2. /\ DOMAIN t = 1 .. Len(q) - 1 /\ Len(t) = Len(q) - 1
      /\ \A i \in DOMAIN t : i + 1 \in DOMAIN q /\ t[i] = q[i + 1]
  BY <1>1, HeadTailProperties
<1>3. 1 \in DOMAIN q
  BY <1>1
<1>4. ~ Has(h, "error") /\ a.phase # "unasked"
  BY <1>1, <1>3 DEF Ongoing
<1> HIDE DEF t
<1>5. /\ \A i \in DOMAIN t :
           Ends(t[i]) => i = Len(t) /\ a.phase \in {"absent", "closed"}
      /\ \A i \in DOMAIN t : t[i].kind = "terminator" => a.phase = "closed"
      /\ \A i, j \in DOMAIN t :
           i < j /\ t[i].kind = "error" => t[j].kind = "terminator"
      /\ \A i, j \in DOMAIN t :
           i < j /\ t[i].kind = "chunk" /\ t[j].kind = "chunk" => t[i].n < t[j].n
      /\ \A i \in DOMAIN t : t[i].kind = "chunk" => t[i].n <= a.said
  BY <1>1, <1>2 DEF Ongoing
<1>6. Has(t, "error") => a.phase \in {"failed", "closed"}
  <2>1. Has(t, "error") => Has(q, "error")
    BY <1>2 DEF Has
  <2> QED BY <2>1 DEF Ongoing
<1>7. /\ \A i \in DOMAIN h, j \in DOMAIN t :
           h[i].kind = "response" /\ t[j].kind = "chunk" => h[i].n < t[j].n
      /\ \A i \in DOMAIN h : h[i].kind = "response" => h[i].n <= a.said
      /\ ~ Has(h, "complete")
  BY <1>2 DEF Ongoing
<1>8. Ongoing(h, t, a)
  BY <1>4, <1>5, <1>6, <1>7 DEF Ongoing
<1> QED BY <1>8 DEF t

(* A message heard that does not end the stream: it is the next thing its  *)
(* caller may be told.                                                     *)
LEMMA OneMoreHeard ==
  ASSUME NEW h \in Seq(Signals), NEW q \in Seq(Messages),
         NEW a \in Agents, NEW s \in Signals, Ongoing(h, q, a), q # <<>>,
         \/ /\ Head(q).kind = "chunk"
            /\ s = [kind |-> "response", n |-> Head(q).n]
         \/ Head(q).kind = "error" /\ s = [kind |-> "error"]
  PROVE  /\ ~ Has(h, "error")
         /\ Head(q).kind = "chunk" => \A i \in DOMAIN h : h[i].n < Head(q).n
         /\ Has(Append(h, s), "error") <=> Head(q).kind = "error"
         /\ Ongoing(Append(h, s), Tail(q), a)
<1> DEFINE m == Head(q)
           t == Tail(q)
           g == Append(h, s)
<1>1. /\ DOMAIN q = 1 .. Len(q) /\ Len(q) \in Nat \ {0} /\ q[1] = m
      /\ DOMAIN h = 1 .. Len(h) /\ Len(h) \in Nat
  OBVIOUS
<1>2. /\ DOMAIN t = 1 .. Len(q) - 1 /\ Len(t) = Len(q) - 1
      /\ \A i \in DOMAIN t : i + 1 \in DOMAIN q /\ t[i] = q[i + 1]
  BY <1>1, HeadTailProperties
<1>3. /\ DOMAIN g = 1 .. Len(h) + 1
      /\ \A i \in DOMAIN h : g[i] = h[i]
      /\ g[Len(h) + 1] = s
  BY <1>1, AppendProperties
<1>4. \A i \in DOMAIN g : (i \in DOMAIN h /\ g[i] = h[i]) \/ (g[i] = s)
  BY <1>1, <1>3
<1>5. 1 \in DOMAIN q
  BY <1>1
<1>6. \A i \in DOMAIN h : h[i] \in Signals
  BY <1>1
<1>7. ~ Has(h, "error")
  BY <1>1, <1>5 DEF Ongoing
<1>8. \A i \in DOMAIN h : h[i].kind = "response"
  BY <1>6, <1>7 DEF Ongoing, Has, Signals
<1>9. m.kind = "chunk" => \A i \in DOMAIN h : h[i].n < m.n
  BY <1>1, <1>5, <1>8 DEF Ongoing
<1>10. Has(g, "error") <=> m.kind = "error"
  <2>1. CASE m.kind = "error"
    <3>1. s.kind = "error" /\ Len(h) + 1 \in DOMAIN g
      BY <1>1, <1>3, <2>1
    <3> QED BY <1>3, <2>1, <3>1 DEF Has
  <2>2. CASE m.kind = "chunk"
    <3>1. s.kind = "response"
      BY <2>2
    <3> QED BY <1>4, <1>7, <2>2, <3>1 DEF Has
  <2> QED BY <2>1, <2>2
<1>11. ~ Has(g, "complete")
  BY <1>4, <1>8 DEF Has
<1>12. a.phase # "unasked"
  BY DEF Ongoing
<1> HIDE DEF m, t, g
<1>13. /\ \A i \in DOMAIN t :
            Ends(t[i]) => i = Len(t) /\ a.phase \in {"absent", "closed"}
       /\ \A i \in DOMAIN t : t[i].kind = "terminator" => a.phase = "closed"
       /\ \A i, j \in DOMAIN t :
            i < j /\ t[i].kind = "error" => t[j].kind = "terminator"
       /\ \A i, j \in DOMAIN t :
            i < j /\ t[i].kind = "chunk" /\ t[j].kind = "chunk" => t[i].n < t[j].n
       /\ \A i \in DOMAIN t : t[i].kind = "chunk" => t[i].n <= a.said
  BY <1>1, <1>2 DEF Ongoing
<1>14. m.kind = "error" => \A i \in DOMAIN t : t[i].kind = "terminator"
  BY <1>1, <1>2, <1>5 DEF Ongoing
<1>15. m.kind = "error" \/ Has(t, "error") => a.phase \in {"failed", "closed"}
  <2>1. m.kind = "error" \/ Has(t, "error") => Has(q, "error")
    BY <1>1, <1>2, <1>5 DEF Has
  <2> QED BY <2>1 DEF Ongoing
<1>16. \A i \in DOMAIN g : g[i].kind = "response" => g[i].n <= a.said
  <2>1. s.kind = "response" => s.n = m.n /\ m.kind = "chunk" /\ m.n <= a.said
    BY <1>1, <1>5 DEF Ongoing, m
  <2> QED BY <1>4, <2>1 DEF Ongoing
<1>17. \A i \in DOMAIN g, j \in DOMAIN t :
         g[i].kind = "response" /\ t[j].kind = "chunk" => g[i].n < t[j].n
  <2> SUFFICES ASSUME NEW i \in DOMAIN g, NEW j \in DOMAIN t,
                      g[i].kind = "response", t[j].kind = "chunk"
               PROVE  g[i].n < t[j].n
    OBVIOUS
  <2>1. CASE i \in DOMAIN h /\ g[i] = h[i]
    BY <1>2, <2>1 DEF Ongoing
  <2>2. CASE g[i] = s
    <3>1. m.kind = "chunk" /\ s.n = m.n
      BY <2>2 DEF m
    <3>2. j + 1 \in DOMAIN q /\ t[j] = q[j + 1] /\ 1 < j + 1
      BY <1>1, <1>2
    <3> QED BY <1>1, <1>5, <2>2, <3>1, <3>2 DEF Ongoing
  <2> QED BY <1>4, <2>1, <2>2
<1>18. Ongoing(g, t, a)
  BY <1>10, <1>11, <1>12, <1>13, <1>14, <1>15, <1>16, <1>17 DEF Ongoing
<1> QED BY <1>7, <1>9, <1>10, <1>18 DEF m, t, g
------------------------------------------------------------------------------
(* The invariant of the refinement: each request in flight is ongoing; one *)
(* not made has left no trace; one in the queue has not been answered.     *)
RequestInv(r) ==
  /\ agent[r].phase = "idle" =>
       r \notin Live(proto) /\ proto.heard[r] = <<>> /\ inflight[r] = <<>>
  /\ r \in waiting => agent[r].phase = "unasked"
  /\ r \in Live(proto) =>
       /\ r \in Errored(proto) <=> Has(proto.heard[r], "error")
       /\ Ongoing(proto.heard[r], inflight[r], agent[r])

StreamInv == ProtocolInv /\ \A r \in Prompts : RequestInv(r)

LEMMA Unaffected ==
  ASSUME NEW x \in Prompts, RequestInv(x),
         x \in Live(proto') <=> x \in Live(proto),
         x \in Errored(proto') <=> x \in Errored(proto),
         proto'.heard[x] = proto.heard[x],
         inflight'[x] \in {inflight[x], <<>>},
         agent'[x] = agent[x], x \in waiting' => x \in waiting
  PROVE  RequestInv(x)'
<1>1. CASE inflight'[x] = inflight[x]
  BY <1>1 DEF RequestInv
<1>2. CASE inflight'[x] = <<>>
  <2>1. Ongoing(proto.heard[x], inflight[x], agent[x])
          => Ongoing(proto.heard[x], <<>>, agent[x])
    BY DEF Ongoing, Has
  <2> QED BY <1>2, <2>1 DEF RequestInv
<1> QED BY <1>1, <1>2

(* A request made, or flushed: to an agent, or to nobody who answers.      *)
LEMMA FirstMessage ==
  ASSUME NEW q \in {<<>>, <<[kind |-> "unreachable"]>>}, NEW a,
         a.phase \in {"answering", "absent"}, q # <<>> => a.phase = "absent"
  PROVE  Ongoing(<<>>, q, a)
<1>1. CASE q = <<>>
  BY <1>1 DEF Ongoing, Has
<1>2. CASE q = <<[kind |-> "unreachable"]>>
  <2>1. DOMAIN q = {1} /\ Len(q) = 1 /\ q[1].kind = "unreachable"
    BY <1>2
  <2> QED BY <1>2, <2>1 DEF Ongoing, Has
<1> QED BY <1>1, <1>2

LEMMA Reached ==
  ASSUME StreamInv, NEW x \in Prompts, NEW asked, NEW absent,
         Reach(asked, absent), x \in asked,
         proto.heard[x] = <<>>, inflight[x] = <<>>
  PROVE  /\ agent'[x].phase \in {"answering", "absent"}
         /\ Ongoing(<<>>, inflight'[x], agent'[x])
<1>1. agent'[x] = [Idle EXCEPT !.phase =
                     IF x \in absent THEN "absent" ELSE "answering"]
  BY DEF Reach
<1>2. agent'[x].phase = IF x \in absent THEN "absent" ELSE "answering"
  BY <1>1 DEF Idle
<1>3. Append(<<>>, [kind |-> "unreachable"]) = <<[kind |-> "unreachable"]>>
  OBVIOUS
<1>4. inflight'[x] = IF x \in absent \cap routed'
                     THEN Append(inflight[x], [kind |-> "unreachable"])
                     ELSE inflight[x]
  BY DEF Reach
<1>5. /\ inflight'[x] \in {<<>>, <<[kind |-> "unreachable"]>>}
      /\ inflight'[x] # <<>> => x \in absent
  BY <1>3, <1>4
<1> DEFINE q == inflight'[x]
           a == agent'[x]
<1>6. /\ q \in {<<>>, <<[kind |-> "unreachable"]>>}
      /\ a.phase \in {"answering", "absent"}
      /\ q # <<>> => a.phase = "absent"
  BY <1>2, <1>5
<1> HIDE DEF q, a
<1>7. Ongoing(<<>>, q, a)
  BY <1>6, FirstMessage
<1> QED BY <1>6, <1>7 DEF q, a
------------------------------------------------------------------------------
(* Each action of the model, as a step of the stream or none.              *)
Told == [Stream!StreamNext]_<<Live(proto), proto.heard>>

LEMMA SendPromptTold ==
  ASSUME StreamInv, NEW r \in Prompts, SendPrompt(r)
  PROVE  (\A x \in Prompts : RequestInv(x)') /\ Told
<1>2. /\ agent[r].phase = "idle" /\ r \notin Live(proto)
      /\ proto.heard[r] = <<>> /\ inflight[r] = <<>>
      /\ r \notin Errored(proto) /\ r \notin waiting
  BY DEF StreamInv, RequestInv, SendPrompt, Unused, Idle, Errored
<1>1. /\ Live(proto') = Live(proto) \cup {r} /\ Errored(proto') = Errored(proto)
      /\ proto'.heard = proto.heard
  <2>1. proto \in Protocols
    BY DEF StreamInv, ProtocolInv, ProtocolTypeOK
  <2>2. proto' = Begin(proto, r)
    BY DEF SendPrompt
  <2>3. /\ Live(proto') = Live(proto) \cup {r} /\ proto'.heard = proto.heard
        /\ Errored(proto') = Errored(proto) \ {r}
    BY <2>1, <2>2, BeginTyped
  <2> QED BY <1>2, <2>3
<1>3. Told
  <2>1. Stream!Open(r)
    BY <1>1, <1>2 DEF Stream!Open
  <2> QED BY <2>1 DEF Told, Stream!StreamNext
<1>4. CASE link = "up"
  <2>1. UNCHANGED waiting
    BY <1>4 DEF SendPrompt
  <2>2. PICK absent \in SUBSET {r} : Reach({r}, absent)
    BY <1>4 DEF SendPrompt
  <2>3. ASSUME NEW x \in Prompts, x # r PROVE RequestInv(x)'
    <3>1. agent'[x] = agent[x] /\ inflight'[x] = inflight[x]
      BY <2>2, <2>3 DEF Reach
    <3> QED BY <1>1, <2>1, <2>3, <3>1, Unaffected DEF StreamInv
  <2>4. RequestInv(r)'
    <3>1. /\ agent'[r].phase \in {"answering", "absent"}
          /\ Ongoing(<<>>, inflight'[r], agent'[r])
      BY <1>2, <2>2, Reached
    <3> QED BY <1>1, <1>2, <2>1, <3>1 DEF RequestInv, Has
  <2> QED BY <1>3, <2>3, <2>4
<1>5. CASE link # "up"
  <2>1. /\ waiting' \in {waiting, waiting \cup {r}}
        /\ agent' = [agent EXCEPT ![r].phase = "unasked"]
        /\ UNCHANGED inflight
    BY <1>5 DEF SendPrompt
  <2>2. agent \in [Prompts -> Agents]
    BY DEF StreamInv, ProtocolInv, ProtocolTypeOK, Agents
  <2>3. ASSUME NEW x \in Prompts, x # r PROVE RequestInv(x)'
    BY <1>1, <2>1, <2>2, <2>3, Unaffected DEF StreamInv
  <2>4. RequestInv(r)'
    <3>1. agent'[r].phase = "unasked"
      BY <2>1, <2>2 DEF Agents
    <3>2. Ongoing(<<>>, <<>>, agent'[r])
      BY <3>1 DEF Ongoing, Has
    <3> QED BY <1>1, <1>2, <2>1, <3>1, <3>2 DEF RequestInv, Has
  <2> QED BY <1>3, <2>3, <2>4
<1> QED BY <1>4, <1>5

(* The end of a request: its caller hears the last signal or nothing, and  *)
(* the others are as they were.                                            *)
LEMMA Ended ==
  ASSUME StreamInv, NEW r \in Prompts,
         Live(proto') = Live(proto) \ {r}, Errored(proto') = Errored(proto) \ {r},
         \A x \in Prompts \ {r} :
           proto'.heard[x] = proto.heard[x] /\ inflight'[x] = inflight[x],
         agent[r].phase # "idle", UNCHANGED <<waiting, agent>>
  PROVE  \A x \in Prompts : RequestInv(x)'
<1>1. ASSUME NEW x \in Prompts \ {r} PROVE RequestInv(x)'
  <2>1. RequestInv(x)
    BY DEF StreamInv
  <2> QED BY <2>1, Unaffected
<1>2. RequestInv(r)'
  BY DEF StreamInv, RequestInv
<1> QED BY <1>1, <1>2

LEMMA DeliverTold ==
  ASSUME StreamInv, NEW r \in Prompts, Deliver(r)
  PROVE  (\A x \in Prompts : RequestInv(x)') /\ Told
<1> DEFINE m == Head(inflight[r])
           h == proto.heard[r]
<1>1. /\ inflight[r] \in Seq(Messages) /\ inflight[r] # <<>>
      /\ agent[r] \in Agents /\ h \in Seq(Signals)
      /\ proto \in Protocols /\ inflight \in [Prompts -> Seq(Messages)]
  BY Held DEF StreamInv, ProtocolInv, ProtocolTypeOK, Agents, Deliver
<1>2. m \in Messages /\ m = inflight[r][1] /\ 1 \in DOMAIN inflight[r]
  BY <1>1, HeadTailProperties
<1>3. /\ proto' = OnMessage(proto, r, m)
      /\ inflight' = [inflight EXCEPT ![r] = Tail(inflight[r])]
      /\ UNCHANGED <<waiting, agent>>
  BY DEF Deliver
<1>4. /\ \A x \in Prompts \ {r} : inflight'[x] = inflight[x]
      /\ inflight'[r] = Tail(inflight[r])
  BY <1>1, <1>3
<1>5. agent[r].phase # "idle" /\ RequestInv(r)
  BY <1>1 DEF StreamInv, RequestInv
<1>6. CASE r \notin Live(proto)
  <2>1. proto' = proto
    BY <1>1, <1>2, <1>3, <1>6, MessageEffect
  <2>2. ASSUME NEW x \in Prompts \ {r} PROVE RequestInv(x)'
    <3>1. RequestInv(x)
      BY DEF StreamInv
    <3> QED BY <1>3, <1>4, <2>1, <3>1, Unaffected
  <2>3. RequestInv(r)'
    BY <1>3, <1>5, <1>6, <2>1 DEF RequestInv
  <2> QED BY <2>1, <2>2, <2>3 DEF Told
<1>7. CASE r \in Live(proto)
  <2> DEFINE sig == SignalsOf(proto, r, m)
  <2>1. /\ proto' \in Protocols
        /\ proto'.heard = [proto.heard EXCEPT ![r] = @ \o sig]
        /\ Live(proto') = IF Ends(m) THEN Live(proto) \ {r} ELSE Live(proto)
        /\ Errored(proto') = IF Ends(m) THEN Errored(proto) \ {r}
                            ELSE IF m.kind = "error" THEN Errored(proto) \cup {r}
                            ELSE Errored(proto)
    BY <1>1, <1>2, <1>3, <1>7, MessageEffect
  <2>2. \A x \in Prompts \ {r} : proto'.heard[x] = proto.heard[x]
    BY <1>1, <2>1, Held
  <2>3. /\ r \in Errored(proto) <=> Has(h, "error")
        /\ Ongoing(h, inflight[r], agent[r])
    BY <1>5, <1>7 DEF RequestInv
  <2>4. Stream!Failed(r) <=> Has(h, "error")
    <3>1. \A s \in Signals : s.kind = "error" <=> s = [kind |-> "error"]
      BY DEF Signals
    <3>2. \A i \in DOMAIN h : h[i] \in Signals
      BY <1>1
    <3> QED BY <3>1, <3>2 DEF Stream!Failed, Stream!Error, Has
  <2>5. \A s \in Signals : sig = <<s>> => Stream!Emits(r, s)
    <3>1. \A s \in Signals : h \o <<s>> = Append(h, s)
      BY <1>1, AppendIsConcat
    <3> QED BY <2>1, <3>1 DEF Stream!Emits
  <2>8. CASE m.kind = "other"
    <3>1. sig = <<>> /\ ~ Ends(m)
      BY <2>8 DEF SignalsOf, Ends
    <3>2. proto'.heard = proto.heard
      <4>1. h \o <<>> = h
        BY <1>1, ConcatEmptySeq
      <4>2. proto'.heard = [proto.heard EXCEPT ![r] = h]
        BY <2>1, <3>1, <4>1
      <4> QED BY <1>1, <4>2, Held
    <3>3. UNCHANGED <<Live(proto), Errored(proto)>>
      BY <2>1, <2>8, <3>1
    <3>4. Ongoing(h, Tail(inflight[r]), agent[r])
      BY <1>1, <2>3, <2>8, OneMoreIgnored
    <3>5. RequestInv(r)'
      BY <1>3, <1>4, <1>5, <1>7, <3>2, <3>3, <3>4 DEF RequestInv
    <3>6. ASSUME NEW x \in Prompts \ {r} PROVE RequestInv(x)'
      <4>1. RequestInv(x)
        BY DEF StreamInv
      <4> QED BY <1>3, <1>4, <3>2, <3>3, <4>1, Unaffected
    <3> QED BY <3>2, <3>3, <3>5, <3>6 DEF Told
  <2>6. CASE ~ Ends(m) /\ m.kind # "other"
    <3>1. PICK s \in Signals :
            /\ sig = <<s>>
            /\ \/ m.kind = "chunk" /\ s = [kind |-> "response", n |-> m.n]
               \/ m.kind = "error" /\ s = [kind |-> "error"]
      BY <1>2, <2>6 DEF SignalsOf, Ends, Messages, Signals
    <3>2. /\ ~ Has(h, "error")
          /\ m.kind = "chunk" => \A i \in DOMAIN h : h[i].n < m.n
          /\ Has(Append(h, s), "error") <=> m.kind = "error"
          /\ Ongoing(Append(h, s), Tail(inflight[r]), agent[r])
      BY <1>1, <2>3, <3>1, OneMoreHeard
    <3>3. Stream!Emits(r, s) /\ UNCHANGED Live(proto)
      BY <2>1, <2>5, <2>6, <3>1
    <3>4. proto'.heard[r] = Append(h, s)
      BY <1>1, <3>3, Held DEF Stream!Emits
    <3>5. Told
      <4>1. CASE m.kind = "chunk"
        <5>1. m.n \in 1 .. MaxChunks
          BY <1>2, <4>1 DEF Messages, Chunks
        <5>2. Stream!Respond(r, m.n)
          BY <1>7, <2>4, <3>1, <3>2, <3>3, <4>1 DEF Stream!Respond
        <5> QED BY <5>1, <5>2 DEF Told, Stream!StreamNext
      <4>2. CASE m.kind = "error"
        <5>1. Stream!Report(r)
          BY <1>7, <2>4, <3>1, <3>2, <3>3, <4>2
          DEF Stream!Report, Stream!Error
        <5> QED BY <5>1 DEF Told, Stream!StreamNext
      <4> QED BY <3>1, <4>1, <4>2
    <3>6. RequestInv(r)'
      <4>1. r \in Errored(proto') <=> Has(proto'.heard[r], "error")
        BY <2>1, <2>3, <2>6, <3>2, <3>4
      <4> QED BY <1>3, <1>4, <1>5, <1>7, <2>1, <2>6, <3>2, <3>4, <4>1
              DEF RequestInv
    <3>7. ASSUME NEW x \in Prompts \ {r} PROVE RequestInv(x)'
      <4>1. RequestInv(x)
        BY DEF StreamInv
      <4> QED BY <1>3, <1>4, <2>1, <2>2, <4>1, Unaffected
    <3> QED BY <3>5, <3>6, <3>7
  <2>7. CASE Ends(m)
    <3>1. \A x \in Prompts : RequestInv(x)'
      BY <1>3, <1>4, <1>5, <2>1, <2>2, <2>7, Ended
    <3>2. Stream!Closes(r)
      BY <1>7, <2>1, <2>7 DEF Stream!Closes
    <3>3. CASE m.kind = "unreachable"
      <4>1. sig = <<[kind |-> "error"]>> /\ [kind |-> "error"] \in Signals
        BY <3>3 DEF SignalsOf, Signals
      <4>2. Stream!Fail(r)
        BY <2>5, <3>2, <4>1 DEF Stream!Fail, Stream!Error
      <4> QED BY <3>1, <4>2 DEF Told, Stream!StreamNext
    <3>4. CASE m.kind = "terminator" /\ r \in Errored(proto)
      <4>1. sig = <<>>
        BY <3>4 DEF SignalsOf
      <4>2. UNCHANGED proto.heard
        <5>1. h \o <<>> = h
          BY <1>1, ConcatEmptySeq
        <5>2. proto'.heard = [proto.heard EXCEPT ![r] = h]
          BY <2>1, <4>1, <5>1
        <5> QED BY <1>1, <5>2, Held
      <4>3. Stream!EndFailed(r)
        BY <2>3, <2>4, <3>2, <3>4, <4>2 DEF Stream!EndFailed
      <4> QED BY <3>1, <4>3 DEF Told, Stream!StreamNext
    <3>5. CASE m.kind = "terminator" /\ r \notin Errored(proto)
      <4>1. /\ sig = <<[kind |-> "complete"]>>
            /\ [kind |-> "complete"] \in Signals
        BY <3>5 DEF SignalsOf, Signals
      <4>2. agent[r].phase = "closed"
        BY <1>2, <2>3, <3>5 DEF Ongoing
      <4>3. Stream!Succeed(r)
        BY <2>3, <2>4, <2>5, <3>2, <3>5, <4>1, <4>2
        DEF Stream!Succeed, Stream!Complete
      <4> QED BY <3>1, <4>3 DEF Told, Stream!StreamNext
    <3> QED BY <2>7, <3>3, <3>4, <3>5 DEF Ends
  <2> QED BY <2>6, <2>7, <2>8
<1> QED BY <1>6, <1>7

(* The interval of a request's timer elapses: nobody is told yet.          *)
LEMMA ElapsesTold ==
  ASSUME StreamInv, NEW r \in Prompts, IntervalElapses(r)
  PROVE  (\A x \in Prompts : RequestInv(x)') /\ Told
<1>1. /\ proto'.heard = proto.heard
      /\ Live(proto') = Live(proto) /\ Errored(proto') = Errored(proto)
  BY ElapsesEffect DEF StreamInv, ProtocolInv
<1>2. UNCHANGED <<waiting, inflight, agent>>
  BY DEF IntervalElapses, netVars
<1>3. ASSUME NEW x \in Prompts PROVE RequestInv(x)'
  <2>1. RequestInv(x)
    BY DEF StreamInv
  <2> QED BY <1>1, <1>2, <2>1, Unaffected
<1> QED BY <1>1, <1>3 DEF Told

LEMMA TimeoutTold ==
  ASSUME StreamInv, NEW r \in Prompts, InactivityTimeout(r)
  PROVE  (\A x \in Prompts : RequestInv(x)') /\ Told
<1>1. proto \in Protocols /\ r \in Live(proto) /\ proto.heard[r] \in Seq(Signals)
  BY Held DEF StreamInv, ProtocolInv, ProtocolTypeOK, InactivityTimeout
<1>2. /\ proto' = OnTimeout(proto, r)
      /\ UNCHANGED <<waiting, agent, inflight>>
  BY DEF InactivityTimeout
<1>3. /\ Live(proto') = Live(proto) \ {r} /\ Errored(proto') = Errored(proto) \ {r}
      /\ proto'.heard = [proto.heard EXCEPT ![r] = @ \o <<[kind |-> "error"]>>]
  BY <1>1, <1>2, TimeoutEffect
<1>4. \A x \in Prompts \ {r} : proto'.heard[x] = proto.heard[x]
  BY <1>1, <1>3, Held
<1>5. agent[r].phase # "idle"
  BY <1>1 DEF StreamInv, RequestInv
<1>6. Stream!Fail(r)
  <2>1. [kind |-> "error"] \in Signals
    BY DEF Signals
  <2>2. proto.heard[r] \o <<[kind |-> "error"]>>
          = Append(proto.heard[r], [kind |-> "error"])
    BY <1>1, <2>1, AppendIsConcat
  <2> QED BY <1>1, <1>3, <2>2
          DEF Stream!Fail, Stream!Closes, Stream!Emits, Stream!Error
<1>7. Told
  BY <1>6 DEF Told, Stream!StreamNext
<1> QED BY <1>2, <1>3, <1>4, <1>5, <1>7, Ended

(* Agents that send nothing but the terminator after an error.             *)
LEMMA AgentActsTold ==
  ASSUME ErrorEndsStream, StreamInv, AgentActs
  PROVE  (\A x \in Prompts : RequestInv(x)') /\ Told
<1>1. UNCHANGED <<proto, waiting>>
  BY DEF AgentActs
<1>2. PICK r \in Prompts : AgentSays(r) \/ AgentFails(r) \/ AgentEnds(r)
  BY DEF AgentActs
<1>3. /\ agent \in [Prompts -> Agents] /\ inflight \in [Prompts -> Seq(Messages)]
      /\ proto.heard[r] \in Seq(Signals) /\ RequestInv(r)
  BY Held DEF StreamInv, ProtocolInv, ProtocolTypeOK, Agents
<1>4. PICK m \in Messages, b \in Agents :
        /\ agent' = [agent EXCEPT ![r] = b] /\ Transmit(r, m)
        /\ Sends(agent[r], m, b)
  <2>1. CASE AgentSays(r)
    <3> DEFINE b == [agent[r] EXCEPT !.said = @ + 1]
               c == [kind |-> "chunk", n |-> agent[r].said + 1]
               o == [kind |-> "other"]
    <3>1. agent[r].said + 1 \in Chunks /\ agent[r].said \in Nat
      BY <1>3, <2>1, ProtocolAssumption DEF AgentSays, Agents, Chunks
    <3>2. /\ b \in Agents /\ b.said = agent[r].said + 1
          /\ b.phase = agent[r].phase
      <4>1. agent[r] \in Agents /\ agent[r].said + 1 \in 0 .. MaxChunks
        BY <1>3, <3>1, ProtocolAssumption DEF Chunks
      <4> QED BY <4>1 DEF Agents
    <3>3. /\ c \in Messages /\ c.kind = "chunk" /\ c.n = agent[r].said + 1
          /\ o \in Messages /\ o.kind = "other"
      BY <3>1 DEF Messages
    <3>4. /\ agent' = [agent EXCEPT ![r] = b]
          /\ Transmit(r, c) \/ Transmit(r, o)
          /\ agent[r].phase = "answering"
      BY <1>3, <2>1 DEF AgentSays
    <3> HIDE DEF b, c, o
    <3>5. Sends(agent[r], c, b) /\ Sends(agent[r], o, b)
      BY <3>1, <3>2, <3>3, <3>4 DEF Sends, Ends
    <3> QED BY <3>2, <3>3, <3>4, <3>5
  <2>2. CASE AgentFails(r)
    <3> DEFINE b == [agent[r] EXCEPT !.phase = "failed"]
               m == [kind |-> "error"]
    <3>1. b \in Agents /\ b.said = agent[r].said /\ b.phase = "failed"
      BY <1>3 DEF Agents
    <3>2. m \in Messages /\ m.kind = "error" /\ agent[r].said \in Nat
      BY <1>3 DEF Messages, Agents
    <3>3. /\ agent' = [agent EXCEPT ![r] = b] /\ Transmit(r, m)
          /\ agent[r].phase = "answering"
      BY <1>3, <2>2 DEF AgentFails
    <3> HIDE DEF b, m
    <3>4. Sends(agent[r], m, b)
      BY <3>1, <3>2, <3>3 DEF Sends, Ends
    <3> QED BY <3>1, <3>2, <3>3, <3>4
  <2>3. CASE AgentEnds(r)
    <3> DEFINE b == [agent[r] EXCEPT !.phase = "closed"]
               m == [kind |-> "terminator"]
    <3>1. b \in Agents /\ b.said = agent[r].said /\ b.phase = "closed"
      BY <1>3 DEF Agents
    <3>2. m \in Messages /\ m.kind = "terminator" /\ agent[r].said \in Nat
      BY <1>3 DEF Messages, Agents
    <3>3. /\ agent' = [agent EXCEPT ![r] = b] /\ Transmit(r, m)
          /\ agent[r].phase \in {"answering", "failed"}
      BY <1>3, <2>3 DEF AgentEnds
    <3> HIDE DEF b, m
    <3>4. Sends(agent[r], m, b)
      BY <3>1, <3>2, <3>3 DEF Sends, Ends
    <3> QED BY <3>1, <3>2, <3>3, <3>4
  <2> QED BY <1>2, <2>1, <2>2, <2>3
<1>5. RequestInv(r)'
  <2> DEFINE h == proto.heard[r]
             q == inflight[r]
  <2>1. q \in Seq(Messages) /\ agent[r] \in Agents
    BY <1>3
  <2>2. Ongoing(h, q, agent[r]) =>
          Ongoing(h, q, b) /\ Ongoing(h, Append(q, m), b)
    BY <1>3, <1>4, <2>1, MoreOnItsWay
  <2>3. inflight'[r] \in {q, Append(q, m)} /\ agent'[r] = b
    BY <1>3, <1>4 DEF Transmit
  <2>4. agent[r].phase \notin {"idle", "unasked"} /\ b.phase # "idle"
    BY <1>4 DEF Sends
  <2> HIDE DEF h, q
  <2>5. /\ r \notin waiting
        /\ r \in Live(proto) =>
             /\ r \in Errored(proto) <=> Has(h, "error")
             /\ Ongoing(h, q, agent[r])
    BY <1>3, <2>4 DEF RequestInv, h, q
  <2>6. r \in Live(proto) => Ongoing(h, inflight'[r], agent'[r])
    BY <2>2, <2>3, <2>5
  <2> QED BY <1>1, <2>3, <2>4, <2>5, <2>6 DEF RequestInv, h
<1>6. ASSUME NEW x \in Prompts \ {r} PROVE RequestInv(x)'
  <2>1. RequestInv(x)
    BY DEF StreamInv
  <2>2. agent'[x] = agent[x] /\ inflight'[x] = inflight[x]
    BY <1>3, <1>4 DEF Transmit
  <2> QED BY <1>1, <2>1, <2>2, Unaffected
<1> QED BY <1>1, <1>5, <1>6 DEF Told

LEMMA LinkMovesTold ==
  ASSUME StreamInv, LinkMoves
  PROVE  (\A x \in Prompts : RequestInv(x)') /\ Told
<1>1. UNCHANGED proto
  BY DEF LinkMoves, Dial, LoseConnection, OpenConnection, ForgetConnection
<1>2. CASE Dial \/ LoseConnection
  <2>1. ForgetConnection
    BY <1>2 DEF Dial, LoseConnection
  <2>2. ASSUME NEW x \in Prompts PROVE RequestInv(x)'
    <3>1. RequestInv(x) /\ inflight'[x] = <<>>
      BY <2>1 DEF StreamInv, ForgetConnection
    <3> QED BY <1>1, <2>1, <3>1, Unaffected DEF ForgetConnection
  <2> QED BY <1>1, <2>2 DEF Told
<1>3. CASE OpenConnection
  <2>1. waiting' = {} /\ routed' = waiting \cap Live(proto)
    BY <1>3 DEF OpenConnection
  <2>2. PICK absent \in SUBSET waiting : Reach(waiting, absent)
    BY <1>3 DEF OpenConnection
  <2>3. ASSUME NEW x \in Prompts PROVE RequestInv(x)'
    <3>1. RequestInv(x)
      BY DEF StreamInv
    <3>2. CASE x \notin waiting
      <4>1. agent'[x] = agent[x] /\ inflight'[x] = inflight[x]
        BY <2>2, <3>2 DEF Reach
      <4> QED BY <1>1, <2>1, <3>1, <4>1, Unaffected
    <3>3. CASE x \in waiting /\ x \in Live(proto)
      <4>1. /\ proto.heard[x] = <<>> /\ inflight[x] = <<>>
            /\ x \in Errored(proto) <=> Has(proto.heard[x], "error")
        BY <3>1, <3>3 DEF RequestInv, Ongoing
      <4>2. /\ agent'[x].phase \in {"answering", "absent"}
            /\ Ongoing(<<>>, inflight'[x], agent'[x])
        BY <2>2, <3>3, <4>1, Reached
      <4> QED BY <1>1, <2>1, <4>1, <4>2 DEF RequestInv
    <3>4. CASE x \in waiting /\ x \notin Live(proto)
      <4>1. agent'[x] = [Idle EXCEPT !.phase =
                           IF x \in absent THEN "absent" ELSE "answering"]
        BY <2>2, <3>4 DEF Reach
      <4>2. agent'[x].phase # "idle"
        BY <4>1 DEF Idle
      <4> QED BY <1>1, <2>1, <3>4, <4>2 DEF RequestInv
    <3> QED BY <3>2, <3>3, <3>4
  <2> QED BY <1>1, <2>3 DEF Told
<1>4. CASE (TcpConnected \/ ServerError) /\ UNCHANGED <<proto, netVars>>
  <2>1. ASSUME NEW x \in Prompts PROVE RequestInv(x)'
    <3>1. RequestInv(x)
      BY DEF StreamInv
    <3> QED BY <1>4, <3>1, Unaffected DEF netVars
  <2> QED BY <1>1, <2>1 DEF Told
<1> QED BY <1>2, <1>3, <1>4 DEF LinkMoves

LEMMA StreamStep ==
  ASSUME ErrorEndsStream, StreamInv, [ProtocolNext]_protocolVars
  PROVE  StreamInv' /\ Told
<1>1. ProtocolInv'
  BY ProtocolStep DEF StreamInv
<1>2. (\A x \in Prompts : RequestInv(x)') /\ Told
  <2>1. ASSUME NEW r \in Prompts, SendPrompt(r)
        PROVE  (\A x \in Prompts : RequestInv(x)') /\ Told
    BY <2>1, SendPromptTold
  <2>2. ASSUME NEW r \in Prompts, Deliver(r)
        PROVE  (\A x \in Prompts : RequestInv(x)') /\ Told
    BY <2>2, DeliverTold
  <2>3. ASSUME NEW r \in Prompts, InactivityTimeout(r)
        PROVE  (\A x \in Prompts : RequestInv(x)') /\ Told
    BY <2>3, TimeoutTold
  <2>7. ASSUME NEW r \in Prompts, IntervalElapses(r)
        PROVE  (\A x \in Prompts : RequestInv(x)') /\ Told
    BY <2>7, ElapsesTold
  <2>4. CASE AgentActs
    BY <2>4, AgentActsTold
  <2>5. CASE LinkMoves
    BY <2>5, LinkMovesTold
  <2>6. CASE UNCHANGED protocolVars
    <3>1. \A x \in Prompts : RequestInv(x)'
      BY <2>6 DEF protocolVars, netVars, StreamInv, RequestInv
    <3>2. UNCHANGED <<Live(proto), proto.heard>>
      BY <2>6 DEF protocolVars
    <3> QED BY <3>1, <3>2 DEF Told
  <2> QED BY <2>1, <2>2, <2>3, <2>4, <2>5, <2>6, <2>7 DEF ProtocolNext
<1> QED BY <1>1, <1>2 DEF StreamInv

LEMMA StreamStart == ProtocolInit => StreamInv /\ Stream!StreamInit
<1> SUFFICES ASSUME ProtocolInit PROVE StreamInv /\ Stream!StreamInit
  OBVIOUS
<1>1. Live(proto) = {} /\ proto.heard = [r \in Prompts |-> <<>>]
  BY NewIsEmpty DEF ProtocolInit
<1>2. \A r \in Prompts : RequestInv(r)
  BY <1>1 DEF ProtocolInit, RequestInv
<1> QED BY <1>1, <1>2, ProtocolStart DEF StreamInv, Stream!StreamInit

(* Every request is a PromptStream to its caller: responses in order, an   *)
(* error or completion but never both, completion only of a stream whose   *)
(* terminator an agent sent (a 503 is told as an error), and nothing after *)
(* the end; whatever is lost, however often the connection goes away, and  *)
(* with any number of requests.                                            *)
THEOREM ProtocolImplementsStream ==
  ErrorEndsStream => (ProtocolSpec => ImplementsStream)
<1> SUFFICES ASSUME ErrorEndsStream PROVE ProtocolSpec => ImplementsStream
  OBVIOUS
<1>1. ProtocolInit => StreamInv /\ Stream!StreamInit
  BY StreamStart
<1>2. StreamInv /\ [ProtocolNext]_protocolVars => StreamInv' /\ Told
  BY StreamStep
<1>3. Told => [Stream!StreamNext]_Stream!streamVars
  BY DEF Told, Stream!streamVars
<1> QED
  BY <1>1, <1>2, <1>3, PTL DEF ProtocolSpec, ImplementsStream, Stream!StreamSpec
=============================================================================
