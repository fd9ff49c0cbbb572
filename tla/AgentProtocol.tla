---------------------------- MODULE AgentProtocol ----------------------------
(***************************************************************************)
(* The request half of agents/AgentProtocol: a prompt goes out with a      *)
(* fresh reply inbox, the reply stream comes back on it as chunks, service *)
(* errors, a 503 of the server and a terminator, and an inactivity timer   *)
(* ends a stream that falls silent. Around it: the server that routes the  *)
(* inboxes, messages that core NATS may lose (docs/IMPLEMENTATION-NOTES.md *)
(* lines 93-94), agents, and a connection that comes and goes.             *)
(*                                                                         *)
(* A request stands for its id, its sid and its inbox: NatsClient shows    *)
(* that these are never reused (NeverReused). The timer has no length: the *)
(* interval it was started for may elapse on any request in flight, however*)
(* lively its stream is. A message that comes before the timeout is handled*)
(* starts the interval again.                                              *)
(***************************************************************************)
EXTENDS Naturals, Sequences, FiniteSets, Link

CONSTANTS Prompts,          \* the requests made, by id
          MaxChunks,        \* model bound: messages of one stream but its
                            \* errors and its terminator
          MaxConnects,      \* model bound: connections made
          Chatty,           \* model bound: agents also send messages that
                            \* only restart the timer
          ErrorEndsStream   \* agents send nothing but the terminator after
                            \* an error (the protocol's section 9), or may
                            \* send more chunks
ASSUME ProtocolAssumption ==
  /\ MaxChunks \in Nat /\ MaxConnects \in Nat
  /\ Chatty \in BOOLEAN /\ ErrorEndsStream \in BOOLEAN

VARIABLES proto,      \* the AgentProtocol object and the signals it emitted
          routed,     \* inboxes the server routes to this connection
          waiting,    \* requests in the transport's pre-handshake queue
          inflight,   \* messages on their way to each inbox
          agent,      \* the answering side of each request
          connects    \* connections made, for the bound

netVars == <<routed, waiting, inflight, agent, connects>>
protocolVars == <<proto, netVars, linkVars>>
------------------------------------------------------------------------------
Chunks == 1 .. MaxChunks
(* Of the other messages (an ack, a query, an empty delta, junk) only that *)
(* they restart the timer matters here.                                    *)
Messages == [kind : {"chunk"}, n : Chunks]
              \cup [kind : {"other", "error", "unreachable", "terminator"}]
Signals == [kind : {"response"}, n : Chunks] \cup [kind : {"complete", "error"}]

(* The object: m_bySid by request, with the timer each entry owns; `heard` *)
(* is the history of the signals emitted for each request.                 *)
Entries == [errored : BOOLEAN, timer : {"stopped", "running", "due"}]
Protocols == [bySid : UNION {[live -> Entries] : live \in SUBSET Prompts},
              heard : [Prompts -> Seq(Signals)]]

Live(p) == DOMAIN p.bySid
Errored(p) == {r \in Live(p) : p.bySid[r].errored}

(* sendPrompt() starts the timer of the entry it made, as its last act.    *)
NewEntry == [errored |-> FALSE, timer |-> "running"]
Begin(p, r) ==
  [p EXCEPT !.bySid =
     [q \in Live(p) \cup {r} |-> IF q = r THEN NewEntry ELSE @[q]]]

Finish(p, r) == [p EXCEPT !.bySid = [q \in Live(p) \ {r} |-> @[q]]]

ResetInactivity(p, r) == [p EXCEPT !.bySid[r].timer = "running"]

Emit(p, r, signals) == [p EXCEPT !.heard[r] = @ \o signals]

(* What onMessage() and the timer emit, and the object they leave.         *)
SignalsOfEmptyDeltas(p, r, m) ==
  CASE m.kind = "chunk" -> <<[kind |-> "response", n |-> m.n]>>
    [] m.kind = "other" -> <<[kind |-> "response", n |-> 0]>>
    [] m.kind \in {"error", "unreachable"} -> <<[kind |-> "error"]>>
    [] m.kind = "terminator" ->
         IF r \in Errored(p) THEN <<>> ELSE <<[kind |-> "complete"]>>
SignalsOfAnyStatus(p, r, m) ==
  CASE m.kind = "chunk" -> <<[kind |-> "response", n |-> m.n]>>
    [] m.kind = "other" -> <<>>
    [] m.kind = "error" -> <<[kind |-> "error"]>>
    [] m.kind \in {"terminator", "unreachable"} ->
         IF r \in Errored(p) THEN <<>> ELSE <<[kind |-> "complete"]>>
SignalsOf(p, r, m) ==
  CASE m.kind = "chunk" -> <<[kind |-> "response", n |-> m.n]>>
    [] m.kind = "other" -> <<>>
    [] m.kind \in {"error", "unreachable"} -> <<[kind |-> "error"]>>
    [] m.kind = "terminator" ->
         IF r \in Errored(p) THEN <<>> ELSE <<[kind |-> "complete"]>>

Ends(m) == m.kind \in {"unreachable", "terminator"}

OnMessageStopsTimer(p, r, m) ==
  LET q == Emit(ResetInactivity(p, r), r, SignalsOf(p, r, m))
  IN IF r \notin Live(p) THEN p
     ELSE IF Ends(m) THEN Finish(q, r)
     ELSE IF m.kind = "error"
     THEN [q EXCEPT !.bySid[r] = [errored |-> TRUE, timer |-> "stopped"]]
     ELSE q
OnMessage(p, r, m) ==
  LET q == Emit(ResetInactivity(p, r), r, SignalsOf(p, r, m))
  IN IF r \notin Live(p) THEN p
     ELSE IF Ends(m) THEN Finish(q, r)
     ELSE IF m.kind = "error" THEN [q EXCEPT !.bySid[r].errored = TRUE]
     ELSE q

OnTimeout(p, r) == Emit(Finish(p, r), r, <<[kind |-> "error"]>>)

(* The server drops the subscription that finish() takes back.             *)
UnsubscribedLate(p, subs) == subs
Unsubscribed(p, subs) == subs \cap Live(p)
------------------------------------------------------------------------------
NewProtocol == [bySid |-> [r \in {} |-> NewEntry],
                heard |-> [r \in Prompts |-> <<>>]]
Idle == [phase |-> "idle", said |-> 0]

ProtocolInit ==
  /\ LinkInit
  /\ proto = NewProtocol
  /\ routed = {} /\ waiting = {} /\ connects = 0
  /\ inflight = [r \in Prompts |-> <<>>]
  /\ agent = [r \in Prompts |-> Idle]

Unused(r) == agent[r] = Idle

(* The published prompts reach the server: an agent of the queue group     *)
(* takes each (and may die before it answers, or while it does), or nobody *)
(* listens there and the server answers 503.                               *)
Reach(asked, absent) ==
  /\ agent' = [r \in Prompts |->
       IF r \in asked
       THEN [Idle EXCEPT !.phase = IF r \in absent THEN "absent" ELSE "answering"]
       ELSE agent[r]]
  /\ inflight' = [r \in Prompts |->
       IF r \in absent \cap routed'
       THEN Append(inflight[r], [kind |-> "unreachable"])
       ELSE inflight[r]]

(* sendPrompt(): subscribe the inbox, then publish. Over a connection that *)
(* is not up, both wait in the transport's queue, or are lost with it.     *)
SendPrompt(r) ==
  /\ Unused(r)
  /\ proto' = Begin(proto, r)
  /\ IF link = "up"
     THEN /\ routed' = routed \cup {r}
          /\ \E absent \in SUBSET {r} : Reach({r}, absent)
          /\ UNCHANGED waiting
     ELSE /\ waiting' = IF link = "down" THEN waiting ELSE waiting \cup {r}
          /\ agent' = [agent EXCEPT ![r].phase = "unasked"]
          /\ UNCHANGED <<routed, inflight>>
  /\ UNCHANGED <<connects, linkVars>>

Deliver(r) ==
  /\ inflight[r] # <<>>
  /\ inflight' = [inflight EXCEPT ![r] = Tail(@)]
  /\ proto' = OnMessage(proto, r, Head(inflight[r]))
  /\ routed' = Unsubscribed(proto', routed)
  /\ UNCHANGED <<waiting, agent, connects, linkVars>>

(* The timer of a request in flight: its interval goes by, then its slot   *)
(* runs, unless a message gets in between.                                 *)
IntervalElapses(r) ==
  /\ r \in Live(proto) /\ proto.bySid[r].timer = "running"
  /\ proto' = [proto EXCEPT !.bySid[r].timer = "due"]
  /\ UNCHANGED <<netVars, linkVars>>

InactivityTimeout(r) ==
  /\ r \in Live(proto) /\ proto.bySid[r].timer = "due"
  /\ proto' = OnTimeout(proto, r)
  /\ routed' = Unsubscribed(proto', routed)
  /\ UNCHANGED <<waiting, inflight, agent, connects, linkVars>>
------------------------------------------------------------------------------
(* The answering agent. What it sends is lost without a subscription, and  *)
(* may be lost with one: core NATS delivers at most once.                  *)
Transmit(r, m) ==
  inflight' \in {inflight} \cup
    IF r \in routed THEN {[inflight EXCEPT ![r] = Append(@, m)]} ELSE {}

AgentSays(r) ==
  /\ agent[r].phase \in
       {"answering"} \cup IF ErrorEndsStream THEN {} ELSE {"failed"}
  /\ agent[r].said < MaxChunks
  /\ agent' = [agent EXCEPT ![r].said = @ + 1]
  /\ \/ Transmit(r, [kind |-> "chunk", n |-> agent[r].said + 1])
     \/ Chatty /\ Transmit(r, [kind |-> "other"])

AgentFails(r) ==
  /\ agent[r].phase = "answering"
  /\ agent' = [agent EXCEPT ![r].phase = "failed"]
  /\ Transmit(r, [kind |-> "error"])

AgentEnds(r) ==
  /\ agent[r].phase \in {"answering", "failed"}
  /\ agent' = [agent EXCEPT ![r].phase = "closed"]
  /\ Transmit(r, [kind |-> "terminator"])

AgentActs ==
  /\ \E r \in Prompts : AgentSays(r) \/ AgentFails(r) \/ AgentEnds(r)
  /\ UNCHANGED <<proto, routed, waiting, connects, linkVars>>

(* A connection lost takes the server's subscriptions, what was on its way *)
(* and the transport's queue with it; the requests stay in m_bySid.        *)
ForgetConnection ==
  /\ routed' = {} /\ waiting' = {}
  /\ inflight' = [r \in Prompts |-> <<>>]
  /\ UNCHANGED <<proto, agent>>

Dial ==
  /\ connects < MaxConnects /\ connects' = connects + 1
  /\ ConnectToServer /\ ForgetConnection

LoseConnection ==
  /\ Disconnected \/ DialFailed
  /\ ForgetConnection /\ UNCHANGED connects

(* The queue is flushed: requests still in flight are subscribed (UNSUB of *)
(* the others follows in the queue), and all of them are published.        *)
OpenConnection ==
  /\ Connected
  /\ routed' = waiting \cap Live(proto) /\ waiting' = {}
  /\ \E absent \in SUBSET waiting : Reach(waiting, absent)
  /\ UNCHANGED <<proto, connects>>

LinkMoves ==
  \/ Dial \/ LoseConnection \/ OpenConnection
  \/ (TcpConnected \/ ServerError) /\ UNCHANGED <<proto, netVars>>

ProtocolNext ==
  \/ \E r \in Prompts : SendPrompt(r) \/ Deliver(r)
  \/ \E r \in Prompts : IntervalElapses(r) \/ InactivityTimeout(r)
  \/ AgentActs \/ LinkMoves

ProtocolSpec == ProtocolInit /\ [][ProtocolNext]_protocolVars

(* A running QTimer elapses and its slot runs, if nobody starts or stops it*)
(* again. Of messages nothing is assumed but that a stream has finitely    *)
(* many of them, which MaxChunks makes so: an agent that never falls silent*)
(* keeps its request open.                                                 *)
FairProtocolSpec ==
  /\ ProtocolSpec
  /\ \A r \in Prompts : WF_protocolVars(IntervalElapses(r))
  /\ \A r \in Prompts : WF_protocolVars(InactivityTimeout(r))
------------------------------------------------------------------------------
(* Types: no message makes the object emit anything but a response, a      *)
(* completion or an error.                                                 *)
ProtocolTypeOK ==
  /\ LinkTypeOK /\ proto \in Protocols
  /\ routed \in SUBSET Prompts /\ waiting \in SUBSET Prompts
  /\ inflight \in [Prompts -> Seq(Messages)]
  /\ agent \in [Prompts ->
       [phase : {"idle", "unasked", "absent", "answering", "failed", "closed"},
        said : 0 .. MaxChunks]]
  /\ connects \in 0 .. MaxConnects

(* No subscription at the server outlives its request, whether it ended by *)
(* terminator, 503 or timeout, and none is there without a connection.     *)
NoOrphanInbox ==
  routed \subseteq Live(proto) /\ (link # "up" => routed = {})

(* The caller's view of a request is a PromptStream: order, an error or    *)
(* completion but not both, completion only of a stream whose terminator   *)
(* an agent sent (a 503 is an error, whoever it comes from).               *)
Stream == INSTANCE PromptStream WITH
  open <- Live(proto), signals <- proto.heard,
  ended <- {r \in Prompts : agent[r].phase = "closed"}
ImplementsStream == Stream!StreamSpec

(* No request stays open for ever, whatever messages, agents and           *)
(* connections are lost, over reconnects, and after an error: from the     *)
(* prompt to the end its timer is started again by every message and       *)
(* stopped by none.                                                        *)
StreamsEnd == Stream!RequestsEnd
=============================================================================
