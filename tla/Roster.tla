------------------------------- MODULE Roster -------------------------------
(***************************************************************************)
(* Who is there, and who is online: the discovery half of                  *)
(* agents/AgentProtocol (discover(), its collecting window, heartbeats)    *)
(* and the roster of agents/AppController (static entries, discovered      *)
(* ones, liveness by missed heartbeats, debounced re-discovery), over the  *)
(* connection of Link and its signals.                                     *)
(*                                                                         *)
(* Time is counted in ticks. A running timer is the ticks it has left: at  *)
(* zero it fires before time goes on. Handlers take no time. What is seen  *)
(* of an instance keeps its age instead of a time stamp.                   *)
(*                                                                         *)
(* Abstractions: an instance stands for its id and whether it is alive is  *)
(* left open (it may always beat or reply, or never); what a row shows     *)
(* besides its subject and its dot is left out, and so is m_haveDiscovered,*)
(* which nothing reads.                                                    *)
(***************************************************************************)
EXTENDS Integers, Sequences, FiniteSets, SequencesExt, Link

CONSTANTS Instances,         \* service ids, which are also heartbeat ids
          SubjectOf,         \* the prompt subject of each instance
          StaticSubjects,    \* the configured roster, as a sequence
          Cadences,          \* what the heartbeats of each may advertise
          DefaultInterval,   \* 30 s
          Window,            \* of discover(): 2 s
          Debounce,          \* of m_rediscoverTimer: 800 ms
          Sweep              \* period of m_sweepTimer: 5 s

ASSUME RosterAssumption ==
  /\ StaticSubjects \in Seq(ToSet(StaticSubjects))
  /\ Cadences \in [Instances -> SUBSET Int]
  /\ {DefaultInterval, Window, Debounce, Sweep} \subseteq Nat \ {0}

VARIABLES roster,       \* m_agents: the rows on screen
          seen,         \* m_lastSeenMs and m_intervalS, which agree on keys
          batch,        \* m_discoveryBatch
          window,       \* m_discoveryTimer, on while m_discoverySid # 0
          rediscover,   \* m_rediscoverTimer
          sweep,        \* m_sweepTimer
          served,       \* the server still routes the discovery inbox
          judged        \* recomputeLiveness ran on this connection

rosterVars ==
  <<roster, seen, batch, window, rediscover, sweep, served, judged, linkVars>>
------------------------------------------------------------------------------
Off == -1

(* A key the hashes do not hold has no interval; nothing reads its age.    *)
NotSeen == [age |-> 0, interval |-> 0]

Row(subject, members, online) ==
  [subject |-> subject, members |-> members, online |-> online]
StaticRoster ==
  [n \in DOMAIN StaticSubjects |-> Row(StaticSubjects[n], {}, FALSE)]

(* isInstanceLive(): within three beats; recomputeLiveness(): any member.  *)
FreshTwice(s) == s.interval # 0 /\ s.age <= 6 * s.interval
Fresh(s) == s.interval # 0 /\ s.age <= 3 * s.interval
Judged(rows, known) ==
  [n \in DOMAIN rows |->
     [rows[n] EXCEPT !.online = \E i \in rows[n].members : Fresh(known[i])]]

(* One row per prompt subject; the instances behind it are merged.         *)
AddReplyUnmerged(rows, i) == Append(rows, Row(SubjectOf[i], {i}, TRUE))
AddReply(rows, i) ==
  IF \E n \in DOMAIN rows : rows[n].subject = SubjectOf[i]
  THEN [n \in DOMAIN rows |->
          IF rows[n].subject = SubjectOf[i]
          THEN [rows[n] EXCEPT !.members = @ \cup {i}] ELSE rows[n]]
  ELSE Append(rows, Row(SubjectOf[i], {i}, TRUE))
Discovered(replies) ==
  LET rows[n \in 0 .. Len(replies)] ==
        IF n = 0 THEN <<>> ELSE AddReply(rows[n - 1], replies[n])
  IN rows[Len(replies)]

(* A reply proves liveness now, and leaves an advertised cadence alone.    *)
Confirm(known, replies) ==
  [i \in Instances |->
     IF i \in ToSet(replies)
     THEN [age |-> 0,
           interval |-> IF known[i].interval = 0 THEN DefaultInterval
                        ELSE known[i].interval]
     ELSE known[i]]

InRoster(i) == \E n \in DOMAIN roster : i \in roster[n].members

(* discover(): a new inbox, an empty batch, the window from its start.     *)
Discover(isConnected) ==
  IF isConnected
  THEN window' = Window /\ batch' = <<>> /\ served' = TRUE
  ELSE UNCHANGED <<window, batch, served>>
------------------------------------------------------------------------------
RosterInit ==
  /\ LinkInit
  /\ roster = StaticRoster
  /\ seen = [i \in Instances |-> NotSeen]
  /\ batch = <<>> /\ served = FALSE /\ judged = FALSE
  /\ window = Off /\ rediscover = Off /\ sweep = Off

(* The connected() slot: watch heartbeats, discover, start the sweep.      *)
OnConnected ==
  /\ Connected /\ Discover(TRUE)
  /\ sweep' = Sweep /\ judged' = FALSE
  /\ UNCHANGED <<roster, seen, rediscover>>

(* The disconnected() slot; the window and the debounce keep running.      *)
DropRoster ==
  /\ sweep' = Off /\ judged' = FALSE /\ served' = FALSE
  /\ seen' = [i \in Instances |-> NotSeen]
  /\ roster' = StaticRoster
  /\ UNCHANGED <<batch, window, rediscover>>

Unaffected ==
  UNCHANGED <<roster, seen, batch, window, rediscover, sweep, served, judged>>

OnDisconnected == Disconnected /\ DropRoster
Connect == ConnectToServer /\ IF AbortEmits THEN DropRoster ELSE Unaffected
OtherSignals == (TcpConnected \/ DialFailed \/ ServerError) /\ Unaffected

(* refresh(): the button asks for a new discovery when connected.          *)
Refresh ==
  /\ label = "connected" /\ Discover(link = "up")
  /\ UNCHANGED <<roster, seen, rediscover, sweep, judged, linkVars>>

(* A reply to $SRV.INFO.agents; a second one of an instance is ignored.    *)
DiscoveryReply(i) ==
  /\ window # Off /\ served
  /\ i \notin ToSet(batch)
  /\ batch' = Append(batch, i)
  /\ UNCHANGED
       <<roster, seen, window, rediscover, sweep, served, judged, linkVars>>

(* onAgentsDiscovered(), when the window closes.                           *)
WindowCloses ==
  /\ window = 0 /\ window' = Off /\ served' = FALSE
  /\ IF batch = <<>>
     THEN roster' = StaticRoster /\ UNCHANGED <<seen, judged>>
     ELSE /\ seen' = Confirm(seen, batch)
          /\ roster' = Judged(Discovered(batch), seen')
          /\ judged' = (sweep # Off)
  /\ UNCHANGED <<batch, rediscover, sweep, linkVars>>

(* onHeartbeat(): an unknown instance starts the debounce over; a known    *)
(* one (or any, when the label denies the connection) is judged at once.   *)
HeartbeatNegative(i, interval) ==
  /\ link = "up"
  /\ seen' = [seen EXCEPT ![i] =
       [age |-> 0, interval |-> IF interval # 0 THEN interval
                                ELSE DefaultInterval]]
  /\ IF ~ InRoster(i) /\ label = "connected"
     THEN rediscover' = Debounce /\ UNCHANGED <<roster, judged>>
     ELSE /\ roster' = Judged(roster, seen') /\ judged' = TRUE
          /\ UNCHANGED rediscover
  /\ UNCHANGED <<batch, window, sweep, served, linkVars>>
HeartbeatUnjudged(i, interval) ==
  /\ link = "up"
  /\ seen' = [seen EXCEPT ![i] =
       [age |-> 0, interval |-> IF interval > 0 THEN interval
                                ELSE DefaultInterval]]
  /\ IF ~ InRoster(i) /\ label = "connected"
     THEN rediscover' = Debounce ELSE UNCHANGED rediscover
  /\ UNCHANGED <<roster, batch, window, sweep, served, judged, linkVars>>
Heartbeat(i, interval) ==
  /\ link = "up"
  /\ seen' = [seen EXCEPT ![i] =
       [age |-> 0, interval |-> IF interval > 0 THEN interval
                                ELSE DefaultInterval]]
  /\ IF ~ InRoster(i) /\ label = "connected"
     THEN rediscover' = Debounce /\ UNCHANGED <<roster, judged>>
     ELSE /\ roster' = Judged(roster, seen') /\ judged' = TRUE
          /\ UNCHANGED rediscover
  /\ UNCHANGED <<batch, window, sweep, served, linkVars>>

RediscoverFires ==
  /\ rediscover = 0 /\ rediscover' = Off
  /\ Discover(link = "up")
  /\ UNCHANGED <<roster, seen, sweep, judged, linkVars>>

SweepFires ==
  /\ sweep = 0 /\ sweep' = Sweep
  /\ roster' = Judged(roster, seen) /\ judged' = TRUE
  /\ UNCHANGED <<seen, batch, window, rediscover, served, linkVars>>

(* Time goes on when no timer is due. A beat missed more than three times  *)
(* at the latest sweep grows no older: from there on all ages are one.     *)
Left(timer) == IF timer = Off THEN Off ELSE timer - 1
Older(s) ==
  IF s.interval = 0 \/ s.age > 3 * s.interval + Sweep THEN s
  ELSE [s EXCEPT !.age = @ + 1]
Tick ==
  /\ 0 \notin {window, rediscover, sweep}
  /\ window' = Left(window) /\ rediscover' = Left(rediscover)
  /\ sweep' = Left(sweep)
  /\ seen' = [i \in Instances |-> Older(seen[i])]
  /\ UNCHANGED <<roster, batch, served, judged, linkVars>>

RosterNext ==
  \/ OnConnected \/ OnDisconnected \/ Connect \/ OtherSignals
  \/ Refresh \/ WindowCloses \/ RediscoverFires \/ SweepFires \/ Tick
  \/ \E i \in Instances :
       DiscoveryReply(i) \/ \E interval \in Cadences[i] : Heartbeat(i, interval)

RosterSpec == RosterInit /\ [][RosterNext]_rosterVars
------------------------------------------------------------------------------
Rosters == Seq([subject : {SubjectOf[i] : i \in Instances}
                            \cup ToSet(StaticSubjects),
                members : SUBSET Instances, online : BOOLEAN])
Timers(limit) == {Off} \cup (0 .. limit)
(* Types: every instance on record has a cadence, whatever its heartbeat   *)
(* advertised (a missing, zero or negative interval_s), and no timer runs  *)
(* below zero.                                                             *)
RosterTypeOK ==
  /\ LinkTypeOK
  /\ roster \in Rosters
  /\ seen \in [Instances -> [age : Nat, interval : Nat]]
  /\ \A i \in Instances : seen[i].age <= 3 * seen[i].interval + Sweep + 1
  /\ batch \in Seq(Instances)
  /\ window \in Timers(Window) /\ rediscover \in Timers(Debounce)
  /\ sweep \in Timers(Sweep)
  /\ served \in BOOLEAN /\ judged \in BOOLEAN

(* An agent shown online was heard: one of the instances behind it within  *)
(* three of its beats when last judged, which is a sweep ago at most, and  *)
(* the sweep runs all the while the connection is up.                      *)
OnlineIsFresh ==
  /\ sweep # Off <=> link = "up"
  /\ judged =>
    \A n \in DOMAIN roster : roster[n].online =>
      \E i \in roster[n].members :
        /\ seen[i].interval # 0
        /\ seen[i].age <= 3 * seen[i].interval + (Sweep - sweep)

(* An agent shown offline missed three beats on every instance: a beat of  *)
(* one of them lights its dot at once, and no instance behind a row is     *)
(* forgotten, so that an agent that just answered would look offline.      *)
OfflineIsSilent ==
  \A n \in DOMAIN roster : ~ roster[n].online =>
    \A i \in roster[n].members : seen[i].interval # 0 /\ ~ Fresh(seen[i])

(* Discovery makes one row per agent, and every instance is behind the row *)
(* of its own subject and no other.                                        *)
OneRowPerAgent ==
  \A n, m \in DOMAIN roster :
    /\ roster[n].subject = roster[m].subject /\ roster[n].members # {} => n = m
    /\ \A i \in roster[n].members : SubjectOf[i] = roster[n].subject

(* agents/AppController.h lines 119-120: the static roster is shown, and   *)
(* "discovered ones replace it while connected".                           *)
DiscoveredOnlyWhileConnected ==
  link # "up" => \A n \in DOMAIN roster : roster[n].members = {}
=============================================================================
