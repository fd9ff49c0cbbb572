---------------------------- MODULE RosterProofs ----------------------------
(***************************************************************************)
(* RosterInv is an inductive invariant of RosterSpec: for any instances,   *)
(* subjects, cadences and timer lengths, the dots of the roster agree with *)
(* what was heard, and discovery merges the instances of an agent.         *)
(***************************************************************************)
EXTENDS Roster, Iteration

RowTypes == [subject : {SubjectOf[i] : i \in Instances} \cup ToSet(StaticSubjects),
             members : SUBSET Instances, online : BOOLEAN]
Sightings == [Instances -> [age : Nat, interval : Nat]]

(* What OneRowPerAgent says, of any rows.                                  *)
OneRow(rows) ==
  \A n, m \in DOMAIN rows :
    /\ rows[n].subject = rows[m].subject /\ rows[n].members # {} => n = m
    /\ \A i \in rows[n].members : SubjectOf[i] = rows[n].subject

(* Instances behind a row are on record, so that an unfresh one was heard  *)
(* once; and a verdict of this connection stands only while the sweep runs.*)
MembersKnown ==
  \A n \in DOMAIN roster : \A i \in roster[n].members : seen[i].interval # 0
SweptWhileJudged == judged => sweep # Off

(* The inductive invariant of the roster.                                  *)
RosterInv ==
  /\ RosterTypeOK
  /\ OneRowPerAgent /\ OnlineIsFresh /\ OfflineIsSilent
  /\ MembersKnown /\ SweptWhileJudged
------------------------------------------------------------------------------
LEMMA Lengths ==
  /\ DefaultInterval \in Nat /\ DefaultInterval # 0
  /\ Window \in Nat /\ Debounce \in Nat /\ Sweep \in Nat
  /\ Off = -1 /\ Off \notin Nat
BY RosterAssumption DEF Off

(* The configured rows have no instance behind them and are offline.       *)
LEMMA StaticRows ==
  /\ StaticRoster \in Rosters
  /\ \A n \in DOMAIN StaticRoster :
       StaticRoster[n].members = {} /\ StaticRoster[n].online = FALSE
<1>1. StaticSubjects \in Seq(ToSet(StaticSubjects))
  BY RosterAssumption
<1>2. /\ Len(StaticSubjects) \in Nat
      /\ DOMAIN StaticSubjects = 1 .. Len(StaticSubjects)
      /\ \A n \in DOMAIN StaticSubjects : StaticSubjects[n] \in ToSet(StaticSubjects)
  BY <1>1
<1>3. \A n \in DOMAIN StaticSubjects :
        Row(StaticSubjects[n], {}, FALSE) \in RowTypes
  BY <1>2 DEF Row, RowTypes
<1>4. StaticRoster \in Seq(RowTypes)
  <2>1. StaticRoster \in [1 .. Len(StaticSubjects) -> RowTypes]
    BY <1>2, <1>3 DEF StaticRoster
  <2> QED
    BY <1>2, <2>1, FunctionIsSeq
<1> QED
  BY <1>4 DEF Rosters, RowTypes, StaticRoster, Row

(* recomputeLiveness() sets the dots, and nothing else.                    *)
LEMMA JudgedRows ==
  ASSUME NEW rows \in Rosters, NEW known \in Sightings
  PROVE  /\ Judged(rows, known) \in Rosters
         /\ DOMAIN Judged(rows, known) = DOMAIN rows
         /\ \A n \in DOMAIN rows :
              /\ Judged(rows, known)[n].subject = rows[n].subject
              /\ Judged(rows, known)[n].members = rows[n].members
              /\ Judged(rows, known)[n].online =
                   \E i \in rows[n].members : Fresh(known[i])
<1> DEFINE j == Judged(rows, known)
           on(n) == \E i \in rows[n].members : Fresh(known[i])
<1>1. rows \in Seq(RowTypes) /\ DOMAIN rows = 1 .. Len(rows) /\ Len(rows) \in Nat
  BY DEF Rosters, RowTypes
<1>2. ASSUME NEW n \in DOMAIN rows
      PROVE  /\ [rows[n] EXCEPT !.online = on(n)] \in RowTypes
             /\ [rows[n] EXCEPT !.online = on(n)].subject = rows[n].subject
             /\ [rows[n] EXCEPT !.online = on(n)].members = rows[n].members
             /\ [rows[n] EXCEPT !.online = on(n)].online = on(n)
  <2>1. rows[n] \in RowTypes
    BY <1>1
  <2> DEFINE b == on(n)
  <2>2. b \in BOOLEAN
    OBVIOUS
  <2> HIDE DEF b
  <2>3. /\ [rows[n] EXCEPT !.online = b] \in RowTypes
        /\ [rows[n] EXCEPT !.online = b].subject = rows[n].subject
        /\ [rows[n] EXCEPT !.online = b].members = rows[n].members
        /\ [rows[n] EXCEPT !.online = b].online = b
    BY <2>1, <2>2 DEF RowTypes
  <2> QED
    BY <2>3 DEF b
<1>3. j = [n \in DOMAIN rows |-> [rows[n] EXCEPT !.online = on(n)]]
  BY DEF Judged
<1> HIDE DEF j, on
<1>4. j \in Seq(RowTypes) /\ DOMAIN j = DOMAIN rows
  <2>1. j \in [1 .. Len(rows) -> RowTypes]
    BY <1>1, <1>2, <1>3
  <2> QED
    BY <1>1, <2>1, FunctionIsSeq
<1>5. \A n \in DOMAIN rows : /\ j[n].subject = rows[n].subject
                            /\ j[n].members = rows[n].members
                            /\ j[n].online = on(n)
  BY <1>2, <1>3
<1> QED
  BY <1>4, <1>5 DEF Rosters, RowTypes, j, on
------------------------------------------------------------------------------
(* The rows that discovery has made so far.                                *)
Merged ==
  {rows \in Rosters : OneRow(rows) /\ \A n \in DOMAIN rows : rows[n].members # {}}

(* One more reply joins the row of its subject, or makes it.               *)
LEMMA AddReplyMerges ==
  ASSUME NEW rows \in Merged, NEW i \in Instances, NEW heard, i \in heard,
         \A n \in DOMAIN rows : rows[n].members \subseteq heard
  PROVE  /\ AddReply(rows, i) \in Merged
         /\ \A n \in DOMAIN AddReply(rows, i) :
              AddReply(rows, i)[n].members \subseteq heard
<1> DEFINE a == AddReply(rows, i)
           row == Row(SubjectOf[i], {i}, TRUE)
<1>1. /\ rows \in Seq(RowTypes) /\ DOMAIN rows = 1 .. Len(rows) /\ Len(rows) \in Nat
      /\ OneRow(rows) /\ \A n \in DOMAIN rows : rows[n].members # {}
  BY DEF Merged, Rosters, RowTypes
<1>2. CASE \E n \in DOMAIN rows : rows[n].subject = SubjectOf[i]
  <2> DEFINE joined(n) == [rows[n] EXCEPT !.members = @ \cup {i}]
  <2>1. ASSUME NEW n \in DOMAIN rows
        PROVE  /\ joined(n) \in RowTypes /\ joined(n).subject = rows[n].subject
               /\ joined(n).members = rows[n].members \cup {i}
    <3>1. rows[n] \in RowTypes
      BY <1>1
    <3> QED
      BY <3>1 DEF RowTypes
  <2>2. a = [n \in DOMAIN rows |->
               IF rows[n].subject = SubjectOf[i] THEN joined(n) ELSE rows[n]]
    BY <1>2 DEF AddReply
  <2> HIDE DEF a, joined
  <2>3. a \in Seq(RowTypes) /\ DOMAIN a = DOMAIN rows
    BY <1>1, <2>1, <2>2
  <2>4. \A n \in DOMAIN rows :
          /\ a[n].subject = rows[n].subject
          /\ a[n].members = IF rows[n].subject = SubjectOf[i]
                            THEN rows[n].members \cup {i} ELSE rows[n].members
    BY <2>1, <2>2
  <2>5. ASSUME NEW n \in DOMAIN a, NEW m \in DOMAIN a,
               a[n].subject = a[m].subject
        PROVE  n = m
    <3>1. n \in DOMAIN rows /\ m \in DOMAIN rows
      BY <2>3
    <3>2. rows[n].subject = rows[m].subject /\ rows[n].members # {}
      BY <1>1, <2>4, <2>5, <3>1
    <3> QED
      BY <1>1, <3>1, <3>2 DEF OneRow
  <2>6. ASSUME NEW n \in DOMAIN a, NEW j \in a[n].members
        PROVE  SubjectOf[j] = a[n].subject
    BY <1>1, <2>3, <2>4 DEF OneRow
  <2>7. ASSUME NEW n \in DOMAIN a
        PROVE  a[n].members # {} /\ a[n].members \subseteq heard
    BY <1>1, <2>3, <2>4
  <2> QED
    BY <2>3, <2>5, <2>6, <2>7 DEF OneRow, Merged, Rosters, RowTypes, a
<1>3. CASE ~ \E n \in DOMAIN rows : rows[n].subject = SubjectOf[i]
  <2>1. /\ row \in RowTypes /\ row.subject = SubjectOf[i] /\ row.members = {i}
    BY DEF Row, RowTypes
  <2>2. a = Append(rows, row)
    BY <1>3 DEF AddReply
  <2> HIDE DEF a, row
  <2>3. /\ a \in Seq(RowTypes) /\ DOMAIN a = 1 .. Len(rows) + 1
        /\ \A n \in DOMAIN rows : a[n] = rows[n]
        /\ a[Len(rows) + 1] = row
    BY <1>1, <2>1, <2>2
  <2>4. \A n \in DOMAIN a : n \notin DOMAIN rows => a[n] = row
    BY <1>1, <2>3
  <2>5. ASSUME NEW n \in DOMAIN a, NEW m \in DOMAIN a,
               a[n].subject = a[m].subject
        PROVE  n = m
    <3>1. n \in DOMAIN rows \/ n = Len(rows) + 1
      BY <1>1, <2>3
    <3>2. m \in DOMAIN rows \/ m = Len(rows) + 1
      BY <1>1, <2>3
    <3> QED
      BY <1>1, <1>3, <2>1, <2>3, <2>5, <3>1, <3>2 DEF OneRow
  <2>6. ASSUME NEW n \in DOMAIN a, NEW j \in a[n].members
        PROVE  SubjectOf[j] = a[n].subject
    BY <1>1, <2>1, <2>3, <2>4 DEF OneRow
  <2>7. ASSUME NEW n \in DOMAIN a
        PROVE  a[n].members # {} /\ a[n].members \subseteq heard
    BY <1>1, <2>1, <2>3, <2>4
  <2> QED
    BY <2>3, <2>5, <2>6, <2>7 DEF OneRow, Merged, Rosters, RowTypes, a
<1> QED
  BY <1>2, <1>3

(* onAgentsDiscovered() makes one row per agent that answered, out of the  *)
(* instances that answered and no others.                                  *)
LEMMA DiscoveredRows ==
  ASSUME NEW replies \in Seq(Instances)
  PROVE  /\ Discovered(replies) \in Merged
         /\ \A n \in DOMAIN Discovered(replies) :
              Discovered(replies)[n].members \subseteq ToSet(replies)
<1> DEFINE N == Len(replies)
           M == {m \in Merged :
                   \A k \in DOMAIN m : m[k].members \subseteq ToSet(replies)}
           g == [n \in 1 .. N |-> [m \in M |-> AddReply(m, replies[n])]]
           Def(f) == [n \in 0 .. N |->
                        IF n = 0 THEN <<>> ELSE AddReply(f[n - 1], replies[n])]
           rows == CHOOSE f : f = Def(f)
<1>1. /\ N \in Nat
      /\ \A n \in 1 .. N : replies[n] \in Instances /\ replies[n] \in ToSet(replies)
  BY DEF ToSet
<1>2. <<>> \in M
  BY DEF Merged, Rosters, OneRow
<1>3. g \in [1 .. N -> [M -> M]]
  <2> SUFFICES ASSUME NEW n \in 1 .. N, NEW m \in M
               PROVE  AddReply(m, replies[n]) \in M
    OBVIOUS
  <2> QED
    BY <1>1, AddReplyMerges
<1>4. PICK f \in [0 .. N -> M] : IsIteration(f, <<>>, g, N)
  <2> HIDE DEF g, N, M
  <2> QED
    BY <1>1, <1>2, <1>3, Iterates
<1>5. f = Def(f)
  <2>1. f[0] = <<>>
    BY <1>4 DEF IsIteration
  <2>2. ASSUME NEW n \in 1 .. N PROVE f[n] = AddReply(f[n - 1], replies[n])
    <3>1. n - 1 \in 0 .. N /\ f[n - 1] \in M
      BY <1>1
    <3> QED
      BY <1>1, <1>4, <3>1 DEF IsIteration
  <2> HIDE DEF N, M
  <2>3. \A n \in 0 .. N : n = 0 \/ n \in 1 .. N
    BY <1>1
  <2> QED
    BY <2>1, <2>2, <2>3
<1>6. rows = Def(rows)
  <2> HIDE DEF Def
  <2> QED
    BY <1>5
<1>7. Discovered(replies) = rows[N]
  BY DEF Discovered
<1> HIDE DEF rows, g
<1>8. rows[0] = <<>> /\ \A n \in 1 .. N : rows[n] = AddReply(rows[n - 1], replies[n])
  <2>1. 0 \in 0 .. N /\ \A n \in 1 .. N : n \in 0 .. N /\ n # 0
    BY <1>1
  <2> QED
    BY <1>6, <2>1
<1>9. \A n \in 0 .. N : rows[n] \in M
  <2>1. rows[0] \in M
    BY <1>2, <1>8
  <2>2. ASSUME NEW n \in 1 .. N, rows[n - 1] \in M PROVE rows[n] \in M
    BY <1>1, <1>8, <2>2, AddReplyMerges
  <2> HIDE DEF M, N
  <2> QED
    BY <1>1, <2>1, <2>2, LoopInvariant
<1> QED
  BY <1>1, <1>7, <1>9
------------------------------------------------------------------------------
(* Types of what is not on screen: a lemma for each way a step can go on.  *)
AgesBounded(known) ==
  \A i \in Instances : known[i].age <= 3 * known[i].interval + Sweep + 1
Apart ==
  /\ LinkTypeOK /\ batch \in Seq(Instances)
  /\ seen \in Sightings /\ AgesBounded(seen)
  /\ window \in Timers(Window) /\ rediscover \in Timers(Debounce)
  /\ sweep \in Timers(Sweep)
  /\ served \in BOOLEAN /\ judged \in BOOLEAN

LEMMA TypeParts == RosterTypeOK <=> Apart /\ roster \in Rosters
BY DEF RosterTypeOK, Apart, Sightings, AgesBounded

LEMMA RowMembers ==
  ASSUME NEW rows \in Rosters, NEW n \in DOMAIN rows
  PROVE  rows[n].members \subseteq Instances
<1>1. rows \in Seq(RowTypes)
  BY DEF Rosters, RowTypes
<1>2. rows[n] \in RowTypes
  BY <1>1
<1> QED
  BY <1>2 DEF RowTypes

(* A running timer has a time left; the sweep's tells how long ago it ran. *)
LEMMA TimerValues ==
  ASSUME Apart, sweep # Off
  PROVE  sweep \in Nat /\ sweep <= Sweep
BY Lengths DEF Apart, Timers

(* A step that leaves rows, sightings and the sweep alone, and at most     *)
(* forgets that the rows were judged.                                      *)
LEMMA SameRows ==
  ASSUME RosterInv, Apart', UNCHANGED <<roster, seen>>,
         sweep' # Off <=> link' = "up",
         judged' => judged /\ sweep' = sweep
  PROVE  RosterInv'
<1>1. RosterTypeOK'
  BY DEF RosterInv, RosterTypeOK, Apart, Sightings, AgesBounded
<1>2. OneRowPerAgent' /\ OfflineIsSilent' /\ MembersKnown'
  BY DEF RosterInv, OneRowPerAgent, OfflineIsSilent, MembersKnown, Fresh
<1>3. OnlineIsFresh' /\ SweptWhileJudged'
  BY DEF RosterInv, OnlineIsFresh, SweptWhileJudged
<1> QED
  BY <1>1, <1>2, <1>3 DEF RosterInv

(* A step that shows the configured roster.                                *)
LEMMA StaticShown ==
  ASSUME RosterInv, Apart', roster' = StaticRoster,
         sweep' # Off <=> link' = "up",
         judged' => sweep' # Off
  PROVE  RosterInv'
<1>1. RosterTypeOK'
  BY StaticRows DEF RosterTypeOK, Apart, Sightings, AgesBounded
<1>2. \A n \in DOMAIN roster' : roster'[n].members = {} /\ roster'[n].online = FALSE
  BY StaticRows
<1>3. OneRowPerAgent' /\ OfflineIsSilent' /\ MembersKnown'
  BY <1>2 DEF OneRowPerAgent, OfflineIsSilent, MembersKnown
<1>4. OnlineIsFresh' /\ SweptWhileJudged'
  BY <1>2 DEF OnlineIsFresh, SweptWhileJudged
<1> QED
  BY <1>1, <1>3, <1>4 DEF RosterInv

(* A step that judges rows anew, by what is known after it.                *)
LEMMA JudgedShown ==
  ASSUME Apart', NEW rows \in Rosters, OneRow(rows),
         roster' = Judged(rows, seen'),
         \A n \in DOMAIN rows : \A i \in rows[n].members : seen'[i].interval # 0,
         sweep' # Off <=> link' = "up",
         judged' => sweep' # Off
  PROVE  RosterInv'
<1>1. seen' \in Sightings
  BY DEF Apart
<1>2. /\ roster' \in Rosters /\ DOMAIN roster' = DOMAIN rows
      /\ \A n \in DOMAIN rows :
           /\ roster'[n].subject = rows[n].subject
           /\ roster'[n].members = rows[n].members
           /\ roster'[n].online = \E i \in rows[n].members : Fresh(seen'[i])
  BY <1>1, JudgedRows
<1>3. RosterTypeOK'
  BY <1>2 DEF RosterTypeOK, Apart, Sightings, AgesBounded
<1>4. OneRowPerAgent'
  <2>1. ASSUME NEW n \in DOMAIN roster', NEW m \in DOMAIN roster',
               roster'[n].subject = roster'[m].subject, roster'[n].members # {}
        PROVE  n = m
    <3>1. /\ n \in DOMAIN rows /\ m \in DOMAIN rows
          /\ rows[n].subject = rows[m].subject /\ rows[n].members # {}
      BY <1>2, <2>1
    <3> QED
      BY <3>1 DEF OneRow
  <2>2. ASSUME NEW n \in DOMAIN roster', NEW i \in roster'[n].members
        PROVE  SubjectOf[i] = roster'[n].subject
    BY <1>2 DEF OneRow
  <2> QED
    BY <2>1, <2>2 DEF OneRowPerAgent
<1>5. MembersKnown' /\ SweptWhileJudged'
  BY <1>2 DEF MembersKnown, SweptWhileJudged
<1>6. OnlineIsFresh'
  <2> SUFFICES ASSUME judged', NEW n \in DOMAIN roster', roster'[n].online
               PROVE  \E i \in roster'[n].members :
                        /\ seen'[i].interval # 0
                        /\ seen'[i].age <= 3 * seen'[i].interval + (Sweep - sweep')
    BY DEF OnlineIsFresh
  <2>1. PICK i \in roster'[n].members : Fresh(seen'[i])
    BY <1>2
  <2>2. i \in Instances
    BY <1>2, RowMembers
  <2>3. seen'[i].age \in Nat /\ seen'[i].interval \in Nat
    BY <1>1, <2>2 DEF Sightings
  <2>4. sweep' \in Nat /\ sweep' <= Sweep /\ Sweep \in Nat
    BY Lengths DEF Apart, Timers
  <2>5. seen'[i].age <= 3 * seen'[i].interval /\ seen'[i].interval # 0
    BY <2>1 DEF Fresh
  <2> QED
    BY <2>3, <2>4, <2>5
<1>7. OfflineIsSilent'
  BY <1>2 DEF OfflineIsSilent
<1> QED
  BY <1>3, <1>4, <1>5, <1>6, <1>7 DEF RosterInv

(* A heartbeat of an instance that is behind no row changes none.          *)
LEMMA StrangerHeard ==
  ASSUME RosterInv, Apart', UNCHANGED <<roster, sweep, link, judged>>,
         NEW i \in Instances, ~ InRoster(i),
         \A j \in Instances \ {i} : seen'[j] = seen[j]
  PROVE  RosterInv'
<1>1. roster \in Rosters
  BY TypeParts DEF RosterInv
<1>2. \A n \in DOMAIN roster : \A j \in roster[n].members : seen'[j] = seen[j]
  <2> SUFFICES ASSUME NEW n \in DOMAIN roster, NEW j \in roster[n].members
               PROVE  j \in Instances /\ j # i
    OBVIOUS
  <2> QED
    BY <1>1, RowMembers DEF InRoster
<1>3. RosterTypeOK'
  BY <1>1 DEF RosterTypeOK, Apart, Sightings, AgesBounded
<1>4. OneRowPerAgent' /\ SweptWhileJudged' /\ MembersKnown'
  BY <1>2 DEF RosterInv, OneRowPerAgent, SweptWhileJudged, MembersKnown
<1>5. OfflineIsSilent'
  BY <1>2 DEF RosterInv, OfflineIsSilent, Fresh
<1>6. OnlineIsFresh'
  BY <1>2 DEF RosterInv, OnlineIsFresh
<1> QED
  BY <1>3, <1>4, <1>5, <1>6 DEF RosterInv

(* A tick ages what was seen by one at most, and brings the sweep nearer.  *)
LEMMA TickInv ==
  ASSUME RosterInv, Tick
  PROVE  RosterInv'
<1>1. Apart /\ roster \in Rosters
  BY TypeParts DEF RosterInv
<1>2. ASSUME NEW i \in Instances
      PROVE  /\ seen'[i] \in [age : Nat, interval : Nat]
             /\ seen'[i].interval = seen[i].interval
             /\ seen[i].age <= seen'[i].age /\ seen'[i].age <= seen[i].age + 1
             /\ seen'[i].age <= 3 * seen'[i].interval + Sweep + 1
             /\ seen[i].age \in Nat /\ seen[i].interval \in Nat
  <2>1. /\ seen[i] \in [age : Nat, interval : Nat]
        /\ seen[i].age <= 3 * seen[i].interval + Sweep + 1
    BY <1>1 DEF Apart, Sightings, AgesBounded
  <2>2. seen'[i] = Older(seen[i])
    BY DEF Tick
  <2> QED
    BY <2>1, <2>2, Lengths DEF Older
<1>3. Apart'
  <2>1. seen' \in Sightings /\ AgesBounded(seen')
    BY <1>2 DEF Sightings, AgesBounded, Tick
  <2>2. \A limit \in Nat : \A t \in Timers(limit) :
          t # 0 => Left(t) \in Timers(limit)
    BY DEF Timers, Left, Off
  <2>3. window' \in Timers(Window) /\ rediscover' \in Timers(Debounce)
        /\ sweep' \in Timers(Sweep)
    BY <1>1, <2>2, Lengths DEF Apart, Tick
  <2> QED
    BY <1>1, <2>1, <2>3 DEF Apart, Tick, LinkTypeOK, linkVars
<1>4. RosterTypeOK'
  BY <1>1, <1>3 DEF Tick, RosterTypeOK, Apart, Sightings, AgesBounded
<1>5. sweep' # Off <=> sweep # Off
  BY <1>1, Lengths DEF Apart, Timers, Tick, Left
<1>6. \A n \in DOMAIN roster : roster[n].members \subseteq Instances
  BY <1>1, RowMembers
<1>7. OneRowPerAgent' /\ MembersKnown' /\ SweptWhileJudged'
  <2>1. roster' = roster /\ judged' = judged
    BY DEF Tick
  <2> QED
    BY <1>2, <1>5, <1>6, <2>1
    DEF RosterInv, OneRowPerAgent, MembersKnown, SweptWhileJudged
<1>8. OfflineIsSilent'
  <2> SUFFICES ASSUME NEW n \in DOMAIN roster, ~ roster[n].online,
                      NEW i \in roster[n].members
               PROVE  seen'[i].interval # 0 /\ ~ Fresh(seen'[i])
    BY DEF Tick, OfflineIsSilent
  <2>1. seen[i].interval # 0 /\ ~ Fresh(seen[i])
    BY DEF RosterInv, OfflineIsSilent
  <2> QED
    BY <1>2, <1>6, <2>1 DEF Fresh
<1>9. OnlineIsFresh'
  <2>1. sweep' # Off <=> link' = "up"
    BY <1>5 DEF RosterInv, OnlineIsFresh, Tick, linkVars
  <2> SUFFICES ASSUME judged, NEW n \in DOMAIN roster, roster[n].online
               PROVE  \E i \in roster[n].members :
                        /\ seen'[i].interval # 0
                        /\ seen'[i].age <= 3 * seen'[i].interval + (Sweep - sweep')
    BY <2>1 DEF OnlineIsFresh, Tick
  <2>2. PICK i \in roster[n].members :
          /\ seen[i].interval # 0
          /\ seen[i].age <= 3 * seen[i].interval + (Sweep - sweep)
    BY DEF RosterInv, OnlineIsFresh
  <2>3. sweep \in Nat /\ sweep # Off /\ Sweep \in Nat
    BY <1>1, TimerValues, Lengths DEF RosterInv, SweptWhileJudged
  <2>4. sweep' = sweep - 1
    BY <2>3 DEF Tick, Left
  <2>5. i \in Instances
    BY <1>6
  <2> QED
    BY <1>2, <2>2, <2>3, <2>4, <2>5
<1> QED
  BY <1>4, <1>7, <1>8, <1>9 DEF RosterInv
------------------------------------------------------------------------------
(* A reply or a beat keeps the sightings' types, and no age grows.         *)
LEMMA ConfirmTypes ==
  ASSUME NEW known \in Sightings, AgesBounded(known), NEW replies \in Seq(Instances)
  PROVE  /\ Confirm(known, replies) \in Sightings
         /\ AgesBounded(Confirm(known, replies))
         /\ \A i \in ToSet(replies) : Confirm(known, replies)[i].interval # 0
<1> DEFINE c == Confirm(known, replies)
<1>1. ToSet(replies) \subseteq Instances
  BY DEF ToSet
<1>2. ASSUME NEW i \in Instances
      PROVE  /\ c[i] \in [age : Nat, interval : Nat]
             /\ c[i].age <= 3 * c[i].interval + Sweep + 1
             /\ i \in ToSet(replies) => c[i].interval # 0
  <2>1. known[i] \in [age : Nat, interval : Nat]
        /\ known[i].age <= 3 * known[i].interval + Sweep + 1
    BY DEF Sightings, AgesBounded
  <2>2. c[i] = IF i \in ToSet(replies)
               THEN [age |-> 0,
                     interval |-> IF known[i].interval = 0 THEN DefaultInterval
                                  ELSE known[i].interval]
               ELSE known[i]
    BY DEF Confirm
  <2> HIDE DEF c
  <2> QED
    BY <2>1, <2>2, Lengths
<1>3. c \in Sightings
  BY <1>2 DEF Confirm, Sightings
<1> QED
  BY <1>1, <1>2, <1>3 DEF AgesBounded

LEMMA HeartbeatTypes ==
  ASSUME Apart, NEW i \in Instances, NEW interval \in Int,
         seen' = [seen EXCEPT ![i] =
           [age |-> 0, interval |-> IF interval > 0 THEN interval
                                    ELSE DefaultInterval]]
  PROVE  /\ seen' \in Sightings /\ AgesBounded(seen')
         /\ seen'[i].interval # 0
         /\ \A j \in Instances \ {i} : seen'[j] = seen[j]
<1> DEFINE beat == IF interval > 0 THEN interval ELSE DefaultInterval
<1>1. beat \in Nat /\ beat # 0
  BY Lengths
<1>2. seen' = [seen EXCEPT ![i] = [age |-> 0, interval |-> beat]]
  OBVIOUS
<1> HIDE DEF beat
<1>3. /\ seen' \in Sightings /\ seen'[i] = [age |-> 0, interval |-> beat]
      /\ \A j \in Instances \ {i} : seen'[j] = seen[j]
  BY <1>1, <1>2 DEF Apart, Sightings
<1>4. AgesBounded(seen')
  BY <1>1, <1>3, Lengths DEF Apart, AgesBounded
<1> QED
  BY <1>1, <1>3, <1>4

LEMMA NothingSeen ==
  [i \in Instances |-> NotSeen] \in Sightings
  /\ AgesBounded([i \in Instances |-> NotSeen])
BY Lengths DEF Sightings, AgesBounded, NotSeen

(* discover() touches the window, the batch and the inbox.                 *)
LEMMA DiscoverTypes ==
  ASSUME Apart, NEW up \in BOOLEAN, Discover(up)
  PROVE  /\ window' \in Timers(Window) /\ batch' \in Seq(Instances)
         /\ served' \in BOOLEAN
<1>1. CASE up
  <2>1. window' = Window /\ batch' = <<>> /\ served' = TRUE
    BY <1>1 DEF Discover
  <2> QED
    BY <2>1, Lengths DEF Timers
<1>2. CASE ~ up
  BY <1>2 DEF Apart, Discover
<1> QED
  BY <1>1, <1>2
------------------------------------------------------------------------------
(* onAgentsDiscovered(): the configured rows when nobody answered, one     *)
(* row per agent that did otherwise.                                       *)
LEMMA WindowClosesInv ==
  ASSUME RosterInv, WindowCloses
  PROVE  RosterInv'
<1>1. Apart /\ OneRow(roster)
  BY TypeParts DEF RosterInv, OneRowPerAgent, OneRow
<1>2. window' \in Timers(Window) /\ served' \in BOOLEAN
  BY DEF WindowCloses, Timers
<1>3. sweep' # Off <=> link' = "up"
  BY DEF RosterInv, OnlineIsFresh, WindowCloses, linkVars
<1>4. CASE batch = <<>>
  <2>1. /\ roster' = StaticRoster
        /\ UNCHANGED <<seen, judged, batch, rediscover, sweep, linkVars>>
    BY <1>4 DEF WindowCloses
  <2>2. Apart'
    BY <1>1, <1>2, <2>1 DEF Apart, LinkTypeOK, linkVars
  <2>3. judged' => sweep' # Off
    BY <2>1 DEF RosterInv, SweptWhileJudged
  <2> QED
    BY <1>3, <2>1, <2>2, <2>3, StaticShown
<1>5. CASE batch # <<>>
  <2> DEFINE rows == Discovered(batch)
  <2>1. /\ seen' = Confirm(seen, batch) /\ roster' = Judged(rows, seen')
        /\ judged' = (sweep # Off)
        /\ UNCHANGED <<batch, rediscover, sweep, linkVars>>
    BY <1>5 DEF WindowCloses
  <2>2. /\ seen' \in Sightings /\ AgesBounded(seen')
        /\ \A i \in ToSet(batch) : seen'[i].interval # 0
    BY <1>1, <2>1, ConfirmTypes DEF Apart
  <2>3. /\ rows \in Rosters /\ OneRow(rows)
        /\ \A n \in DOMAIN rows : rows[n].members \subseteq ToSet(batch)
    BY <1>1, DiscoveredRows DEF Apart, Merged
  <2> HIDE DEF rows
  <2>4. Apart'
    <3>1. judged' \in BOOLEAN
      BY <2>1
    <3> QED
      BY <1>1, <1>2, <2>1, <2>2, <3>1 DEF Apart, LinkTypeOK, linkVars, AgesBounded
  <2>5. \A n \in DOMAIN rows : \A i \in rows[n].members : seen'[i].interval # 0
    BY <2>2, <2>3
  <2>6. judged' => sweep' # Off
    BY <2>1
  <2> QED
    BY <1>3, <2>1, <2>3, <2>4, <2>5, <2>6, JudgedShown
<1> QED
  BY <1>4, <1>5

(* onHeartbeat(): a stranger starts the debounce; anyone else is judged.   *)
LEMMA HeartbeatInv ==
  ASSUME RosterInv, NEW i \in Instances, NEW interval \in Cadences[i],
         Heartbeat(i, interval)
  PROVE  RosterInv'
<1>1. Apart /\ OneRow(roster) /\ roster \in Rosters
  BY TypeParts DEF RosterInv, OneRowPerAgent, OneRow
<1>2. interval \in Int
  BY RosterAssumption
<1>3. /\ seen' \in Sightings /\ AgesBounded(seen') /\ seen'[i].interval # 0
      /\ \A j \in Instances \ {i} : seen'[j] = seen[j]
  BY <1>1, <1>2, HeartbeatTypes DEF Heartbeat
<1>4. /\ link = "up" /\ sweep # Off
      /\ UNCHANGED <<batch, window, sweep, served, link, label>>
  BY DEF RosterInv, OnlineIsFresh, Heartbeat, linkVars
<1>5. CASE ~ InRoster(i) /\ label = "connected"
  <2>1. rediscover' = Debounce /\ UNCHANGED <<roster, judged>>
    BY <1>5 DEF Heartbeat
  <2>2. rediscover' \in Timers(Debounce)
    BY <2>1, Lengths DEF Timers
  <2>3. Apart'
    BY <1>1, <1>3, <1>4, <2>1, <2>2 DEF Apart, LinkTypeOK, AgesBounded
  <2> QED
    BY <1>3, <1>4, <1>5, <2>1, <2>3, StrangerHeard
<1>6. CASE ~ (~ InRoster(i) /\ label = "connected")
  <2>1. roster' = Judged(roster, seen') /\ judged' = TRUE /\ rediscover' = rediscover
    BY <1>6 DEF Heartbeat
  <2>2. Apart'
    BY <1>1, <1>3, <1>4, <2>1 DEF Apart, LinkTypeOK, AgesBounded
  <2>3. ASSUME NEW n \in DOMAIN roster, NEW j \in roster[n].members
        PROVE  seen'[j].interval # 0
    <3>1. j \in Instances
      BY <1>1, RowMembers
    <3>2. seen[j].interval # 0
      BY DEF RosterInv, MembersKnown
    <3> QED
      BY <1>3, <3>1, <3>2
  <2> QED
    BY <1>1, <1>4, <2>1, <2>2, <2>3, JudgedShown
<1> QED
  BY <1>5, <1>6

(* The sweep judges all rows and starts over.                              *)
LEMMA SweepInv ==
  ASSUME RosterInv, SweepFires
  PROVE  RosterInv'
<1>1. Apart /\ OneRow(roster) /\ roster \in Rosters /\ sweep # Off
  BY TypeParts, Lengths DEF RosterInv, OneRowPerAgent, OneRow, SweepFires
<1>2. /\ sweep' = Sweep /\ roster' = Judged(roster, seen') /\ judged' = TRUE
      /\ UNCHANGED <<seen, batch, window, rediscover, served, link, label>>
  BY DEF SweepFires, linkVars
<1>3. sweep' \in Timers(Sweep) /\ sweep' # Off
  BY <1>2, Lengths DEF Timers
<1>4. Apart'
  BY <1>1, <1>2, <1>3 DEF Apart, LinkTypeOK, AgesBounded
<1>5. sweep' # Off <=> link' = "up"
  BY <1>1, <1>2, <1>3 DEF RosterInv, OnlineIsFresh
<1>6. \A n \in DOMAIN roster : \A i \in roster[n].members : seen'[i].interval # 0
  BY <1>2 DEF RosterInv, MembersKnown
<1> QED
  BY <1>1, <1>2, <1>3, <1>4, <1>5, <1>6, JudgedShown

(* A connection lost, or given up by a new dial, takes the discovered      *)
(* rows, the sightings and the sweep with it.                              *)
LEMMA DropInv ==
  ASSUME RosterInv, DropRoster, LinkTypeOK', link' # "up"
  PROVE  RosterInv'
<1>1. Apart
  BY TypeParts DEF RosterInv
<1>2. seen' \in Sightings /\ AgesBounded(seen')
  BY NothingSeen DEF DropRoster
<1>3. sweep' \in Timers(Sweep) /\ sweep' = Off
  BY DEF DropRoster, Timers
<1>4. Apart'
  BY <1>1, <1>2, <1>3 DEF Apart, DropRoster, AgesBounded
<1>5. roster' = StaticRoster /\ judged' = FALSE
  BY DEF DropRoster
<1> QED
  BY <1>3, <1>4, <1>5, StaticShown
------------------------------------------------------------------------------
(* The inductive invariant: what the roster keeps through any order of     *)
(* connections, replies, heartbeats, timers and time.                      *)
THEOREM RosterInvariant == RosterSpec => []RosterInv
<1>1. RosterInit => RosterInv
  <2> SUFFICES ASSUME RosterInit PROVE RosterInv
    OBVIOUS
  <2>1. seen \in Sightings /\ AgesBounded(seen)
    BY NothingSeen DEF RosterInit
  <2>2. RosterTypeOK
    <3>1. roster \in Rosters
      BY StaticRows DEF RosterInit
    <3>2. batch \in Seq(Instances) /\ served \in BOOLEAN /\ judged \in BOOLEAN
      <4>1. batch = <<>> /\ served = FALSE /\ judged = FALSE
        BY DEF RosterInit
      <4>2. <<>> \in Seq(Instances)
        OBVIOUS
      <4> QED
        BY <4>1, <4>2, Zenon
    <3>3. /\ window \in Timers(Window) /\ rediscover \in Timers(Debounce)
          /\ sweep \in Timers(Sweep)
      BY DEF RosterInit, Timers
    <3>4. LinkTypeOK
      BY DEF RosterInit, LinkInit, LinkTypeOK
    <3> QED
      BY <2>1, <3>1, <3>2, <3>3, <3>4 DEF RosterTypeOK, Sightings, AgesBounded
  <2>3. \A n \in DOMAIN roster : roster[n].members = {} /\ roster[n].online = FALSE
    BY StaticRows DEF RosterInit
  <2> QED
    BY <2>2, <2>3
    DEF RosterInit, LinkInit, RosterInv, OneRowPerAgent, OnlineIsFresh,
        OfflineIsSilent, MembersKnown, SweptWhileJudged
<1>2. RosterInv /\ [RosterNext]_rosterVars => RosterInv'
  <2> SUFFICES ASSUME RosterInv, [RosterNext]_rosterVars PROVE RosterInv'
    OBVIOUS
  <2>0. /\ Apart /\ (sweep # Off <=> link = "up")
        /\ (judged => sweep # Off)
    BY TypeParts DEF RosterInv, OnlineIsFresh, SweptWhileJudged
  <2>1. CASE OnConnected
    <3>1. /\ link' = "up" /\ sweep' = Sweep /\ judged' = FALSE /\ LinkTypeOK'
          /\ UNCHANGED <<roster, seen, rediscover>>
      BY <2>1 DEF OnConnected, Connected, LinkTypeOK
    <3>2. /\ window' \in Timers(Window) /\ batch' \in Seq(Instances)
          /\ served' \in BOOLEAN
      BY <2>0, <2>1, DiscoverTypes DEF OnConnected
    <3>3. sweep' \in Timers(Sweep) /\ sweep' # Off
      BY <3>1, Lengths DEF Timers
    <3>4. Apart'
      BY <2>0, <3>1, <3>2, <3>3 DEF Apart, AgesBounded
    <3> QED
      BY <3>1, <3>3, <3>4, SameRows
  <2>2. CASE OnDisconnected
    <3>1. link' = "down" /\ LinkTypeOK' /\ DropRoster
      BY <2>2 DEF OnDisconnected, Disconnected, LinkTypeOK
    <3> QED
      BY <3>1, DropInv
  <2>3. CASE Connect
    <3>1. link' = "dialing" /\ LinkTypeOK'
      BY <2>3 DEF Connect, ConnectToServer, LinkTypeOK
    <3>2. CASE AbortEmits
      BY <2>3, <3>1, <3>2, DropInv DEF Connect
    <3>3. CASE ~ AbortEmits
      <4>1. Unaffected
        BY <2>3, <3>3 DEF Connect
      <4>2. link # "up"
        BY <3>3 DEF AbortEmits
      <4>3. Apart'
        BY <2>0, <3>1, <4>1 DEF Apart, AgesBounded, Unaffected
      <4> QED
        BY <2>0, <3>1, <4>1, <4>2, <4>3, SameRows DEF Unaffected
    <3> QED
      BY <3>2, <3>3
  <2>4. CASE OtherSignals
    <3>1. Unaffected /\ LinkTypeOK' /\ (link' = "up" <=> link = "up")
      BY <2>0, <2>4
      DEF Apart, OtherSignals, TcpConnected, DialFailed, ServerError, LinkTypeOK
    <3>2. Apart'
      BY <2>0, <3>1 DEF Apart, AgesBounded, Unaffected
    <3> QED
      BY <2>0, <3>1, <3>2, SameRows DEF Unaffected
  <2>5. CASE Refresh
    <3>1. PICK up \in BOOLEAN : Discover(up)
      BY <2>5 DEF Refresh
    <3>2. UNCHANGED <<roster, seen, rediscover, sweep, judged, link, label>>
      BY <2>5 DEF Refresh, linkVars
    <3>3. Apart'
      BY <2>0, <3>1, <3>2, DiscoverTypes DEF Apart, AgesBounded, LinkTypeOK
    <3> QED
      BY <2>0, <3>2, <3>3, SameRows
  <2>6. CASE RediscoverFires
    <3>1. PICK up \in BOOLEAN : Discover(up)
      BY <2>6 DEF RediscoverFires
    <3>2. UNCHANGED <<roster, seen, sweep, judged, link, label>>
      BY <2>6 DEF RediscoverFires, linkVars
    <3>3. rediscover' \in Timers(Debounce)
      BY <2>6 DEF RediscoverFires, Timers
    <3>4. Apart'
      BY <2>0, <3>1, <3>2, <3>3, DiscoverTypes DEF Apart, AgesBounded, LinkTypeOK
    <3> QED
      BY <2>0, <3>2, <3>4, SameRows
  <2>7. ASSUME NEW i \in Instances, DiscoveryReply(i) PROVE RosterInv'
    <3>1. /\ batch' = Append(batch, i)
          /\ UNCHANGED <<roster, seen, window, rediscover, sweep, served, judged,
                         link, label>>
      BY <2>7 DEF DiscoveryReply, linkVars
    <3>2. batch' \in Seq(Instances)
      BY <2>0, <3>1 DEF Apart
    <3>3. Apart'
      BY <2>0, <3>1, <3>2 DEF Apart, AgesBounded, LinkTypeOK
    <3> QED
      BY <2>0, <3>1, <3>3, SameRows
  <2>8. CASE UNCHANGED rosterVars
    <3>1. UNCHANGED <<roster, seen, batch, window, rediscover, sweep, served,
                      judged, link, label>>
      BY <2>8 DEF rosterVars, linkVars
    <3>2. Apart'
      BY <2>0, <3>1 DEF Apart, AgesBounded, LinkTypeOK
    <3> QED
      BY <2>0, <3>1, <3>2, SameRows
  <2>9. CASE WindowCloses
    BY <2>9, WindowClosesInv
  <2>10. CASE SweepFires
    BY <2>10, SweepInv
  <2>11. CASE Tick
    BY <2>11, TickInv
  <2>12. ASSUME NEW i \in Instances, NEW interval \in Cadences[i],
                Heartbeat(i, interval)
         PROVE  RosterInv'
    BY <2>12, HeartbeatInv
  <2> QED
    BY <2>1, <2>2, <2>3, <2>4, <2>5, <2>6, <2>7, <2>8, <2>9, <2>10, <2>11, <2>12
    DEF RosterNext
<1> QED
  BY <1>1, <1>2, PTL DEF RosterSpec

(* Ages, cadences and timers keep their types, whatever heartbeats claim.  *)
THEOREM RosterTypes == RosterSpec => []RosterTypeOK
<1>1. RosterInv => RosterTypeOK
  BY DEF RosterInv
<1> QED
  BY <1>1, RosterInvariant, PTL

(* One row per agent, with the instances of its own subject behind it.     *)
THEOREM AgentsMerged == RosterSpec => []OneRowPerAgent
<1>1. RosterInv => OneRowPerAgent
  BY DEF RosterInv
<1> QED
  BY <1>1, RosterInvariant, PTL

(* An agent shown online was heard recently enough.                        *)
THEOREM OnlineDots == RosterSpec => []OnlineIsFresh
<1>1. RosterInv => OnlineIsFresh
  BY DEF RosterInv
<1> QED
  BY <1>1, RosterInvariant, PTL

(* An agent shown offline missed three beats on each of its instances.     *)
THEOREM OfflineDots == RosterSpec => []OfflineIsSilent
<1>1. RosterInv => OfflineIsSilent
  BY DEF RosterInv
<1> QED
  BY <1>1, RosterInvariant, PTL
=============================================================================
