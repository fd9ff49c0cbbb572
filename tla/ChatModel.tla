------------------------------ MODULE ChatModel ------------------------------
(***************************************************************************)
(* The per-agent conversations of agents/ChatModel: every conversation is  *)
(* retained (at most Cap rows), one of them is on screen, and streaming    *)
(* replies are routed to their row by request id.                          *)
(*                                                                         *)
(* The object's state is one record, and each public method is an operator *)
(* from record to record, so that a controller handler that calls several  *)
(* methods in one turn of the event loop is their composition.             *)
(***************************************************************************)
EXTENDS Naturals, Sequences

CONSTANTS Subjects,    \* the agents' prompt subjects: the conversations' keys
          NoSubject,   \* the empty QString: no conversation
          Requests,    \* request ids (UUIDs, each issued once)
          NoRequest,   \* the empty request id of a user row
          Deltas,      \* response texts
          ErrorMark,   \* the text setError appends to a row
          Cap,         \* m_cap: rows retained per conversation
          MaxText      \* model bound: deltas and error marks in one row

ASSUME SubjectAssumption == NoSubject \notin Subjects
ASSUME RequestAssumption == NoRequest \notin Requests
ASSUME CapAssumption == Cap \in Nat \ {0}
ASSUME BoundAssumption == MaxText \in Nat

VARIABLES chat,      \* the ChatModel object (and what its view was told)
          issued     \* request ids handed to appendAgentPending so far

chatVars == <<chat, issued>>
------------------------------------------------------------------------------
Rows == [role : {"user", "agent"},
         status : {"pending", "streaming", "done", "error"},
         requestId : Requests \cup {NoRequest},
         text : Seq(Deltas \cup {ErrorMark})]

UserRow == [role |-> "user", status |-> "done",
            requestId |-> NoRequest, text |-> <<>>]
PendingRow(r) == [role |-> "agent", status |-> "pending",
                  requestId |-> r, text |-> <<>>]

(* A key m_convs does not hold reads as an empty conversation, and a       *)
(* request m_reqConv does not hold reads as the empty subject. `view` is   *)
(* the list the QML ListView has built from the model's signals alone.     *)
ChatRecords == [convs : [Subjects \cup {NoSubject} -> Seq(Rows)],
                reqConv : [Requests -> Subjects \cup {NoSubject}],
                curKey : Subjects \cup {NoSubject},
                view : Seq(Rows)]

EmptyChat == [convs |-> [k \in Subjects \cup {NoSubject} |-> <<>>],
              reqConv |-> [r \in Requests |-> NoSubject],
              curKey |-> NoSubject,
              view |-> <<>>]

(* setConversation: a model reset, after which the view reads all rows.    *)
SetConversation(c, k) ==
  IF k = c.curKey THEN c
                  ELSE [c EXCEPT !.curKey = k, !.view = c.convs[k]]

(* trim(): how many rows go, the rows that stay, and the index without the *)
(* requests of the rows that went.                                         *)
SurplusLate(v) == IF Len(v) > 2 * Cap THEN Len(v) - 2 * Cap ELSE 0
SurplusEager(v) == IF Len(v) >= Cap THEN Len(v) - Cap + 1 ELSE 0
Surplus(v) == IF Len(v) > Cap THEN Len(v) - Cap ELSE 0
Kept(v, n) == SubSeq(v, n + 1, Len(v))
UnindexedNever(idx, v, n) == idx
Unindexed(idx, v, n) ==
  [r \in Requests |->
     IF \E i \in 1 .. n : v[i].requestId = r THEN NoSubject ELSE idx[r]]

(* appendTo(key, m) with the trim it ends in; `idx` is m_reqConv as the    *)
(* caller leaves it. Insertions and removals reach the view only when the  *)
(* conversation is the visible one.                                        *)
AppendToSilentTrim(c, k, m, idx) ==
  LET v == Append(c.convs[k], m)
      n == Surplus(v)
  IN [c EXCEPT !.convs[k] = Kept(v, n),
               !.reqConv = Unindexed(idx, v, n),
               !.view = IF k = c.curKey THEN Append(@, m) ELSE @]
AppendTo(c, k, m, idx) ==
  LET v == Append(c.convs[k], m)
      n == Surplus(v)
  IN [c EXCEPT !.convs[k] = Kept(v, n),
               !.reqConv = Unindexed(idx, v, n),
               !.view = IF k = c.curKey THEN Kept(Append(@, m), n) ELSE @]

AppendUser(c) == AppendTo(c, c.curKey, UserRow, c.reqConv)
AppendAgentPending(c, r) ==
  AppendTo(c, c.curKey, PendingRow(r), [c.reqConv EXCEPT ![r] = c.curKey])

(* rowForRequest: the last row of the request, 0 for the code's -1.        *)
RowsOf(v, r) == {i \in DOMAIN v : v[i].requestId = r}
RowForRequest(v, r) ==
  IF RowsOf(v, r) = {} THEN 0
  ELSE CHOOSE i \in RowsOf(v, r) : \A j \in RowsOf(v, r) : j <= i

(* The conversation and row a reply goes to; no row means it is dropped.   *)
ReplyRow(c, r) == RowForRequest(c.convs[c.reqConv[r]], r)
Routed(c, r) == c.reqConv[r] # NoSubject /\ ReplyRow(c, r) # 0

(* Store a row and touch() it: the view re-reads it when it is visible.    *)
Store(c, k, i, m) ==
  [c EXCEPT !.convs[k][i] = m,
            !.view = IF k = c.curKey THEN [@ EXCEPT ![i] = m] ELSE @]

ReplyOverwrites(c, r, status, tail) ==
  IF Routed(c, r)
  THEN LET k == c.reqConv[r]
           i == ReplyRow(c, r)
           m == c.convs[k][i]
       IN Store(c, k, i, [m EXCEPT !.status = status, !.text = tail])
  ELSE c
Reply(c, r, status, tail) ==
  IF Routed(c, r)
  THEN LET k == c.reqConv[r]
           i == ReplyRow(c, r)
           m == c.convs[k][i]
       IN Store(c, k, i, [m EXCEPT !.status = status, !.text = @ \o tail])
  ELSE c

AppendDelta(c, r, d) == Reply(c, r, "streaming", <<d>>)
SetDone(c, r) == Reply(c, r, "done", <<>>)
SetError(c, r) == Reply(c, r, "error", <<ErrorMark>>)
------------------------------------------------------------------------------
(* The model on its own: the calls its controller makes, in any order. A   *)
(* prompt is a user row and its agent row in one turn, with a fresh id.    *)
ChatInit == chat = EmptyChat /\ issued = {}

Select(k) ==
  /\ k # chat.curKey
  /\ chat' = SetConversation(chat, k)
  /\ UNCHANGED issued

Prompt(r) ==
  /\ r \notin issued /\ chat.curKey # NoSubject
  /\ chat' = AppendAgentPending(AppendUser(chat), r)
  /\ issued' = issued \cup {r}

TextRoom(r) ==
  Routed(chat, r) =>
    Len(chat.convs[chat.reqConv[r]][ReplyRow(chat, r)].text) < MaxText

Delta(r, d) ==
  /\ r \in issued /\ TextRoom(r)
  /\ chat' = AppendDelta(chat, r, d)
  /\ UNCHANGED issued

Done(r) ==
  /\ r \in issued
  /\ chat' = SetDone(chat, r)
  /\ UNCHANGED issued

Fail(r) ==
  /\ r \in issued /\ TextRoom(r)
  /\ chat' = SetError(chat, r)
  /\ UNCHANGED issued

ChatNext ==
  \/ \E k \in Subjects : Select(k)
  \/ \E r \in Requests : Prompt(r) \/ Done(r) \/ Fail(r)
  \/ \E r \in Requests, d \in Deltas : Delta(r, d)

ChatSpec == ChatInit /\ [][ChatNext]_chatVars
------------------------------------------------------------------------------
(* trim() after each append keeps every conversation within m_cap rows.    *)
WithinCap(c) == \A k \in Subjects \cup {NoSubject} : Len(c.convs[k]) <= Cap

(* Types and the cap: every row and index entry the methods build is well  *)
(* formed, and no history outgrows m_cap.                                  *)
ChatTypeOK ==
  chat \in ChatRecords /\ WithinCap(chat) /\ issued \in SUBSET Requests

(* A request's row is never duplicated, in one conversation or across two. *)
OneRowEach(c) ==
  \A k, l \in Subjects \cup {NoSubject} :
    \A i \in DOMAIN c.convs[k], j \in DOMAIN c.convs[l] :
      c.convs[k][i].requestId = c.convs[l][j].requestId
        => c.convs[k][i].requestId = NoRequest \/ (k = l /\ i = j)

(* m_reqConv holds exactly the requests whose row is still retained, each  *)
(* under the conversation that holds the row: a reply can neither reach    *)
(* another agent's history nor miss a row that is there, and trim() leaves *)
(* no entry behind.                                                        *)
IndexExact(c) ==
  \A r \in Requests, k \in Subjects \cup {NoSubject} :
    (RowsOf(c.convs[k], r) # {}) <=> (k # NoSubject /\ c.reqConv[r] = k)

(* What the view built from insert, remove, reset and dataChanged signals  *)
(* alone is the visible conversation, whatever happened off screen.        *)
ViewInSync(c) == c.view = c.convs[c.curKey]

(* The rows a request id may appear in belong to issued requests.          *)
OnlyIssued(c, ids) ==
  \A k \in Subjects \cup {NoSubject} : \A i \in DOMAIN c.convs[k] :
    c.convs[k][i].requestId \in ids \cup {NoRequest}

(* The parts above together, of a record.                                  *)
ChatRecordInv(c, ids) ==
  /\ c \in ChatRecords
  /\ WithinCap(c) /\ OneRowEach(c) /\ IndexExact(c)
  /\ ViewInSync(c) /\ OnlyIssued(c, ids)

(* Routing of replies, of the object: OneRowEach and IndexExact.           *)
RoutingExact == OneRowEach(chat) /\ IndexExact(chat)
(* The view, of the object: ViewInSync.                                    *)
ViewMatches == ViewInSync(chat)
(* The inductive invariant: all the parts.                                 *)
ChatInv == ChatRecordInv(chat, issued) /\ issued \in SUBSET Requests

(* With an even m_cap (20 in the code) eviction never separates a prompt   *)
(* from its answer: every history reads user, agent, user, agent...        *)
PairedHistory ==
  \A k \in Subjects : \A i \in DOMAIN chat.convs[k] :
    chat.convs[k][i].role = IF i % 2 = 1 THEN "user" ELSE "agent"

(* A conversation that is off screen before and after a step keeps its     *)
(* rows in place: at most one of them changes, and only in its status or   *)
(* by text appended to it (a reply that lands after switching agents).     *)
RowGrows(old, new) ==
  /\ new.role = old.role /\ new.requestId = old.requestId
  /\ Len(new.text) >= Len(old.text)
  /\ SubSeq(new.text, 1, Len(old.text)) = old.text

OffscreenStep ==
  \A k \in Subjects \ {chat.curKey, chat'.curKey} :
    LET old == chat.convs[k]
        new == chat'.convs[k]
    IN /\ Len(new) = Len(old)
       /\ \A i \in DOMAIN old : RowGrows(old[i], new[i])
       /\ \A i, j \in DOMAIN old :
            (old[i] # new[i] /\ old[j] # new[j]) => i = j

OffscreenStable == [][OffscreenStep]_chatVars
=============================================================================
