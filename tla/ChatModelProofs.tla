-------------------------- MODULE ChatModelProofs --------------------------
(***************************************************************************)
(* ChatInv is an inductive invariant of ChatSpec, for any number of        *)
(* agents, requests and rows. The lemmas are about the methods as          *)
(* operators on records, so a composition with the controller reuses them. *)
(***************************************************************************)
EXTENDS ChatModel, SequenceTheorems, TLAPS

Keys == Subjects \cup {NoSubject}

(* Appending a row and trimming: at most the oldest row goes, and the rest *)
(* keep their order.                                                       *)
LEMMA KeptAppend ==
  ASSUME NEW S, NEW old \in Seq(S), NEW m \in S, Len(old) <= Cap
  PROVE  LET v == Append(old, m)
             n == Surplus(v)
             w == Kept(v, n)
         IN /\ n \in {0, 1} /\ n <= Len(old)
            /\ w \in Seq(S)
            /\ Len(w) = Len(old) + 1 - n
            /\ Len(w) <= Cap
            /\ \A i \in 1 .. Len(w) :
                 w[i] = IF i + n <= Len(old) THEN old[i + n] ELSE m
            /\ \A i \in 1 .. n : v[i] = old[i]
<1> DEFINE v == Append(old, m)
           n == Surplus(v)
           w == Kept(v, n)
<1>1. v \in Seq(S) /\ Len(v) = Len(old) + 1 /\ Len(old) \in Nat
  OBVIOUS
<1>2. n \in {0, 1} /\ n <= Len(old) /\ Len(old) + 1 - n <= Cap
  BY <1>1, CapAssumption DEF Surplus
<1>3. \A i \in 1 .. Len(v) : v[i] = IF i <= Len(old) THEN old[i] ELSE m
  BY <1>1
<1>4. w \in Seq(S) /\ Len(w) = Len(v) - n
  BY <1>1, <1>2 DEF Kept
<1>5. \A i \in 1 .. Len(w) : w[i] = v[i + n]
  BY <1>1, <1>2, <1>4 DEF Kept
<1>6. \A i \in 1 .. Len(w) :
        w[i] = IF i + n <= Len(old) THEN old[i + n] ELSE m
  <2>1. SUFFICES ASSUME NEW i \in 1 .. Len(w)
                 PROVE  w[i] = IF i + n <= Len(old) THEN old[i + n] ELSE m
    OBVIOUS
  <2>2. i + n \in 1 .. Len(v)
    BY <1>1, <1>2, <1>4
  <2> QED
    BY <1>3, <1>5, <2>2
<1>7. \A i \in 1 .. n : v[i] = old[i]
  BY <1>1, <1>2, <1>3
<1> QED
  BY <1>1, <1>2, <1>4, <1>6, <1>7

(* appendTo() to the visible conversation, with either a user row or the   *)
(* row of a request never issued before.                                   *)
LEMMA AppendToInv ==
  ASSUME NEW c, NEW ids \in SUBSET Requests, NEW m \in Rows, NEW idx, NEW new,
         ChatRecordInv(c, ids),
         \/ /\ m.requestId = NoRequest
            /\ idx = c.reqConv /\ new = ids
         \/ /\ c.curKey # NoSubject
            /\ m.requestId \in Requests \ ids
            /\ idx = [c.reqConv EXCEPT ![m.requestId] = c.curKey]
            /\ new = ids \cup {m.requestId}
  PROVE  /\ ChatRecordInv(AppendTo(c, c.curKey, m, idx), new)
         /\ AppendTo(c, c.curKey, m, idx).curKey = c.curKey
<1> DEFINE k == c.curKey
           old == c.convs[k]
           v == Append(old, m)
           n == Surplus(v)
           w == Kept(v, n)
           d == AppendTo(c, k, m, idx)
           shift(K) == IF K = k THEN n ELSE 0
<1>1. c \in ChatRecords /\ k \in Keys /\ old \in Seq(Rows) /\ Len(old) <= Cap
  BY DEF ChatRecordInv, WithinCap, ChatRecords, Keys
<1>2. /\ n \in {0, 1} /\ n <= Len(old)
      /\ w \in Seq(Rows) /\ Len(w) = Len(old) + 1 - n /\ Len(w) <= Cap
      /\ \A i \in 1 .. Len(w) : w[i] = IF i + n <= Len(old) THEN old[i + n] ELSE m
      /\ \A i \in 1 .. n : v[i] = old[i]
  <2> HIDE DEF old
  <2> QED
    BY ONLY <1>1, m \in Rows, KeptAppend DEF v, n, w
<1>3. idx \in [Requests -> Keys]
  BY <1>1 DEF ChatRecords, Keys
<1>4. /\ d.convs = [c.convs EXCEPT ![k] = w]
      /\ d.reqConv = Unindexed(idx, v, n)
      /\ d.curKey = k
      /\ d.view = w
      /\ d \in ChatRecords
  <2>1. c.view = old
    BY DEF ChatRecordInv, ViewInSync
  <2>2. d = [c EXCEPT !.convs[k] = w, !.reqConv = Unindexed(idx, v, n),
                      !.view = w]
    BY <2>1, <1>1 DEF AppendTo, ChatRecords
  <2>3. Unindexed(idx, v, n) \in [Requests -> Keys]
    BY <1>3 DEF Unindexed, Keys
  <2> HIDE DEF d, w, n, v
  <2> QED
    BY <2>2, <2>3, <1>1, <1>2 DEF ChatRecords, Keys
<1>5. d.convs \in [Keys -> Seq(Rows)] /\ c.convs \in [Keys -> Seq(Rows)]
  BY <1>1, <1>4 DEF ChatRecords, Keys
<1> HIDE DEF d, w, n, v
<1>6. \A K \in Keys : K # k => d.convs[K] = c.convs[K]
  BY <1>4, <1>5
<1>7. d.convs[k] = w
  BY <1>1, <1>4, <1>5
<1>8. \A K \in Keys : \A i \in DOMAIN d.convs[K] :
        \/ K = k /\ i = Len(w) /\ d.convs[K][i] = m
        \/ /\ i + shift(K) \in DOMAIN c.convs[K]
           /\ d.convs[K][i] = c.convs[K][i + shift(K)]
  <2> SUFFICES ASSUME NEW K \in Keys, NEW i \in DOMAIN d.convs[K]
               PROVE  \/ K = k /\ i = Len(w) /\ d.convs[K][i] = m
                      \/ /\ i + shift(K) \in DOMAIN c.convs[K]
                         /\ d.convs[K][i] = c.convs[K][i + shift(K)]
    OBVIOUS
  <2>1. CASE K = k
    <3>1. i \in 1 .. Len(w)
      BY <2>1, <1>7, <1>2
    <3>2. i + n <= Len(old) => /\ i + n \in DOMAIN old /\ w[i] = old[i + n]
      BY <3>1, <1>1, <1>2
    <3>3. ~ (i + n <= Len(old)) => i = Len(w) /\ w[i] = m
      BY <3>1, <1>1, <1>2
    <3> QED
      BY <2>1, <3>2, <3>3, <1>7
  <2>2. CASE K # k
    <3>1. i \in 1 .. Len(c.convs[K])
      BY <2>2, <1>5, <1>6
    <3> QED
      BY <2>2, <3>1, <1>5, <1>6
  <2> QED
    BY <2>1, <2>2
<1>9. \A K \in Keys : \A i \in DOMAIN c.convs[K] :
        m.requestId = NoRequest \/ c.convs[K][i].requestId # m.requestId
  BY RequestAssumption DEF ChatRecordInv, OnlyIssued, Keys
<1>10. WithinCap(d)
  BY <1>2, <1>6, <1>7 DEF ChatRecordInv, WithinCap, Keys
<1>11. OneRowEach(d)
  <2> SUFFICES ASSUME NEW K \in Keys, NEW L \in Keys,
                      NEW i \in DOMAIN d.convs[K], NEW j \in DOMAIN d.convs[L],
                      d.convs[K][i].requestId = d.convs[L][j].requestId,
                      d.convs[K][i].requestId # NoRequest
               PROVE  K = L /\ i = j
    BY DEF OneRowEach, Keys
  <2>1. i \in Nat /\ j \in Nat /\ n \in Nat
    BY <1>2, <1>5
  <2>2. CASE /\ K = k /\ i = Len(w) /\ d.convs[K][i] = m
             /\ L = k /\ j = Len(w) /\ d.convs[L][j] = m
    BY <2>2
  <2>3. CASE /\ i + shift(K) \in DOMAIN c.convs[K]
             /\ d.convs[K][i] = c.convs[K][i + shift(K)]
             /\ j + shift(L) \in DOMAIN c.convs[L]
             /\ d.convs[L][j] = c.convs[L][j + shift(L)]
    <3>1. K = L /\ i + shift(K) = j + shift(L)
      BY <2>3 DEF ChatRecordInv, OneRowEach, Keys
    <3> QED
      BY <3>1, <2>1
  <2> QED
    BY <2>2, <2>3, <1>8, <1>9
<1>12. IndexExact(d)
  <2> SUFFICES ASSUME NEW r \in Requests, NEW K \in Keys
               PROVE  (RowsOf(d.convs[K], r) # {})
                        <=> (K # NoSubject /\ d.reqConv[r] = K)
    BY DEF IndexExact, Keys
  <2>1. /\ r # NoRequest
        /\ (RowsOf(c.convs[K], r) # {}) <=> (K # NoSubject /\ c.reqConv[r] = K)
        /\ (RowsOf(old, r) # {}) <=> (k # NoSubject /\ c.reqConv[r] = k)
    BY <1>1, RequestAssumption DEF ChatRecordInv, IndexExact, Keys
  <2>2. d.reqConv[r] = IF n = 1 /\ old[1].requestId = r THEN NoSubject ELSE idx[r]
    BY <1>2, <1>4 DEF Unindexed
  <2>3. r # m.requestId => idx[r] = c.reqConv[r]
    BY <1>1, <2>1 DEF ChatRecords
  <2>4. r = m.requestId => /\ idx[r] = k /\ k # NoSubject
                           /\ RowsOf(c.convs[K], r) = {} /\ RowsOf(old, r) = {}
    BY <1>1, <1>9, <2>1 DEF ChatRecords, RowsOf, Keys
  <2>5. n = 1 => 1 \in DOMAIN old
    BY <1>1, <1>2
  <2>6. CASE K # k
    <3>1. RowsOf(d.convs[K], r) = RowsOf(c.convs[K], r)
      BY <2>6, <1>6 DEF RowsOf
    <3>2. n = 1 /\ old[1].requestId = r => c.reqConv[r] = k
      BY <2>1, <2>5 DEF RowsOf
    <3> QED
      BY <2>1, <2>2, <2>3, <2>4, <2>6, <3>1, <3>2
  <2>7. CASE K = k
    <3>1. CASE r = m.requestId
      <4>1. Len(w) \in DOMAIN w /\ w[Len(w)] = m
        BY <1>1, <1>2
      <4>2. RowsOf(d.convs[K], r) # {}
        BY <2>7, <3>1, <4>1, <1>7 DEF RowsOf
      <4>3. ~ (n = 1 /\ old[1].requestId = r)
        BY <2>4, <2>5, <3>1 DEF RowsOf
      <4> QED
        BY <2>2, <2>4, <2>7, <3>1, <4>2, <4>3
    <3>2. CASE r # m.requestId /\ n = 1 /\ old[1].requestId = r
      <4>1. \A i \in DOMAIN old : old[i].requestId = r => i = 1
        BY <1>1, <2>1, <2>5, <3>2 DEF ChatRecordInv, OneRowEach, Keys
      <4>2. \A i \in DOMAIN w : w[i].requestId # r
        BY <1>1, <1>2, <3>2, <4>1
      <4> QED
        BY <1>7, <2>2, <2>7, <3>2, <4>2 DEF RowsOf
    <3>3. CASE r # m.requestId /\ ~ (n = 1 /\ old[1].requestId = r)
      <4>1. ASSUME NEW i \in DOMAIN w, w[i].requestId = r
            PROVE  RowsOf(old, r) # {}
        <5>1. i \in 1 .. Len(w) /\ i + n <= Len(old) /\ w[i] = old[i + n]
          BY <1>1, <1>2, <3>3, <4>1
        <5>2. i + n \in DOMAIN old
          BY <1>1, <1>2, <5>1
        <5> QED
          BY <4>1, <5>1, <5>2 DEF RowsOf
      <4>2. ASSUME NEW i \in DOMAIN old, old[i].requestId = r
            PROVE  \E j \in DOMAIN w : w[j].requestId = r
        <5>1. i \in 1 .. Len(old) /\ i > n
          BY <1>1, <1>2, <3>3, <4>2
        <5>2. i - n \in 1 .. Len(w) /\ (i - n) + n = i
          BY <1>1, <1>2, <5>1
        <5>3. w[i - n] = old[i]
          BY <1>2, <5>1, <5>2
        <5> QED
          BY <1>2, <4>2, <5>2, <5>3
      <4>3. (RowsOf(w, r) # {}) <=> (RowsOf(old, r) # {})
        BY <4>1, <4>2 DEF RowsOf
      <4> QED
        BY <1>7, <2>1, <2>2, <2>3, <2>7, <3>3, <4>3
    <3> QED
      BY <3>1, <3>2, <3>3
  <2> QED
    BY <2>6, <2>7
<1>13. ViewInSync(d)
  BY <1>4, <1>7 DEF ViewInSync
<1>14. OnlyIssued(d, new)
  <2> SUFFICES ASSUME NEW K \in Keys, NEW i \in DOMAIN d.convs[K]
               PROVE  d.convs[K][i].requestId \in new \cup {NoRequest}
    BY DEF OnlyIssued, Keys
  <2>1. CASE d.convs[K][i] = m
    BY <2>1
  <2>2. CASE i + shift(K) \in DOMAIN c.convs[K]
             /\ d.convs[K][i] = c.convs[K][i + shift(K)]
    BY <2>2 DEF ChatRecordInv, OnlyIssued, Keys
  <2> QED
    BY <2>1, <2>2, <1>8
<1> QED
  BY <1>4, <1>10, <1>11, <1>12, <1>13, <1>14 DEF ChatRecordInv, d

(* setConversation(): a reset leaves the view equal to the new history.    *)
LEMMA SetConversationInv ==
  ASSUME NEW c, NEW ids, NEW k \in Keys, ChatRecordInv(c, ids)
  PROVE  ChatRecordInv(SetConversation(c, k), ids)
<1>1. c \in ChatRecords /\ c.convs[k] \in Seq(Rows)
  BY DEF ChatRecordInv, ChatRecords, Keys
<1> DEFINE d == SetConversation(c, k)
<1>2. CASE k # c.curKey
  <2>1. d = [c EXCEPT !.curKey = k, !.view = c.convs[k]]
    BY <1>2 DEF SetConversation
  <2>2. /\ d \in ChatRecords
        /\ d.convs = c.convs /\ d.reqConv = c.reqConv
        /\ d.curKey = k /\ d.view = c.convs[k]
    BY <1>1, <2>1 DEF ChatRecords, Keys
  <2> HIDE DEF d
  <2>3. WithinCap(d) /\ OneRowEach(d) /\ OnlyIssued(d, ids)
    BY <2>2 DEF ChatRecordInv, WithinCap, OneRowEach, OnlyIssued
  <2>4. IndexExact(c)
    BY DEF ChatRecordInv
  <2>5. IndexExact(d) /\ ViewInSync(d)
    BY <2>2, <2>4 DEF IndexExact, ViewInSync
  <2> QED
    BY <2>2, <2>3, <2>5 DEF ChatRecordInv, d
<1>3. CASE k = c.curKey
  BY <1>3 DEF SetConversation
<1> QED
  BY <1>2, <1>3

(* appendDelta(), setDone() and setError(): one row gets a status and more *)
(* text, and keeps its request id and place.                               *)
LEMMA ReplyInv ==
  ASSUME NEW c, NEW ids, NEW r \in Requests,
         NEW status \in {"pending", "streaming", "done", "error"},
         NEW tail \in Seq(Deltas \cup {ErrorMark}),
         ChatRecordInv(c, ids)
  PROVE  ChatRecordInv(Reply(c, r, status, tail), ids)
<1> DEFINE k == c.reqConv[r]
           i == ReplyRow(c, r)
           old == c.convs[k]
           m == [old[i] EXCEPT !.status = status, !.text = @ \o tail]
           d == Store(c, k, i, m)
<1>1. c \in ChatRecords /\ k \in Keys /\ old \in Seq(Rows)
  BY DEF ChatRecordInv, ChatRecords, Keys
<1>2. CASE ~ Routed(c, r)
  BY <1>2 DEF Reply
<1>3. CASE Routed(c, r)
  <2>1. \A a, b \in RowsOf(old, r) : a = b
    <3>1. r # NoRequest
      BY RequestAssumption
    <3> QED
      BY <1>1, <3>1 DEF ChatRecordInv, OneRowEach, RowsOf, Keys
  <2>2. RowsOf(old, r) # {} /\ RowsOf(old, r) \subseteq DOMAIN old
    BY <1>3 DEF Routed, ReplyRow, RowForRequest, RowsOf
  <2>3. \E a \in RowsOf(old, r) : \A b \in RowsOf(old, r) : b <= a
    BY <1>1, <2>1, <2>2
  <2>4. i \in RowsOf(old, r)
    BY <2>2, <2>3 DEF ReplyRow, RowForRequest
  <2>5. i \in DOMAIN old /\ old[i] \in Rows /\ old[i].requestId = r
    BY <2>4, <1>1 DEF RowsOf
  <2>6. m \in Rows /\ m.requestId = r
    <3> DEFINE T == Deltas \cup {ErrorMark}
    <3>1. old[i].text \in Seq(T) /\ old[i].text \o tail \in Seq(T)
      <4> HIDE DEF i, old
      <4>1. old[i].text \in Seq(T)
        BY <2>5 DEF Rows
      <4> QED
        BY <4>1
    <3>2. ASSUME NEW x \in Rows, NEW t \in Seq(T), x.requestId = r
          PROVE  LET y == [x EXCEPT !.status = status, !.text = t]
                 IN y \in Rows /\ y.requestId = r
      BY <3>2 DEF Rows
    <3> QED
      BY ONLY <2>5, <3>1, <3>2
  <2> DEFINE new == [old EXCEPT ![i] = m]
  <2> HIDE DEF i, m
  <2>7. /\ new \in Seq(Rows) /\ Len(new) = Len(old) /\ DOMAIN new = DOMAIN old
        /\ \A a \in DOMAIN old : new[a].requestId = old[a].requestId
    BY <1>1, <2>5, <2>6
  <2>8. /\ d.convs = [c.convs EXCEPT ![k] = new]
        /\ d.reqConv = c.reqConv /\ d.curKey = c.curKey
        /\ d.view = IF k = c.curKey THEN new ELSE c.view
        /\ d \in ChatRecords
    <3>1. k = c.curKey => c.view = old
      BY DEF ChatRecordInv, ViewInSync
    <3>2. /\ d.convs = [c.convs EXCEPT ![k] = new]
          /\ d.reqConv = c.reqConv /\ d.curKey = c.curKey
          /\ d.view = IF k = c.curKey THEN new ELSE c.view
      BY <1>1, <3>1 DEF Store, ChatRecords
    <3>3. d = [convs |-> d.convs, reqConv |-> d.reqConv,
               curKey |-> d.curKey, view |-> d.view]
      <4> DEFINE u == IF k = c.curKey THEN [c.view EXCEPT ![i] = m] ELSE c.view
      <4>1. d = [c EXCEPT !.convs[k][i] = m, !.view = u]
        BY DEF Store
      <4> HIDE DEF d, u
      <4> QED
        BY <4>1, <1>1 DEF ChatRecords
    <3> HIDE DEF d, new
    <3> QED
      BY <1>1, <2>7, <3>2, <3>3 DEF ChatRecords, Keys
  <2> HIDE DEF d, new
  <2>9. c.convs \in [Keys -> Seq(Rows)]
    BY <1>1 DEF ChatRecords, Keys
  <2>10. \A K \in Keys :
           /\ DOMAIN d.convs[K] = DOMAIN c.convs[K]
           /\ Len(d.convs[K]) = Len(c.convs[K])
           /\ \A a \in DOMAIN c.convs[K] :
                d.convs[K][a].requestId = c.convs[K][a].requestId
    BY <1>1, <2>7, <2>8, <2>9
  <2>11. \A K \in Keys, q \in Requests : RowsOf(d.convs[K], q) = RowsOf(c.convs[K], q)
    BY <2>10 DEF RowsOf
  <2>12. WithinCap(d) /\ OneRowEach(d) /\ OnlyIssued(d, ids)
    BY <2>10 DEF ChatRecordInv, WithinCap, OneRowEach, OnlyIssued, Keys
  <2>13. IndexExact(d)
    <3>1. \A q \in Requests, K \in Keys :
            (RowsOf(c.convs[K], q) # {}) <=> (K # NoSubject /\ c.reqConv[q] = K)
      BY DEF ChatRecordInv, IndexExact, Keys
    <3>2. \A q \in Requests, K \in Keys :
            (RowsOf(d.convs[K], q) # {}) <=> (K # NoSubject /\ d.reqConv[q] = K)
      BY ONLY <2>8, <2>11, <3>1
    <3> QED
      BY ONLY <3>2 DEF IndexExact, Keys
  <2>14. ViewInSync(d)
    BY <1>1, <2>8, <2>9 DEF ChatRecordInv, ViewInSync
  <2>15. Reply(c, r, status, tail) = d
    BY <1>3 DEF Reply, d, i, m
  <2> QED
    BY <2>8, <2>12, <2>13, <2>14, <2>15 DEF ChatRecordInv
<1> QED
  BY <1>2, <1>3

(* The methods the controller calls, each as the lemmas above give it.     *)
LEMMA MethodsInv ==
  ASSUME NEW c, NEW ids \in SUBSET Requests, ChatRecordInv(c, ids)
  PROVE  /\ \A r \in Requests, x \in Deltas : ChatRecordInv(AppendDelta(c, r, x), ids)
         /\ \A r \in Requests : ChatRecordInv(SetDone(c, r), ids)
         /\ \A r \in Requests : ChatRecordInv(SetError(c, r), ids)
         /\ c.curKey # NoSubject =>
              \A r \in Requests \ ids :
                ChatRecordInv(AppendAgentPending(AppendUser(c), r), ids \cup {r})
<1>1. ASSUME NEW r \in Requests, NEW x \in Deltas
      PROVE  ChatRecordInv(AppendDelta(c, r, x), ids)
  <2>1. <<x>> \in Seq(Deltas \cup {ErrorMark})
    OBVIOUS
  <2> QED
    BY <2>1, ReplyInv DEF AppendDelta
<1>2. ASSUME NEW r \in Requests
      PROVE  ChatRecordInv(SetDone(c, r), ids) /\ ChatRecordInv(SetError(c, r), ids)
  <2>1. /\ <<>> \in Seq(Deltas \cup {ErrorMark})
        /\ <<ErrorMark>> \in Seq(Deltas \cup {ErrorMark})
    OBVIOUS
  <2>2. ChatRecordInv(SetDone(c, r), ids)
    BY <2>1, ReplyInv DEF SetDone
  <2>3. ChatRecordInv(SetError(c, r), ids)
    BY <2>1, ReplyInv DEF SetError
  <2> QED
    BY <2>2, <2>3
<1>3. ASSUME c.curKey # NoSubject, NEW r \in Requests \ ids
      PROVE  ChatRecordInv(AppendAgentPending(AppendUser(c), r), ids \cup {r})
  <2>1. UserRow \in Rows /\ UserRow.requestId = NoRequest
    BY DEF UserRow, Rows
  <2>2. PendingRow(r) \in Rows /\ PendingRow(r).requestId = r
    BY DEF PendingRow, Rows
  <2>3. ChatRecordInv(AppendUser(c), ids) /\ AppendUser(c).curKey = c.curKey
    BY <2>1, AppendToInv DEF AppendUser
  <2> QED
    BY <1>3, <2>2, <2>3, AppendToInv DEF AppendAgentPending
<1> QED
  BY <1>1, <1>2, <1>3

------------------------------------------------------------------------------
(* The rows, after each method.                                            *)
LEMMA RowFound ==
  ASSUME NEW c, NEW ids, ChatRecordInv(c, ids), NEW r \in Requests,
         NEW k \in Keys, RowsOf(c.convs[k], r) # {}
  PROVE  /\ RowForRequest(c.convs[k], r) \in RowsOf(c.convs[k], r)
         /\ RowForRequest(c.convs[k], r) # 0
<1> DEFINE v == c.convs[k]
<1>1. v \in Seq(Rows) /\ r # NoRequest
  BY RequestAssumption DEF ChatRecordInv, ChatRecords, Keys
<1>2. \A i, j \in RowsOf(v, r) : i = j
  BY <1>1 DEF ChatRecordInv, OneRowEach, RowsOf, Keys
<1>3. \A i \in RowsOf(v, r) : i \in Nat \ {0}
  BY <1>1 DEF RowsOf
<1>4. \E i \in RowsOf(v, r) : \A j \in RowsOf(v, r) : j <= i
  BY <1>2, <1>3
<1>5. RowForRequest(v, r) \in RowsOf(v, r)
  BY <1>4 DEF RowForRequest
<1> QED BY <1>3, <1>5

LEMMA AppendRows ==
  ASSUME NEW c, NEW ids, ChatRecordInv(c, ids), NEW m \in Rows, NEW idx
  PROVE  LET d == AppendTo(c, c.curKey, m, idx)
         IN \A k \in Keys : \A i \in DOMAIN d.convs[k] :
              \/ d.convs[k][i] = m
              \/ \E j \in DOMAIN c.convs[k] : d.convs[k][i] = c.convs[k][j]
<1> DEFINE k == c.curKey
           old == c.convs[k]
           v == Append(old, m)
           n == Surplus(v)
           w == Kept(v, n)
           d == AppendTo(c, k, m, idx)
<1>1. /\ c \in ChatRecords /\ k \in Keys /\ old \in Seq(Rows) /\ Len(old) <= Cap
      /\ c.convs \in [Keys -> Seq(Rows)]
  BY DEF ChatRecordInv, WithinCap, ChatRecords, Keys
<1>2. /\ n \in {0, 1} /\ w \in Seq(Rows)
      /\ \A i \in 1 .. Len(w) : w[i] = IF i + n <= Len(old) THEN old[i + n] ELSE m
  <2> HIDE DEF old
  <2> QED
    BY ONLY <1>1, m \in Rows, KeptAppend DEF v, n, w
<1>3. d.convs = [c.convs EXCEPT ![k] = w]
  BY <1>1 DEF AppendTo, ChatRecords
<1> HIDE DEF d, w, n, v
<1> SUFFICES ASSUME NEW K \in Keys, NEW i \in DOMAIN d.convs[K]
             PROVE  \/ d.convs[K][i] = m
                    \/ \E j \in DOMAIN c.convs[K] : d.convs[K][i] = c.convs[K][j]
  BY DEF d
<1>4. CASE K = k
  <2>1. d.convs[K] = w /\ i \in 1 .. Len(w)
    BY <1>1, <1>2, <1>3, <1>4
  <2>2. i + n <= Len(old) => i + n \in DOMAIN old
    BY <1>1, <1>2, <2>1
  <2> QED BY <1>2, <1>4, <2>1, <2>2
<1>5. CASE K # k
  BY <1>1, <1>3, <1>5
<1> QED BY <1>4, <1>5

(* A reply to r made d of c: the row of r has a new status and more text,  *)
(* and the other rows are as they were.                                    *)
RepliedTo(c, d, r, status, tail) ==
  \A k \in Keys :
    /\ DOMAIN d.convs[k] = DOMAIN c.convs[k]
    /\ \A i \in DOMAIN d.convs[k] :
       IF d.convs[k][i].requestId = r
       THEN /\ c.convs[k][i].requestId = r
            /\ d.convs[k][i].role = c.convs[k][i].role
            /\ d.convs[k][i].status = status
            /\ d.convs[k][i].text = c.convs[k][i].text \o tail
       ELSE d.convs[k][i] = c.convs[k][i]

LEMMA ReplyRows ==
  ASSUME NEW c, NEW ids, ChatRecordInv(c, ids), NEW r \in Requests,
         NEW status \in {"pending", "streaming", "done", "error"}, NEW tail
  PROVE  RepliedTo(c, Reply(c, r, status, tail), r, status, tail)
<1> DEFINE h == c.reqConv[r]
           p == ReplyRow(c, r)
           m == [c.convs[h][p] EXCEPT !.status = status, !.text = @ \o tail]
           d == Reply(c, r, status, tail)
<1>1. /\ c \in ChatRecords /\ h \in Keys /\ r # NoRequest
      /\ c.convs \in [Keys -> Seq(Rows)]
  BY RequestAssumption DEF ChatRecordInv, ChatRecords, Keys
<1>2. \A k \in Keys : \A i \in DOMAIN c.convs[k] :
        c.convs[k][i].requestId = r => k = h /\ h # NoSubject /\ p = i
  <2> SUFFICES ASSUME NEW k \in Keys, NEW i \in DOMAIN c.convs[k],
                      c.convs[k][i].requestId = r
               PROVE  k = h /\ h # NoSubject /\ p = i
    OBVIOUS
  <2>1. RowsOf(c.convs[k], r) # {} /\ i \in RowsOf(c.convs[k], r)
    BY DEF RowsOf
  <2>2. k = h /\ h # NoSubject
    BY <2>1 DEF ChatRecordInv, IndexExact, Keys
  <2>3. p \in RowsOf(c.convs[k], r)
    BY <2>1, <2>2, RowFound DEF ReplyRow
  <2>4. p \in DOMAIN c.convs[k] /\ c.convs[k][p].requestId = r
    BY <2>3 DEF RowsOf
  <2> QED BY <1>1, <2>2, <2>4 DEF ChatRecordInv, OneRowEach, Keys
<1>3. CASE ~ Routed(c, r)
  <2>1. \A k \in Keys : \A i \in DOMAIN c.convs[k] : c.convs[k][i].requestId # r
    <3> SUFFICES ASSUME NEW k \in Keys, NEW i \in DOMAIN c.convs[k],
                        c.convs[k][i].requestId = r
                 PROVE  FALSE
      OBVIOUS
    <3>1. k = h /\ h # NoSubject /\ p = i /\ i # 0
      BY <1>1, <1>2
    <3> QED BY <1>3, <3>1 DEF Routed
  <2> QED BY <1>3, <2>1 DEF Reply, RepliedTo
<1>4. CASE Routed(c, r)
  <2>1. h # NoSubject /\ RowsOf(c.convs[h], r) # {}
    BY <1>1, <1>4 DEF Routed, ChatRecordInv, IndexExact, Keys
  <2>2. p \in DOMAIN c.convs[h] /\ c.convs[h][p].requestId = r
    BY <1>1, <2>1, RowFound DEF ReplyRow, RowsOf
  <2>3. c.convs[h][p] \in Rows
    BY <1>1, <2>2
  <2>4. /\ m.status = status /\ m.requestId = r /\ m.role = c.convs[h][p].role
        /\ m.text = c.convs[h][p].text \o tail
    <3> DEFINE x == c.convs[h][p]
    <3> HIDE DEF p
    <3> QED BY <2>2, <2>3 DEF Rows
  <2>5. d.convs = [c.convs EXCEPT ![h] = [@ EXCEPT ![p] = m]]
    BY <1>1, <1>4 DEF Reply, Store, ChatRecords
  <2> HIDE DEF d, m, p, h
  <2>6. \A k \in Keys : DOMAIN d.convs[k] = DOMAIN c.convs[k]
    BY <1>1, <2>5
  <2> SUFFICES ASSUME NEW k \in Keys, NEW i \in DOMAIN d.convs[k]
               PROVE  IF d.convs[k][i].requestId = r
                      THEN /\ c.convs[k][i].requestId = r
                           /\ d.convs[k][i].role = c.convs[k][i].role
                           /\ d.convs[k][i].status = status
                           /\ d.convs[k][i].text = c.convs[k][i].text \o tail
                      ELSE d.convs[k][i] = c.convs[k][i]
    BY <2>6 DEF d, RepliedTo
  <2>7. CASE k = h /\ i = p
    BY <1>1, <2>2, <2>4, <2>5, <2>6, <2>7
  <2>8. CASE ~ (k = h /\ i = p)
    <3>1. d.convs[k][i] = c.convs[k][i]
      BY <1>1, <2>5, <2>6, <2>8
    <3> QED BY <1>2, <2>6, <2>8, <3>1
  <2> QED BY <2>7, <2>8
<1> QED BY <1>3, <1>4
------------------------------------------------------------------------------
(* A new model holds nothing that could be wrong.                          *)
LEMMA ChatStart == ChatInit => ChatInv
<1> SUFFICES ASSUME ChatInit PROVE ChatInv
  OBVIOUS
<1>1. EmptyChat \in ChatRecords
  BY DEF EmptyChat, ChatRecords
<1> QED
  BY <1>1, CapAssumption
  DEF ChatInit, ChatInv, ChatRecordInv, EmptyChat, WithinCap, OneRowEach,
      IndexExact, ViewInSync, OnlyIssued, RowsOf

(* The inductive invariant of ChatModel: types, the cap, exact routing of  *)
(* replies, and a view equal to the visible conversation.                  *)
THEOREM ChatInvariant == ChatSpec => []ChatInv
<1>1. ChatInit => ChatInv
  BY ChatStart
<1>2. ChatInv /\ [ChatNext]_chatVars => ChatInv'
  <2> SUFFICES ASSUME ChatInv, [ChatNext]_chatVars PROVE ChatInv'
    OBVIOUS
  <2> USE DEF ChatInv
  <2>1. ASSUME NEW k \in Subjects, Select(k) PROVE ChatInv'
    BY <2>1, SetConversationInv DEF Select, Keys
  <2>2. ASSUME NEW r \in Requests, Prompt(r) PROVE ChatInv'
    BY <2>2, MethodsInv DEF Prompt
  <2>3. ASSUME NEW r \in Requests, Done(r) PROVE ChatInv'
    BY <2>3, MethodsInv DEF Done
  <2>4. ASSUME NEW r \in Requests, Fail(r) PROVE ChatInv'
    BY <2>4, MethodsInv DEF Fail
  <2>5. ASSUME NEW r \in Requests, NEW x \in Deltas, Delta(r, x) PROVE ChatInv'
    BY <2>5, MethodsInv DEF Delta
  <2>6. CASE UNCHANGED chatVars
    BY <2>6 DEF chatVars
  <2> QED
    BY <2>1, <2>2, <2>3, <2>4, <2>5, <2>6 DEF ChatNext
<1> QED
  BY <1>1, <1>2, PTL DEF ChatSpec

(* Replies are routed to their own row, in their own conversation.         *)
THEOREM ReplyRouting == ChatSpec => []RoutingExact
<1>1. ChatInv => RoutingExact
  BY DEF ChatInv, ChatRecordInv, RoutingExact
<1> QED
  BY <1>1, ChatInvariant, PTL

(* The view never drifts from the visible conversation.                    *)
THEOREM ViewAgreement == ChatSpec => []ViewMatches
<1>1. ChatInv => ViewMatches
  BY DEF ChatInv, ChatRecordInv, ViewMatches
<1> QED
  BY <1>1, ChatInvariant, PTL

(* Type correctness and the cap on every history.                          *)
THEOREM ChatTypes == ChatSpec => []ChatTypeOK
<1>1. ChatInv => ChatTypeOK
  BY DEF ChatInv, ChatRecordInv, ChatTypeOK
<1> QED
  BY <1>1, ChatInvariant, PTL
------------------------------------------------------------------------------
(* A row is a continuation of itself, and of what it was before a reply.   *)
LEMMA RowsGrow ==
  ASSUME NEW x \in Rows
  PROVE  /\ RowGrows(x, x)
         /\ \A y \in Rows, tail \in Seq(Deltas \cup {ErrorMark}) :
              /\ y.role = x.role /\ y.requestId = x.requestId
              /\ y.text = x.text \o tail
              => RowGrows(x, y)
<1> DEFINE T == Deltas \cup {ErrorMark}
<1>1. x.text \in Seq(T)
  BY DEF Rows
<1>2. \A tail \in Seq(T) :
        /\ Len(x.text \o tail) >= Len(x.text)
        /\ SubSeq(x.text \o tail, 1, Len(x.text)) = x.text
  <2> SUFFICES ASSUME NEW tail \in Seq(T)
               PROVE  /\ Len(x.text \o tail) >= Len(x.text)
                      /\ SubSeq(x.text \o tail, 1, Len(x.text)) = x.text
    OBVIOUS
  <2> DEFINE a == x.text
  <2> HIDE DEF a, T
  <2>1. a \in Seq(T)
    BY <1>1 DEF a
  <2>2. /\ Len(a \o tail) >= Len(a)
        /\ SubSeq(a \o tail, 1, Len(a)) = a
    BY ONLY <2>1, tail \in Seq(T), ConcatProperties, SubSeqProperties, SeqEqual
  <2> QED BY <2>2 DEF a
<1>3. Len(x.text) >= Len(x.text) /\ SubSeq(x.text, 1, Len(x.text)) = x.text
  <2> DEFINE a == x.text
  <2> HIDE DEF a, T
  <2>1. a \in Seq(T)
    BY <1>1 DEF a
  <2>2. Len(a) >= Len(a) /\ SubSeq(a, 1, Len(a)) = a
    BY <2>1, SubSeqProperties, SeqEqual
  <2> QED BY <2>2 DEF a
<1> QED BY <1>2, <1>3 DEF RowGrows

(* Appending changes the visible conversation alone.                       *)
LEMMA AppendElsewhere ==
  ASSUME NEW c \in ChatRecords, NEW m, NEW idx, NEW k \in Keys, k # c.curKey
  PROVE  /\ AppendTo(c, c.curKey, m, idx).convs[k] = c.convs[k]
         /\ AppendTo(c, c.curKey, m, idx).curKey = c.curKey
BY DEF AppendTo, ChatRecords, Keys

(* A reply, whichever conversation its row is in: that row grows.          *)
LEMMA ReplyGrows ==
  ASSUME NEW c, NEW ids, ChatRecordInv(c, ids), NEW r \in Requests,
         NEW status \in {"pending", "streaming", "done", "error"},
         NEW tail \in Seq(Deltas \cup {ErrorMark}),
         NEW k \in Keys
  PROVE  LET old == c.convs[k]
             new == Reply(c, r, status, tail).convs[k]
         IN /\ Len(new) = Len(old)
            /\ \A i \in DOMAIN old : RowGrows(old[i], new[i])
            /\ \A i, j \in DOMAIN old :
                 (old[i] # new[i] /\ old[j] # new[j]) => i = j
<1> DEFINE d == Reply(c, r, status, tail)
           old == c.convs[k]
           new == d.convs[k]
<1>1. RepliedTo(c, d, r, status, tail)
  BY ReplyRows
<1>2. ChatRecordInv(d, ids)
  BY ReplyInv
<1> HIDE DEF d
<1>3. /\ old \in Seq(Rows) /\ new \in Seq(Rows)
      /\ \A i, j \in DOMAIN old :
           old[i].requestId = r /\ old[j].requestId = r => i = j
  <2>1. r # NoRequest
    BY RequestAssumption
  <2>2. old \in Seq(Rows)
    BY DEF ChatRecordInv, ChatRecords, Keys
  <2>3. new \in Seq(Rows)
    BY <1>2 DEF ChatRecordInv, ChatRecords, Keys
  <2>4. \A i, j \in DOMAIN old :
          old[i].requestId = r /\ old[j].requestId = r => i = j
    BY <2>1 DEF ChatRecordInv, OneRowEach, Keys
  <2> QED BY <2>2, <2>3, <2>4
<1>4. /\ DOMAIN new = DOMAIN old
      /\ \A i \in DOMAIN old :
           \/ new[i] = old[i]
           \/ /\ old[i].requestId = r /\ new[i].requestId = r
              /\ new[i].role = old[i].role
              /\ new[i].text = old[i].text \o tail
  BY <1>1 DEF RepliedTo
<1> HIDE DEF old, new
<1>5. Len(new) = Len(old)
  BY <1>3, <1>4
<1>6. \A S : \A w \in Seq(S) : \A i \in DOMAIN w : w[i] \in S
  OBVIOUS
<1>7. ASSUME NEW i \in DOMAIN old PROVE RowGrows(old[i], new[i])
  <2>1. old[i] \in Rows /\ new[i] \in Rows
    BY <1>3, <1>4, <1>6
  <2> QED BY <1>4, <2>1, RowsGrow
<1>8. \A i, j \in DOMAIN old :
        (old[i] # new[i] /\ old[j] # new[j]) => i = j
  BY <1>3, <1>4
<1> QED BY <1>5, <1>7, <1>8 DEF old, new, d

LEMMA SameRows ==
  ASSUME ChatInv, NEW k \in Keys, chat'.convs[k] = chat.convs[k]
  PROVE  LET old == chat.convs[k]
             new == chat'.convs[k]
         IN /\ Len(new) = Len(old)
            /\ \A i \in DOMAIN old : RowGrows(old[i], new[i])
            /\ \A i, j \in DOMAIN old :
                 (old[i] # new[i] /\ old[j] # new[j]) => i = j
<1>1. chat.convs[k] \in Seq(Rows)
  BY DEF ChatInv, ChatRecordInv, ChatRecords, Keys
<1>2. \A i \in DOMAIN chat.convs[k] : chat.convs[k][i] \in Rows
  BY <1>1
<1> QED BY <1>2, RowsGrow

(* No step rewrites, reorders or drops a row of a conversation that is off *)
(* screen: a late reply adds to its own row, and nothing else happens.     *)
THEOREM OffscreenUntouched == ChatSpec => OffscreenStable
<1>1. ChatInv /\ [ChatNext]_chatVars => [OffscreenStep]_chatVars
  <2> SUFFICES ASSUME ChatInv, ChatNext,
                      NEW k \in Subjects \ {chat.curKey, chat'.curKey}
               PROVE  LET old == chat.convs[k]
                          new == chat'.convs[k]
                      IN /\ Len(new) = Len(old)
                         /\ \A i \in DOMAIN old : RowGrows(old[i], new[i])
                         /\ \A i, j \in DOMAIN old :
                              (old[i] # new[i] /\ old[j] # new[j]) => i = j
    BY DEF OffscreenStep
  <2>1. /\ k \in Keys /\ k # chat.curKey
        /\ ChatRecordInv(chat, issued) /\ chat \in ChatRecords
    BY DEF Keys, ChatInv, ChatRecordInv
  <2>2. ASSUME NEW s \in Subjects, Select(s) PROVE chat'.convs[k] = chat.convs[k]
    BY <2>1, <2>2 DEF Select, SetConversation, ChatRecords
  <2>3. ASSUME NEW r \in Requests, Prompt(r) PROVE chat'.convs[k] = chat.convs[k]
    <3> DEFINE u == AppendUser(chat)
    <3>1. UserRow \in Rows /\ UserRow.requestId = NoRequest
      BY DEF UserRow, Rows
    <3>2. u \in ChatRecords
      BY <2>1, <3>1, AppendToInv DEF AppendUser, ChatInv, ChatRecordInv
    <3>3. u.convs[k] = chat.convs[k] /\ u.curKey = chat.curKey
      BY <2>1, AppendElsewhere DEF AppendUser
    <3>4. chat' = AppendAgentPending(u, r)
      BY <2>3 DEF Prompt
    <3> HIDE DEF u
    <3> QED
      BY <2>1, <3>2, <3>3, <3>4, AppendElsewhere DEF AppendAgentPending
  <2>4. ASSUME NEW r \in Requests, NEW status \in {"streaming", "done", "error"},
               NEW tail \in Seq(Deltas \cup {ErrorMark}),
               chat' = Reply(chat, r, status, tail)
        PROVE  LET old == chat.convs[k]
                   new == chat'.convs[k]
               IN /\ Len(new) = Len(old)
                  /\ \A i \in DOMAIN old : RowGrows(old[i], new[i])
                  /\ \A i, j \in DOMAIN old :
                       (old[i] # new[i] /\ old[j] # new[j]) => i = j
    BY <2>1, <2>4, ReplyGrows
  <2>5. /\ <<>> \in Seq(Deltas \cup {ErrorMark})
        /\ <<ErrorMark>> \in Seq(Deltas \cup {ErrorMark})
        /\ \A x \in Deltas : <<x>> \in Seq(Deltas \cup {ErrorMark})
    OBVIOUS
  <2>6. CASE \E s \in Subjects : Select(s)
    BY <2>1, <2>2, <2>6, SameRows
  <2>7. CASE \E r \in Requests : Prompt(r)
    BY <2>1, <2>3, <2>7, SameRows
  <2>8. CASE \E r \in Requests : Done(r)
    BY <2>4, <2>5, <2>8 DEF Done, SetDone
  <2>9. CASE \E r \in Requests : Fail(r)
    BY <2>4, <2>5, <2>9 DEF Fail, SetError
  <2>10. CASE \E r \in Requests, x \in Deltas : Delta(r, x)
    BY <2>4, <2>5, <2>10 DEF Delta, AppendDelta
  <2> QED BY <2>6, <2>7, <2>8, <2>9, <2>10 DEF ChatNext
<1> QED BY <1>1, ChatInvariant, PTL DEF ChatSpec, OffscreenStable
------------------------------------------------------------------------------
(* A history of whole exchanges.                                           *)
Paired(v) ==
  /\ Len(v) % 2 = 0
  /\ \A i \in DOMAIN v : v[i].role = IF i % 2 = 1 THEN "user" ELSE "agent"

PairsKept == \A k \in Keys : Paired(chat.convs[k])

(* Even and odd.                                                           *)
LEMMA Parity ==
  ASSUME NEW k \in Nat
  PROVE  /\ k % 2 \in {0, 1} /\ (k + 2) % 2 = k % 2
         /\ k % 2 = 0 <=> (k + 1) % 2 = 1
  OBVIOUS

(* Two rows appended, two trimmed or none: with an even cap, the first     *)
(* append trims a row exactly when the second does.                        *)
LEMMA ExchangeKeepsPairs ==
  ASSUME Cap % 2 = 0, NEW old \in Seq(Rows), Len(old) <= Cap, Paired(old),
         NEW p \in Rows, p.role = "user", NEW q \in Rows, q.role = "agent"
  PROVE  LET v == Append(old, p)
             w == Kept(v, Surplus(v))
             x == Append(w, q)
         IN Paired(Kept(x, Surplus(x)))
<1> DEFINE v == Append(old, p)
           n == Surplus(v)
           w == Kept(v, n)
           x == Append(w, q)
           m == Surplus(x)
           y == Kept(x, m)
           L == Len(old)
<1>1. L \in Nat /\ Cap \in Nat /\ Len(v) = L + 1
  BY CapAssumption
<1>2. /\ n = (IF L = Cap THEN 1 ELSE 0) /\ w \in Seq(Rows) /\ Len(w) = L + 1 - n
      /\ Len(w) <= Cap
      /\ \A i \in 1 .. Len(w) : w[i] = IF i + n <= L THEN old[i + n] ELSE p
  <2>1. n = IF L = Cap THEN 1 ELSE 0
    BY <1>1 DEF Surplus
  <2>2. /\ w \in Seq(Rows) /\ Len(w) = Len(old) + 1 - n /\ Len(w) <= Cap
        /\ \A i \in 1 .. Len(w) :
             w[i] = IF i + n <= Len(old) THEN old[i + n] ELSE p
    BY ONLY old \in Seq(Rows), p \in Rows, Len(old) <= Cap, KeptAppend
  <2> HIDE DEF n, w
  <2> QED BY <2>1, <2>2
<1> HIDE DEF n, w
<1>3. L % 2 = 0 /\ (L # Cap => L + 2 <= Cap)
  <2>1. L % 2 = 0
    BY DEF Paired
  <2>2. Cap # L + 1
    <3>1. (L + 1) % 2 = 1
      BY <1>1, <2>1, Parity
    <3> QED BY <3>1
  <2> QED BY <1>1, <2>1, <2>2
<1>4. m = n
  BY <1>1, <1>2, <1>3 DEF Surplus
<1>5. /\ y \in Seq(Rows) /\ Len(y) = L + 2 - n - n
      /\ \A i \in 1 .. Len(y) : y[i] = IF i + n <= Len(w) THEN w[i + n] ELSE q
  <2>0. w \in Seq(Rows) /\ Len(w) <= Cap
    BY <1>2
  <2>1. /\ y \in Seq(Rows) /\ Len(y) = Len(w) + 1 - m
        /\ \A i \in 1 .. Len(y) : y[i] = IF i + m <= Len(w) THEN w[i + m] ELSE q
    BY ONLY <2>0, q \in Rows, KeptAppend
  <2> HIDE DEF y, m
  <2>2. m = n
    BY <1>4
  <2>3. Len(y) = L + 2 - n - n
    BY <1>1, <1>2, <2>1, <2>2
  <2> QED BY <2>1, <2>2, <2>3
<1> HIDE DEF y
<1>6. Len(y) = (IF L = Cap THEN L ELSE L + 2) /\ Len(y) % 2 = 0
  <2>1. Len(y) = IF L = Cap THEN L ELSE L + 2
    BY <1>1, <1>2, <1>5
  <2>2. (L + 2) % 2 = 0
    BY <1>1, <1>3, Parity
  <2> QED BY <1>3, <2>1, <2>2
<1>7. ASSUME NEW i \in 1 .. Len(y)
      PROVE  y[i].role = IF i % 2 = 1 THEN "user" ELSE "agent"
  <2>1. CASE i + n + n <= L
    <3>1. i + n \in 1 .. Len(w) /\ i + n + n \in DOMAIN old
      BY <1>1, <1>2, <1>5, <2>1
    <3>2. y[i] = w[i + n] /\ w[i + n] = old[i + n + n]
      <4>1. i + n <= Len(w)
        BY <3>1
      <4>2. y[i] = w[i + n]
        BY <1>5, <4>1
      <4> QED BY <1>2, <2>1, <3>1, <4>2
    <3>3. (i + n + n) % 2 = i % 2
      <4>1. i \in Nat /\ (i + n + n = i \/ i + n + n = i + 2)
        BY <1>1, <1>2
      <4>2. (i + 2) % 2 = i % 2
        BY <4>1, Parity
      <4> QED BY <4>1, <4>2
    <3> QED BY <3>1, <3>2, <3>3 DEF Paired
  <2>2. CASE i + n + n = L + 1
    <3>1. i + n \in 1 .. Len(w) /\ ~ (i + n + n <= L)
      BY <1>1, <1>2, <1>5, <2>2
    <3>2. y[i] = p
      BY <1>1, <1>2, <1>5, <2>2, <3>1
    <3>3. i % 2 = 1
      <4>1. i \in Nat /\ (i = L + 1 \/ i + 1 = L)
        BY <1>1, <1>2, <2>2
      <4>2. (L + 1) % 2 = 1
        BY <1>1, <1>3, Parity
      <4>3. i % 2 \in {0, 1} /\ (i % 2 = 0 <=> (i + 1) % 2 = 1)
        BY <4>1, Parity
      <4> QED BY <1>3, <4>1, <4>2, <4>3
    <3> QED BY <3>2, <3>3
  <2>3. CASE i + n + n > L + 1
    <3>1. i + n + n = L + 2 /\ ~ (i + n <= Len(w))
      BY <1>1, <1>2, <1>5, <2>3
    <3>2. y[i] = q
      BY <1>5, <3>1
    <3>3. i % 2 = 0
      <4>1. i = L \/ i = L + 2
        BY <1>1, <1>2, <3>1
      <4>2. (L + 2) % 2 = 0
        BY <1>1, <1>3, Parity
      <4> QED BY <1>3, <4>1, <4>2
    <3> QED BY <3>2, <3>3
  <2> QED BY <1>1, <1>2, <2>1, <2>2, <2>3
<1>8. Paired(y)
  BY <1>5, <1>6, <1>7 DEF Paired
<1> QED BY <1>8 DEF y, w, n

LEMMA PromptKeepsPairs ==
  ASSUME Cap % 2 = 0, NEW c, NEW ids \in SUBSET Requests, ChatRecordInv(c, ids),
         NEW r \in Requests, \A k \in Keys : Paired(c.convs[k])
  PROVE  \A k \in Keys :
           Paired(AppendAgentPending(AppendUser(c), r).convs[k])
<1> DEFINE u == AppendUser(c)
           d == AppendAgentPending(u, r)
           h == c.curKey
           v == Append(c.convs[h], UserRow)
           w == Kept(v, Surplus(v))
           x == Append(w, PendingRow(r))
           y == Kept(x, Surplus(x))
<1>1. /\ UserRow \in Rows /\ UserRow.requestId = NoRequest /\ UserRow.role = "user"
      /\ PendingRow(r) \in Rows /\ PendingRow(r).role = "agent"
  BY DEF UserRow, PendingRow, Rows
<1>2. /\ c \in ChatRecords /\ h \in Keys /\ c.convs \in [Keys -> Seq(Rows)]
      /\ Len(c.convs[h]) <= Cap
  BY DEF ChatRecordInv, WithinCap, ChatRecords, Keys
<1>3. u \in ChatRecords /\ u.curKey = h
  BY <1>1, AppendToInv DEF AppendUser, ChatRecordInv
<1>4. u.convs = [c.convs EXCEPT ![h] = w]
  BY <1>2 DEF AppendUser, AppendTo, ChatRecords
<1>5. Paired(y)
  <2> DEFINE old == c.convs[h]
  <2> HIDE DEF old
  <2>1. old \in Seq(Rows) /\ Len(old) <= Cap /\ Paired(old)
    BY <1>2 DEF old
  <2> DEFINE v1 == Append(old, UserRow)
             w1 == Kept(v1, Surplus(v1))
             x1 == Append(w1, PendingRow(r))
  <2>2. Paired(Kept(x1, Surplus(x1)))
    BY <1>1, <2>1, ExchangeKeepsPairs
  <2> QED BY <2>2 DEF old
<1> HIDE DEF u, w
<1>6. u.convs[h] = w
  BY <1>2, <1>4
<1>7. d.convs = [u.convs EXCEPT ![h] = y]
  BY <1>3, <1>6 DEF AppendAgentPending, AppendTo, ChatRecords
<1> HIDE DEF d, y
<1>8. \A k \in Keys : Paired(d.convs[k])
  BY <1>2, <1>4, <1>5, <1>7
<1> QED BY <1>8 DEF d, u

LEMMA ReplyKeepsPairs ==
  ASSUME NEW c, NEW ids, ChatRecordInv(c, ids), NEW r \in Requests,
         NEW status \in {"pending", "streaming", "done", "error"},
         NEW tail \in Seq(Deltas \cup {ErrorMark}),
         NEW k \in Keys, Paired(c.convs[k])
  PROVE  Paired(Reply(c, r, status, tail).convs[k])
<1> DEFINE d == Reply(c, r, status, tail)
<1>1. RepliedTo(c, d, r, status, tail) /\ ChatRecordInv(d, ids)
  BY ReplyRows, ReplyInv
<1> HIDE DEF d
<1>2. c.convs[k] \in Seq(Rows) /\ d.convs[k] \in Seq(Rows)
  BY <1>1 DEF ChatRecordInv, ChatRecords, Keys
<1>3. /\ DOMAIN d.convs[k] = DOMAIN c.convs[k]
      /\ \A i \in DOMAIN d.convs[k] : d.convs[k][i].role = c.convs[k][i].role
  BY <1>1 DEF RepliedTo
<1>4. Len(d.convs[k]) = Len(c.convs[k])
  BY <1>2, <1>3
<1> QED BY <1>3, <1>4 DEF Paired, d

(* With an even m_cap, as the code's 20 is, every history is a sequence of *)
(* whole exchanges, however much of it was evicted.                        *)
THEOREM PairsSurvive ==
  ASSUME Cap % 2 = 0
  PROVE  ChatSpec => []PairedHistory
<1>1. ChatInit => PairsKept
  BY DEF ChatInit, EmptyChat, PairsKept, Paired, Keys
<1>2. PairsKept /\ ChatInv /\ [ChatNext]_chatVars => PairsKept'
  <2> SUFFICES ASSUME PairsKept, ChatInv, [ChatNext]_chatVars PROVE PairsKept'
    OBVIOUS
  <2>1. ChatRecordInv(chat, issued) /\ issued \in SUBSET Requests
    BY DEF ChatInv
  <2>2. ASSUME NEW s \in Subjects, Select(s) PROVE PairsKept'
    <3>1. chat'.convs = chat.convs
      BY <2>1, <2>2 DEF Select, SetConversation, ChatRecordInv, ChatRecords
    <3> QED BY <3>1 DEF PairsKept
  <2>3. ASSUME NEW r \in Requests, Prompt(r) PROVE PairsKept'
    BY <2>1, <2>3, PromptKeepsPairs DEF Prompt, PairsKept
  <2>4. ASSUME NEW r \in Requests, NEW status \in {"streaming", "done", "error"},
               NEW tail \in Seq(Deltas \cup {ErrorMark}),
               chat' = Reply(chat, r, status, tail)
        PROVE  PairsKept'
    BY <2>1, <2>4, ReplyKeepsPairs DEF PairsKept
  <2>5. /\ <<>> \in Seq(Deltas \cup {ErrorMark})
        /\ <<ErrorMark>> \in Seq(Deltas \cup {ErrorMark})
        /\ \A x \in Deltas : <<x>> \in Seq(Deltas \cup {ErrorMark})
    OBVIOUS
  <2>6. CASE \E r \in Requests : Done(r)
    BY <2>4, <2>5, <2>6 DEF Done, SetDone
  <2>7. CASE \E r \in Requests : Fail(r)
    BY <2>4, <2>5, <2>7 DEF Fail, SetError
  <2>8. CASE \E r \in Requests, x \in Deltas : Delta(r, x)
    BY <2>4, <2>5, <2>8 DEF Delta, AppendDelta
  <2>9. CASE UNCHANGED chatVars
    BY <2>9 DEF chatVars, PairsKept
  <2> QED BY <2>2, <2>3, <2>6, <2>7, <2>8, <2>9 DEF ChatNext
<1>3. PairsKept => PairedHistory
  BY DEF PairsKept, Paired, PairedHistory, Keys
<1> QED BY <1>1, <1>2, <1>3, ChatInvariant, PTL DEF ChatSpec
=============================================================================
