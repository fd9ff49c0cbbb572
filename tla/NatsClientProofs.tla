-------------------------- MODULE NatsClientProofs --------------------------
(***************************************************************************)
(* ClientInv is an inductive invariant of ClientSpec: for any number of    *)
(* dials and subscriptions, the handshake order, TLS before anything else, *)
(* the signals' agreement with isConnected(), and ids that never repeat.   *)
(* FrameInv is one of FrameSpec: for any frames, cut into any segments, a  *)
(* parser that waits stands inside of the frame under way, or behind the   *)
(* last one.                                                               *)
(***************************************************************************)
EXTENDS NatsClient, FrameParser, SequenceTheorems, Iteration, TLAPS

LEMMA EmptyQueues == <<>> \in Queues /\ <<>> \in Wires
BY DEF Queues, Wires

LEMMA Numbers ==
  /\ 0 \in Dials /\ Dials \subseteq Nat
  /\ \A n \in Dials : n < MaxDials => n + 1 \in Dials
  /\ 1 \in Counters /\ Counters \subseteq Nat
  /\ \A n \in Counters : n + 1 \in Counters
BY ClientBounds DEF Dials, Counters

LEMMA InitialClient ==
  ClientRecordInv(NewClient, "silent")
BY Numbers, EmptyQueues
DEF ClientRecordInv, NewClient, Clients, GreetsFirst, EncryptedWire, OwnNonce,
    Coherent

(* Losing the connection, from any state, leaves a clean slate.            *)
LEMMA DisconnectedInv ==
  ASSUME NEW c, NEW s, ClientRecordInv(c, s)
  PROVE  /\ ClientRecordInv(OnDisconnected(c), s)
         /\ OnDisconnected(c).nextSid = c.nextSid
         /\ OnDisconnected(c).prefix = c.prefix
         /\ OnDisconnected(c).nextInbox = c.nextInbox
         /\ OnDisconnected(c).told = FALSE
<1> DEFINE d == OnDisconnected(c)
<1>1. c \in Clients
  BY DEF ClientRecordInv
<1>2. d \in Clients
  BY <1>1, EmptyQueues DEF Clients, OnDisconnected
<1>3. /\ d.nextSid = c.nextSid /\ d.prefix = c.prefix /\ d.nextInbox = c.nextInbox
      /\ d.sock = "unconnected" /\ d.ssl = "plain" /\ d.told = FALSE
      /\ d.handshakeDone = FALSE /\ d.encrypted = FALSE
      /\ d.pending = <<>> /\ d.wire = <<>>
  BY <1>1 DEF Clients, OnDisconnected
<1> HIDE DEF d
<1>4. ClientRecordInv(d, s)
  BY <1>2, <1>3 DEF ClientRecordInv, GreetsFirst, EncryptedWire, OwnNonce, Coherent
<1> QED
  BY <1>3, <1>4 DEF d

(* connectToServer() starts over, whatever the socket was doing.           *)
LEMMA ConnectToInv ==
  ASSUME NEW c, NEW s, NEW tls \in BOOLEAN, NEW creds \in {"none", "good", "bad"},
         ClientRecordInv(c, s), c.prefix < MaxDials
  PROVE  /\ ClientRecordInv(ConnectTo(c, tls, creds), "silent")
         /\ ConnectTo(c, tls, creds).nextSid = c.nextSid
         /\ ConnectTo(c, tls, creds).prefix = c.prefix + 1
<1> DEFINE a == Abort(c)
<1>1. a \in Clients /\ a.nextSid = c.nextSid /\ a.prefix = c.prefix /\ a.told = FALSE
  <2>1. CASE c.sock = "connected"
    BY <2>1, DisconnectedInv DEF Abort, ClientRecordInv
  <2>2. CASE c.sock # "connected"
    <3>1. a = [c EXCEPT !.sock = "unconnected"]
      BY <2>2 DEF Abort
    <3>2. c \in Clients /\ ~ c.told /\ c.told \in BOOLEAN
      BY <2>2 DEF ClientRecordInv, Coherent, GreetsFirst, Clients
    <3> HIDE DEF a
    <3> QED
      BY <3>1, <3>2 DEF Clients
  <2> QED
    BY <2>1, <2>2
<1> HIDE DEF a
<1> DEFINE e == Reset(a, tls, creds)
           d == NewPrefix(e)
<1>2. e \in Clients
  BY <1>1, EmptyQueues, Numbers DEF Reset, Clients
<1>3. /\ e.nextSid = a.nextSid /\ e.prefix = a.prefix
      /\ e.sock = "connecting" /\ e.ssl = "plain" /\ e.told = a.told
      /\ e.handshakeDone = FALSE /\ e.encrypted = FALSE
      /\ e.pending = <<>> /\ e.wire = <<>>
  BY <1>1 DEF Reset, Clients
<1> HIDE DEF e
<1>4. e.prefix + 1 \in Dials /\ 1 \in Counters
  BY <1>1, <1>3, Numbers DEF ClientRecordInv, Clients
<1>5. /\ d \in Clients /\ d.prefix = e.prefix + 1 /\ d.nextSid = e.nextSid
      /\ d.sock = e.sock /\ d.ssl = e.ssl /\ d.told = e.told
      /\ d.handshakeDone = e.handshakeDone /\ d.encrypted = e.encrypted
      /\ d.pending = e.pending /\ d.wire = e.wire
  BY <1>2, <1>4 DEF NewPrefix, Clients
<1> HIDE DEF d
<1>6. ClientRecordInv(d, "silent")
  BY <1>1, <1>3, <1>5
  DEF ClientRecordInv, GreetsFirst, EncryptedWire, OwnNonce, Coherent
<1> QED
  BY <1>1, <1>3, <1>5, <1>6 DEF ConnectTo, a, d, e

(* A command other than CONNECT: on the wire behind CONNECT, or queued.    *)
LEMMA WriteInv ==
  ASSUME NEW c, NEW s, NEW cmd \in Commands, cmd.verb # "CONNECT",
         ClientRecordInv(c, s)
  PROVE  /\ ClientRecordInv(Write(c, cmd), s)
         /\ Write(c, cmd).nextSid = c.nextSid
         /\ Write(c, cmd).prefix = c.prefix
         /\ Write(c, cmd).nextInbox = c.nextInbox
<1>1. c \in Clients /\ c.wire \in Wires /\ c.pending \in Queues
  BY DEF ClientRecordInv, Clients
<1>2. CASE c.handshakeDone
  <2> DEFINE line == [cmd |-> cmd, secure |-> c.ssl # "plain"]
             w == Append(c.wire, line)
             d == [c EXCEPT !.wire = w]
  <2>1. line \in [cmd : Commands, secure : BOOLEAN]
    OBVIOUS
  <2>2. /\ w \in Wires /\ Len(w) = Len(c.wire) + 1 /\ w # <<>>
        /\ \A i \in DOMAIN w : IF i \in DOMAIN c.wire THEN w[i] = c.wire[i]
                               ELSE w[i] = line /\ i = Len(c.wire) + 1
        /\ Len(c.wire) \in Nat /\ DOMAIN c.wire = 1 .. Len(c.wire)
    BY <1>1, <2>1 DEF Wires
  <2>3. line.cmd.verb # "CONNECT" /\ line.secure = (c.ssl # "plain")
    OBVIOUS
  <2>4. Write(c, cmd) = d
    BY <1>2 DEF Write, SocketWrite
  <2>5. Len(c.wire) + 1 # 1
    BY <1>1, <1>2, <2>2 DEF ClientRecordInv, GreetsFirst, Wires
  <2> HIDE DEF line, w
  <2>6. /\ d \in Clients /\ d.wire = w
        /\ d.sock = c.sock /\ d.ssl = c.ssl /\ d.handshakeDone = c.handshakeDone
        /\ d.encrypted = c.encrypted /\ d.tls = c.tls /\ d.nonce = c.nonce
        /\ d.pending = c.pending /\ d.nextSid = c.nextSid
        /\ d.prefix = c.prefix /\ d.nextInbox = c.nextInbox /\ d.told = c.told
    BY <1>1, <2>2 DEF Clients
  <2> HIDE DEF d
  <2>7. GreetsFirst(d)
    BY <1>2, <2>2, <2>3, <2>5, <2>6 DEF ClientRecordInv, GreetsFirst
  <2>8. EncryptedWire(d, s)
    <3>1. c.tls \/ s = "tls" => c.ssl # "plain"
      BY <1>2 DEF ClientRecordInv, GreetsFirst, Coherent
    <3> QED
      BY <2>2, <2>3, <2>6, <3>1 DEF ClientRecordInv, EncryptedWire
  <2>9. OwnNonce(d)
    BY <2>2, <2>3, <2>6 DEF ClientRecordInv, OwnNonce
  <2>10. Coherent(d, s)
    BY <2>6 DEF ClientRecordInv, Coherent
  <2> QED
    BY <2>4, <2>6, <2>7, <2>8, <2>9, <2>10 DEF ClientRecordInv
<1>3. CASE ~ c.handshakeDone
  <2> DEFINE q == Append(c.pending, cmd)
             d == [c EXCEPT !.pending = q]
  <2>1. /\ q \in Queues
        /\ \A i \in DOMAIN q : IF i \in DOMAIN c.pending THEN q[i] = c.pending[i]
                                ELSE q[i] = cmd
    BY <1>1 DEF Queues
  <2>2. Write(c, cmd) = d
    BY <1>3 DEF Write
  <2> HIDE DEF q
  <2>3. /\ d \in Clients /\ d.wire = c.wire
        /\ d.sock = c.sock /\ d.ssl = c.ssl /\ d.handshakeDone = c.handshakeDone
        /\ d.encrypted = c.encrypted /\ d.tls = c.tls /\ d.nonce = c.nonce
        /\ d.pending = q /\ d.nextSid = c.nextSid
        /\ d.prefix = c.prefix /\ d.nextInbox = c.nextInbox /\ d.told = c.told
    BY <1>1, <2>1 DEF Clients
  <2> HIDE DEF d
  <2>4. GreetsFirst(d) /\ EncryptedWire(d, s) /\ OwnNonce(d)
    BY <1>3, <2>3 DEF ClientRecordInv, GreetsFirst, EncryptedWire, OwnNonce
  <2>5. Coherent(d, s)
    BY <2>1, <2>3 DEF ClientRecordInv, Coherent
  <2> QED
    BY <2>2, <2>3, <2>4, <2>5 DEF ClientRecordInv
<1> QED
  BY <1>2, <1>3

(* completeHandshake() from its two callers: an INFO that asks for no TLS, *)
(* or the end of the TLS handshake.                                        *)
LEMMA CompleteHandshakeInv ==
  ASSUME NEW c \in Clients, NEW s,
         c.sock = "connected", c.wire = <<>>, c.nonce = c.prefix,
         \A i \in DOMAIN c.pending : c.pending[i].verb # "CONNECT",
         \/ c.ssl = "plain" /\ ~ c.encrypted /\ ~ c.tls /\ s = "plain"
         \/ c.ssl = "secure" /\ c.encrypted /\ s # "silent"
  PROVE  /\ ClientRecordInv(CompleteHandshake(c), s)
         /\ CompleteHandshake(c).nextSid = c.nextSid
         /\ CompleteHandshake(c).prefix = c.prefix
         /\ CompleteHandshake(c).nextInbox = c.nextInbox
<1> DEFINE jwt == c.tls /\ c.creds = "good"
           greet == [verb |-> "CONNECT", jwt |-> jwt,
                     nonce |-> IF jwt THEN c.nonce ELSE 0]
           line == [cmd |-> greet, secure |-> c.ssl # "plain"]
           f == FlushedWire(c)
           w == <<line>> \o f
           d == CompleteHandshake(c)
<1>1. greet \in Commands /\ line \in [cmd : Commands, secure : BOOLEAN]
  <2>1. (IF jwt THEN c.nonce ELSE 0) \in Dials
    BY Numbers DEF Clients
  <2>2. jwt \in BOOLEAN
    OBVIOUS
  <2> HIDE DEF jwt
  <2> QED
    BY <2>1, <2>2 DEF Commands
<1>2. /\ f \in Wires /\ DOMAIN f = DOMAIN c.pending
      /\ \A i \in DOMAIN f : /\ f[i].cmd = c.pending[i]
                             /\ f[i].secure = (c.ssl # "plain")
  BY DEF Clients, Queues, Wires, FlushedWire
<1>3. /\ w \in Wires /\ w # <<>> /\ 1 \in DOMAIN w /\ w[1] = line
      /\ \A i \in DOMAIN w : i # 1 => i - 1 \in DOMAIN f /\ w[i] = f[i - 1]
  <2> HIDE DEF line, f
  <2> QED
    BY <1>1, <1>2 DEF Wires
<1>4. /\ d \in Clients
      /\ d.sock = c.sock /\ d.ssl = c.ssl /\ d.handshakeDone = TRUE
      /\ d.encrypted = c.encrypted /\ d.tls = c.tls /\ d.nonce = c.nonce
      /\ d.pending = <<>> /\ d.nextSid = c.nextSid /\ d.wire = w
      /\ d.prefix = c.prefix /\ d.nextInbox = c.nextInbox /\ d.told = TRUE
  <2> DEFINE hello == SocketWrite(c, greet)
  <2>1. hello = [c EXCEPT !.wire = Append(c.wire, line)]
    BY DEF SocketWrite
  <2>2. Append(c.wire, line) \o f = w
    BY <1>2 DEF Wires
  <2>3. d = [hello EXCEPT !.handshakeDone = TRUE, !.wire = hello.wire \o f,
                          !.pending = <<>>, !.told = TRUE]
    BY DEF CompleteHandshake
  <2> HIDE DEF line, f, greet
  <2>4. hello.wire = Append(c.wire, line)
    BY <2>1 DEF Clients
  <2>5. d = [c EXCEPT !.handshakeDone = TRUE, !.wire = w,
                      !.pending = <<>>, !.told = TRUE]
    <3> HIDE DEF d, hello, w
    <3> QED
      BY <2>1, <2>2, <2>3, <2>4 DEF Clients
  <2> HIDE DEF d, w
  <2> QED
    BY <1>3, <2>5, EmptyQueues DEF Clients
<1> HIDE DEF d, w, f
<1>5. GreetsFirst(d)
  <2>1. \A i \in DOMAIN w : i # 1 => w[i].cmd.verb # "CONNECT"
    BY <1>2, <1>3
  <2>2. w[1].cmd.verb = "CONNECT"
    BY <1>3
  <2> QED
    BY <1>3, <1>4, <2>1, <2>2 DEF GreetsFirst
<1>6. \A i \in DOMAIN w : w[i].secure = (c.ssl # "plain")
  BY <1>2, <1>3
<1>7. EncryptedWire(d, s)
  BY <1>4, <1>6 DEF EncryptedWire
<1>8. OwnNonce(d)
  <2>1. \A i \in DOMAIN w : i # 1 => w[i].cmd.verb # "CONNECT"
    BY <1>2, <1>3
  <2>2. w[1].cmd.jwt => /\ w[1].secure /\ w[1].cmd.nonce = c.prefix
    <3>1. jwt => c.ssl # "plain"
      OBVIOUS
    <3>2. line.cmd.jwt = jwt /\ line.secure = (c.ssl # "plain")
      OBVIOUS
    <3>3. jwt => line.cmd.nonce = c.prefix
      OBVIOUS
    <3> HIDE DEF line, jwt
    <3> QED
      BY <1>3, <3>1, <3>2, <3>3
  <2> QED
    BY <1>4, <2>1, <2>2 DEF OwnNonce
<1>9. Coherent(d, s)
  BY <1>4 DEF Coherent, Clients
<1> QED
  BY <1>4, <1>5, <1>7, <1>8, <1>9 DEF ClientRecordInv, d

(* An INFO line outside a TLS handshake, the first or a later one.         *)
LEMMA HandleInfoInv ==
  ASSUME NEW c, NEW s, NEW wantsTls \in BOOLEAN, NEW s2,
         ClientRecordInv(c, s), c.sock = "connected", c.ssl # "handshaking",
         s2 = IF wantsTls THEN "tls" ELSE "plain", s \in {"silent", s2}
  PROVE  /\ ClientRecordInv(HandleInfo(c, wantsTls), s2)
         /\ HandleInfo(c, wantsTls).nextSid = c.nextSid
         /\ HandleInfo(c, wantsTls).prefix = c.prefix
         /\ HandleInfo(c, wantsTls).nextInbox = c.nextInbox
<1> DEFINE d == [c EXCEPT !.nonce = c.prefix]
           h == HandleInfo(c, wantsTls)
           upgrade == (c.tls \/ wantsTls) /\ ~ c.encrypted
<1>1. c \in Clients /\ c.ssl \in {"plain", "secure"}
  BY DEF ClientRecordInv, Clients
<1>2. /\ d \in Clients /\ d.nonce = c.prefix
      /\ d.sock = c.sock /\ d.ssl = c.ssl /\ d.handshakeDone = c.handshakeDone
      /\ d.encrypted = c.encrypted /\ d.tls = c.tls /\ d.wire = c.wire
      /\ d.pending = c.pending /\ d.nextSid = c.nextSid
      /\ d.prefix = c.prefix /\ d.nextInbox = c.nextInbox /\ d.told = c.told
  BY <1>1 DEF Clients
<1>3. h = IF upgrade THEN [d EXCEPT !.ssl = "handshaking"]
          ELSE IF ~ c.handshakeDone THEN CompleteHandshake(d) ELSE d
  <2>1. d.handshakeDone = c.handshakeDone /\ d.tls = c.tls /\ d.encrypted = c.encrypted
    BY <1>2
  <2> QED
    BY <1>1 DEF HandleInfo, Clients
<1> HIDE DEF d, h
<1>4. CASE upgrade
  <2>1. /\ c.handshakeDone = FALSE /\ c.wire = <<>> /\ c.told = FALSE
        /\ c.encrypted = FALSE
    BY <1>1, <1>4 DEF ClientRecordInv, Coherent, GreetsFirst, Clients
  <2>2. h = [d EXCEPT !.ssl = "handshaking"]
    BY <1>3, <1>4
  <2>3. /\ h \in Clients /\ h.nonce = d.prefix /\ h.ssl = "handshaking"
        /\ h.sock = d.sock /\ h.handshakeDone = d.handshakeDone
        /\ h.encrypted = d.encrypted /\ h.tls = d.tls /\ h.wire = d.wire
        /\ h.pending = d.pending /\ h.nextSid = d.nextSid
        /\ h.prefix = d.prefix /\ h.nextInbox = d.nextInbox /\ h.told = d.told
    BY <1>2, <2>2 DEF Clients
  <2>4. Coherent(h, s2)
    BY <1>2, <2>1, <2>3 DEF ClientRecordInv, Coherent
  <2>5. GreetsFirst(h) /\ EncryptedWire(h, s2) /\ OwnNonce(h)
    BY <1>2, <2>1, <2>3 DEF GreetsFirst, EncryptedWire, OwnNonce
  <2> QED
    BY <1>2, <2>3, <2>4, <2>5 DEF ClientRecordInv, h
<1>5. CASE ~ upgrade /\ ~ c.handshakeDone
  <2>1. /\ ~ c.encrypted /\ c.ssl = "plain" /\ ~ c.tls /\ s2 = "plain"
        /\ c.wire = <<>>
        /\ \A i \in DOMAIN c.pending : c.pending[i].verb # "CONNECT"
    BY <1>1, <1>5 DEF ClientRecordInv, Coherent, GreetsFirst
  <2>2. h = CompleteHandshake(d)
    BY <1>3, <1>5
  <2> QED
    BY <1>2, <2>1, <2>2, CompleteHandshakeInv DEF h
<1>6. CASE ~ upgrade /\ c.handshakeDone
  <2>1. h = d
    BY <1>3, <1>6
  <2>2. s = s2
    BY <1>6 DEF ClientRecordInv, Coherent
  <2>3. GreetsFirst(d) /\ EncryptedWire(d, s2) /\ OwnNonce(d)
    BY <1>2, <2>2 DEF ClientRecordInv, GreetsFirst, EncryptedWire, OwnNonce
  <2>4. Coherent(d, s2)
    BY <1>2, <2>2 DEF ClientRecordInv, Coherent
  <2> QED
    BY <1>2, <2>1, <2>3, <2>4 DEF ClientRecordInv, h
<1> QED
  BY <1>4, <1>5, <1>6

(* The end of the TLS handshake: the first CONNECT of the connection.      *)
LEMMA OnEncryptedInv ==
  ASSUME NEW c, NEW s, ClientRecordInv(c, s),
         c.sock = "connected", c.ssl = "handshaking"
  PROVE  /\ ClientRecordInv(OnEncrypted(c), s)
         /\ OnEncrypted(c).nextSid = c.nextSid
         /\ OnEncrypted(c).prefix = c.prefix
         /\ OnEncrypted(c).nextInbox = c.nextInbox
<1> DEFINE d == [c EXCEPT !.ssl = "secure", !.encrypted = TRUE]
<1>1. /\ c \in Clients /\ s # "silent" /\ c.wire = <<>> /\ c.nonce = c.prefix
      /\ \A i \in DOMAIN c.pending : c.pending[i].verb # "CONNECT"
  BY DEF ClientRecordInv, Coherent, GreetsFirst
<1>2. /\ d \in Clients /\ d.ssl = "secure" /\ d.encrypted
      /\ d.sock = c.sock /\ d.nonce = c.nonce /\ d.wire = c.wire
      /\ d.pending = c.pending /\ d.nextSid = c.nextSid
      /\ d.prefix = c.prefix /\ d.nextInbox = c.nextInbox
  BY <1>1 DEF Clients
<1> HIDE DEF d
<1>3. /\ ClientRecordInv(CompleteHandshake(d), s)
      /\ CompleteHandshake(d).nextSid = d.nextSid
      /\ CompleteHandshake(d).prefix = d.prefix
      /\ CompleteHandshake(d).nextInbox = d.nextInbox
  BY <1>1, <1>2, CompleteHandshakeInv
<1> QED
  BY <1>2, <1>3 DEF OnEncrypted, d

(* The counters may grow under the invariant of the record.                *)
LEMMA CountersInv ==
  ASSUME NEW c, NEW s, ClientRecordInv(c, s)
  PROVE  /\ ClientRecordInv(NewInbox(c), s)
         /\ NewInbox(c).nextSid = c.nextSid
         /\ NewInbox(c).prefix = c.prefix
         /\ NewInbox(c).nextInbox = c.nextInbox + 1
         /\ ClientRecordInv([c EXCEPT !.nextSid = @ + 1], s)
<1> DEFINE d == NewInbox(c)
           e == [c EXCEPT !.nextSid = @ + 1]
<1>1. c \in Clients /\ c.nextInbox + 1 \in Counters /\ c.nextSid + 1 \in Counters
  BY Numbers DEF ClientRecordInv, Clients
<1>2. /\ d \in Clients
      /\ d.sock = c.sock /\ d.ssl = c.ssl /\ d.handshakeDone = c.handshakeDone
      /\ d.encrypted = c.encrypted /\ d.tls = c.tls /\ d.nonce = c.nonce
      /\ d.wire = c.wire /\ d.pending = c.pending /\ d.nextSid = c.nextSid
      /\ d.prefix = c.prefix /\ d.told = c.told /\ d.nextInbox = c.nextInbox + 1
  BY <1>1 DEF Clients, NewInbox
<1>3. /\ e \in Clients
      /\ e.sock = c.sock /\ e.ssl = c.ssl /\ e.handshakeDone = c.handshakeDone
      /\ e.encrypted = c.encrypted /\ e.tls = c.tls /\ e.nonce = c.nonce
      /\ e.wire = c.wire /\ e.pending = c.pending
      /\ e.prefix = c.prefix /\ e.told = c.told
  BY <1>1 DEF Clients
<1> HIDE DEF d, e
<1>4. ClientRecordInv(d, s)
  BY <1>2
  DEF ClientRecordInv, GreetsFirst, EncryptedWire, OwnNonce, Coherent
<1>5. ClientRecordInv(e, s)
  BY <1>3
  DEF ClientRecordInv, GreetsFirst, EncryptedWire, OwnNonce, Coherent
<1> QED
  BY <1>2, <1>4, <1>5 DEF d, e

(* TCP comes up or is refused: the socket's state alone changes.           *)
LEMMA SocketInv ==
  ASSUME NEW c, ClientRecordInv(c, "silent"), c.sock = "connecting",
         NEW sock \in {"connected", "unconnected"}
  PROVE  /\ ClientRecordInv([c EXCEPT !.sock = sock], "silent")
         /\ [c EXCEPT !.sock = sock].nextSid = c.nextSid
         /\ [c EXCEPT !.sock = sock].prefix = c.prefix
         /\ [c EXCEPT !.sock = sock].nextInbox = c.nextInbox
<1> DEFINE d == [c EXCEPT !.sock = sock]
<1>1. /\ c \in Clients /\ c.ssl = "plain" /\ ~ c.handshakeDone
  BY DEF ClientRecordInv, Coherent, GreetsFirst, Clients
<1>2. /\ d \in Clients /\ d.sock = sock
      /\ d.ssl = c.ssl /\ d.handshakeDone = c.handshakeDone
      /\ d.encrypted = c.encrypted /\ d.tls = c.tls /\ d.nonce = c.nonce
      /\ d.wire = c.wire /\ d.pending = c.pending /\ d.nextSid = c.nextSid
      /\ d.prefix = c.prefix /\ d.told = c.told /\ d.nextInbox = c.nextInbox
  BY <1>1 DEF Clients
<1> HIDE DEF d
<1>3. ClientRecordInv(d, "silent")
  BY <1>1, <1>2
  DEF ClientRecordInv, GreetsFirst, EncryptedWire, OwnNonce, Coherent
<1> QED
  BY <1>2, <1>3 DEF d

(* A request takes the next id and the next inbox: both are new.           *)
LEMMA RequestInv ==
  ASSUME ClientInv, Request
  PROVE  ClientInv'
<1> DEFINE inbox == Inbox(nc)
           n == NewInbox(nc)
           m == [n EXCEPT !.nextSid = @ + 1]
           sub == [verb |-> "SUB", sid |-> n.nextSid, inbox |-> inbox]
           w == Write(m, sub)
           pub == [verb |-> "PUB", inbox |-> inbox]
           row == [sid |-> nc.nextSid, inbox |-> inbox, open |-> TRUE,
                   dial |-> IF nc.sock = "unconnected" THEN 0 ELSE nc.prefix]
<1>1. /\ nc \in Clients /\ nc.nextSid \in Nat /\ nc.nextInbox \in Nat
      /\ nc.prefix \in Dials /\ nc.prefix \in Nat
      /\ inbox \in Inboxes /\ inbox[1] = nc.prefix /\ inbox[2] = nc.nextInbox
  BY Numbers DEF ClientInv, ClientTypeOK, Clients, Inbox, Inboxes
<1>2. /\ ClientRecordInv(n, server) /\ n \in Clients
      /\ n.nextSid = nc.nextSid /\ n.prefix = nc.prefix
      /\ n.nextInbox = nc.nextInbox + 1
  BY CountersInv DEF ClientInv, ClientRecordInv
<1>3. row \in Listeners
  BY <1>1, Numbers DEF Listeners
<1>4. /\ nc' = Publish(Subscribe(n, inbox), inbox)
      /\ owners' = Append(owners, row) /\ server' = server
  BY DEF Request
<1> HIDE DEF n, inbox
<1>5. sub \in Commands /\ sub.verb # "CONNECT"
  BY <1>1, <1>2 DEF Commands
<1>6. pub \in Commands /\ pub.verb # "CONNECT"
  BY <1>1 DEF Commands
<1>7. /\ ClientRecordInv(m, server) /\ m.nextSid = n.nextSid + 1
      /\ m.prefix = n.prefix /\ m.nextInbox = n.nextInbox
  BY <1>2, CountersInv DEF Clients
<1>8. nc' = Write(w, pub)
  BY <1>4 DEF Publish, Subscribe
<1> HIDE DEF sub, pub, m
<1>9. /\ ClientRecordInv(w, server) /\ w.nextSid = m.nextSid
      /\ w.prefix = m.prefix /\ w.nextInbox = m.nextInbox
  BY <1>5, <1>7, WriteInv
<1> HIDE DEF w
<1>10. /\ ClientRecordInv(nc', server') /\ nc'.nextSid = nc.nextSid + 1
       /\ nc'.prefix = nc.prefix /\ nc'.nextInbox = nc.nextInbox + 1
  BY <1>2, <1>4, <1>6, <1>7, <1>8, <1>9, WriteInv
<1>11. row.sid = nc.nextSid /\ row.inbox = inbox
  OBVIOUS
<1> HIDE DEF row
<1>12. /\ owners' \in Seq(Listeners)
       /\ Len(owners) \in Nat /\ DOMAIN owners = 1 .. Len(owners)
       /\ DOMAIN owners' = 1 .. (Len(owners) + 1)
       /\ \A o \in DOMAIN owners : owners'[o] = owners[o]
       /\ owners'[Len(owners) + 1] = row
  BY <1>3, <1>4 DEF ClientInv, ClientTypeOK
<1>13. \A o \in DOMAIN owners : /\ owners[o].sid \in Nat
                               /\ owners[o].inbox[1] \in Nat
                               /\ owners[o].inbox[2] \in Nat
  <2> SUFFICES ASSUME NEW o \in DOMAIN owners
               PROVE  /\ owners[o].sid \in Nat
                      /\ owners[o].inbox[1] \in Nat /\ owners[o].inbox[2] \in Nat
    OBVIOUS
  <2>1. owners[o] \in Listeners
    BY DEF ClientInv, ClientTypeOK
  <2>2. owners[o].sid \in Nat /\ owners[o].inbox \in Inboxes
    BY <2>1 DEF Listeners
  <2>3. owners[o].inbox[1] \in Dials /\ owners[o].inbox[2] \in Nat
    BY <2>2 DEF Inboxes
  <2> QED
    BY <2>2, <2>3, Numbers
<1>14. ClientTypeOK'
  BY <1>4, <1>10, <1>12 DEF ClientInv, ClientTypeOK, ClientRecordInv
<1>15. BelowCounters(nc', owners')
  <2> SUFFICES ASSUME NEW o \in DOMAIN owners'
               PROVE  /\ owners'[o].sid < nc'.nextSid
                      /\ owners'[o].inbox[1] <= nc'.prefix
                      /\ owners'[o].inbox[1] = nc'.prefix
                           => owners'[o].inbox[2] < nc'.nextInbox
    BY DEF BelowCounters
  <2>1. CASE o \in DOMAIN owners
    <3>1. /\ owners[o].sid < nc.nextSid /\ owners[o].inbox[1] <= nc.prefix
          /\ owners[o].inbox[1] = nc.prefix => owners[o].inbox[2] < nc.nextInbox
      BY <2>1 DEF ClientInv, BelowCounters
    <3>2. owners'[o] = owners[o]
      BY <1>12, <2>1
    <3>3. /\ owners[o].sid \in Nat /\ owners[o].inbox[1] \in Nat
          /\ owners[o].inbox[2] \in Nat
      BY <1>13, <2>1
    <3> QED
      BY <1>1, <1>10, <3>1, <3>2, <3>3
  <2>2. CASE o = Len(owners) + 1
    <3>1. /\ owners'[o].sid = nc.nextSid /\ owners'[o].inbox[1] = nc.prefix
          /\ owners'[o].inbox[2] = nc.nextInbox
      BY <1>1, <1>11, <1>12, <2>2
    <3> QED
      BY <1>1, <1>10, <3>1
  <2> QED
    BY <1>12, <2>1, <2>2
<1>16. NeverReused'
  <2>1. \A o \in DOMAIN owners : owners[o].sid # row.sid /\ owners[o].inbox # row.inbox
    BY <1>1, <1>11, <1>13 DEF ClientInv, BelowCounters
  <2> QED
    BY <1>12, <2>1 DEF ClientInv, NeverReused
<1> QED
  BY <1>10, <1>14, <1>15, <1>16 DEF ClientInv

(* A step that keeps both counters and the connection's prefix keeps the   *)
(* listeners' ids apart from everything to come.                           *)
LEMMA SameCounters ==
  ASSUME ClientInv, UNCHANGED owners,
         nc'.nextSid = nc.nextSid, nc'.prefix = nc.prefix,
         nc'.nextInbox = nc.nextInbox,
         ClientRecordInv(nc', server'), server' \in {"silent", "plain", "tls"}
  PROVE  ClientInv'
<1>1. ClientTypeOK'
  BY DEF ClientInv, ClientTypeOK, ClientRecordInv
<1>2. BelowCounters(nc', owners') /\ NeverReused'
  BY DEF ClientInv, BelowCounters, NeverReused
<1> QED
  BY <1>1, <1>2 DEF ClientInv

(* A new dial moves to inboxes above every earlier one.                    *)
LEMMA DialInv ==
  ASSUME ClientInv, NEW tls \in BOOLEAN, NEW creds \in {"none", "good", "bad"},
         ConnectToServer(tls, creds)
  PROVE  ClientInv'
<1>1. /\ ClientRecordInv(nc', server') /\ server' = "silent"
      /\ nc'.nextSid = nc.nextSid /\ nc'.prefix = nc.prefix + 1
      /\ owners' = owners
  BY ConnectToInv DEF ClientInv, ConnectToServer
<1>2. ClientTypeOK'
  BY <1>1 DEF ClientInv, ClientTypeOK, ClientRecordInv
<1>3. BelowCounters(nc', owners')
  <2> SUFFICES ASSUME NEW o \in DOMAIN owners
               PROVE  /\ owners[o].sid < nc'.nextSid
                      /\ owners[o].inbox[1] <= nc'.prefix
                      /\ owners[o].inbox[1] # nc'.prefix
    BY <1>1 DEF BelowCounters
  <2>1. /\ owners[o].sid < nc.nextSid /\ owners[o].inbox[1] <= nc.prefix
    BY DEF ClientInv, BelowCounters
  <2>2. owners[o] \in Listeners
    BY DEF ClientInv, ClientTypeOK
  <2>3. owners[o].inbox[1] \in Dials
    BY <2>2 DEF Inboxes, Listeners
  <2>4. nc.prefix \in Dials
    BY DEF ClientInv, ClientTypeOK, Clients
  <2>5. nc.prefix \in Nat /\ owners[o].inbox[1] \in Nat
    BY <2>3, <2>4, Numbers
  <2>6. nc'.nextSid = nc.nextSid /\ nc'.prefix = nc.prefix + 1
    BY <1>1
  <2> QED
    BY ONLY <2>1, <2>5, <2>6
<1>4. NeverReused'
  BY <1>1 DEF ClientInv, NeverReused
<1> QED
  BY <1>1, <1>2, <1>3, <1>4 DEF ClientInv

(* A listener that ends changes the queue or the wire and its own flag.    *)
LEMMA ReleaseInv ==
  ASSUME ClientInv, NEW o \in DOMAIN owners, Release(o)
  PROVE  ClientInv'
<1> DEFINE unsub == [verb |-> "UNSUB", sid |-> owners[o].sid]
<1>1. owners \in Seq(Listeners) /\ owners[o] \in Listeners
  BY DEF ClientInv, ClientTypeOK
<1>2. unsub \in Commands /\ unsub.verb # "CONNECT"
  BY <1>1 DEF Commands, Listeners
<1>3. nc' = Write(nc, unsub) /\ server' = server
  BY DEF Release, Unsubscribe
<1> HIDE DEF unsub
<1>4. /\ ClientRecordInv(nc', server') /\ nc'.nextSid = nc.nextSid
      /\ nc'.prefix = nc.prefix /\ nc'.nextInbox = nc.nextInbox
  BY <1>2, <1>3, WriteInv DEF ClientInv
<1>5. /\ owners' \in Seq(Listeners) /\ DOMAIN owners' = DOMAIN owners
      /\ \A p \in DOMAIN owners : /\ owners'[p].sid = owners[p].sid
                                  /\ owners'[p].inbox = owners[p].inbox
  <2>1. owners' = [owners EXCEPT ![o] = [owners[o] EXCEPT !.open = FALSE]]
    BY DEF Release
  <2>2. [owners[o] EXCEPT !.open = FALSE] \in Listeners
    BY <1>1 DEF Listeners
  <2>3. /\ [owners[o] EXCEPT !.open = FALSE].sid = owners[o].sid
        /\ [owners[o] EXCEPT !.open = FALSE].inbox = owners[o].inbox
    BY <1>1 DEF Listeners
  <2> QED
    BY <1>1, <2>1, <2>2, <2>3
<1>6. ClientTypeOK'
  BY <1>3, <1>4, <1>5 DEF ClientInv, ClientTypeOK, ClientRecordInv
<1>7. BelowCounters(nc', owners')
  BY <1>4, <1>5 DEF ClientInv, BelowCounters
<1>8. NeverReused'
  BY <1>5 DEF ClientInv, NeverReused
<1> QED
  BY <1>4, <1>6, <1>7, <1>8 DEF ClientInv
------------------------------------------------------------------------------
(* The inductive invariant: what nats/NatsClient.cpp keeps through any     *)
(* order of dials, network events, server lines, requests and releases.    *)
THEOREM ClientInvariant == ClientSpec => []ClientInv
<1>1. ClientInit => ClientInv
  <2> SUFFICES ASSUME ClientInit PROVE ClientInv
    OBVIOUS
  <2>1. ClientRecordInv(nc, server)
    BY InitialClient DEF ClientInit
  <2>2. ClientTypeOK
    BY <2>1 DEF ClientInit, ClientTypeOK, ClientRecordInv
  <2>3. BelowCounters(nc, owners) /\ NeverReused
    BY DEF ClientInit, BelowCounters, NeverReused
  <2> QED
    BY <2>1, <2>2, <2>3 DEF ClientInv
<1>2. ClientInv /\ [ClientNext]_clientVars => ClientInv'
  <2> SUFFICES ASSUME ClientInv, [ClientNext]_clientVars
               PROVE  ClientInv'
    OBVIOUS
  <2>0. ClientRecordInv(nc, server) /\ server \in {"silent", "plain", "tls"}
    BY DEF ClientInv, ClientTypeOK
  <2>1. CASE \E tls \in BOOLEAN, creds \in {"none", "good", "bad"} :
               ConnectToServer(tls, creds)
    BY <2>1, DialInv
  <2>2. CASE SocketConnected \/ SocketRefused
    <3>1. PICK sock \in {"connected", "unconnected"} :
            nc' = [nc EXCEPT !.sock = sock]
      BY <2>2 DEF SocketConnected, SocketRefused
    <3>2. nc.sock = "connecting" /\ server' = server /\ owners' = owners
      BY <2>2 DEF SocketConnected, SocketRefused
    <3>3. server = "silent"
      BY <2>0, <3>2 DEF ClientRecordInv, Coherent
    <3> QED
      BY <2>0, <3>1, <3>2, <3>3, SocketInv, SameCounters
  <2>3. ASSUME NEW wantsTls \in BOOLEAN, ReceiveInfo(wantsTls)
        PROVE  ClientInv'
    <3>1. /\ nc.sock = "connected" /\ nc.ssl # "handshaking"
          /\ server \in {"silent", server'} /\ owners' = owners
          /\ server' = IF wantsTls THEN "tls" ELSE "plain"
          /\ nc' = HandleInfo(nc, wantsTls)
      BY <2>3 DEF ReceiveInfo, LineArrives
    <3> QED
      BY <2>0, <3>1, HandleInfoInv, SameCounters
  <2>4. CASE Encrypted
    BY <2>0, <2>4, OnEncryptedInv, SameCounters DEF Encrypted
  <2>5. CASE Disconnected
    BY <2>0, <2>5, DisconnectedInv, SameCounters DEF Disconnected
  <2>6. CASE ReceivePing
    <3>1. /\ nc.sock = "connected" /\ nc.ssl # "handshaking" /\ server # "silent"
          /\ nc' = SocketWrite(nc, [verb |-> "PONG"])
          /\ UNCHANGED <<server, owners>>
      BY <2>6 DEF ReceivePing, LineArrives
    <3>2. nc.handshakeDone
      BY <2>0, <3>1 DEF ClientRecordInv, Coherent, Clients
    <3>3. nc' = Write(nc, [verb |-> "PONG"])
      BY <3>1, <3>2 DEF Write
    <3>4. [verb |-> "PONG"] \in Commands
      BY DEF Commands
    <3> QED
      BY <2>0, <3>1, <3>3, <3>4, WriteInv, SameCounters
  <2>7. CASE Request
    BY <2>7, RequestInv
  <2>8. CASE \E o \in DOMAIN owners : Release(o)
    BY <2>8, ReleaseInv
  <2>9. CASE UNCHANGED clientVars
    BY <2>0, <2>9, SameCounters DEF clientVars
  <2> QED
    BY <2>1, <2>2, <2>3, <2>4, <2>5, <2>6, <2>7, <2>8, <2>9
    DEF ClientNext, Network
<1> QED
  BY <1>1, <1>2, PTL DEF ClientSpec

(* Every field of the client keeps its type.                               *)
THEOREM ClientTypes == ClientSpec => []ClientTypeOK
<1>1. ClientInv => ClientTypeOK
  BY DEF ClientInv
<1> QED
  BY <1>1, ClientInvariant, PTL

(* CONNECT opens every connection and is sent once on it.                  *)
THEOREM GreetingIsFirst == ClientSpec => []HandshakeFirst
<1>1. ClientInv => HandshakeFirst
  BY DEF ClientInv, ClientRecordInv, HandshakeFirst
<1> QED
  BY <1>1, ClientInvariant, PTL

(* Once TLS is asked for, nothing is written before it is up.              *)
THEOREM TlsBeforeCommands == ClientSpec => []NeverCleartext
<1>1. ClientInv => NeverCleartext
  BY DEF ClientInv, ClientRecordInv, NeverCleartext
<1> QED
  BY <1>1, ClientInvariant, PTL

(* No signature is made over a nonce of an earlier connection.             *)
THEOREM SignatureIsFresh == ClientSpec => []SignsOwnNonce
<1>1. ClientInv => SignsOwnNonce
  BY DEF ClientInv, ClientRecordInv, SignsOwnNonce
<1> QED
  BY <1>1, ClientInvariant, PTL

(* The signals told so far agree with isConnected() after every turn.      *)
THEOREM SignalsAreTrue == ClientSpec => []SignalsAgree
<1>1. ClientInv => SignalsAgree
  BY DEF ClientInv, ClientRecordInv, GreetsFirst, Coherent, SignalsAgree, IsConnected
<1> QED
  BY <1>1, ClientInvariant, PTL

(* Subscription ids and reply inboxes are never given out twice.           *)
THEOREM IdsAreUnique == ClientSpec => []NeverReused
<1>1. ClientInv => NeverReused
  BY DEF ClientInv
<1> QED
  BY <1>1, ClientInvariant, PTL
------------------------------------------------------------------------------
LEMMA AppendBehind ==
  ASSUME NEW q \in Queues, NEW r \in Queues, NEW e \in Commands
  PROVE  q \o Append(r, e) = Append(q \o r, e)
BY DEF Queues

LEMMA WireLine ==
  ASSUME NEW w \in Wires, NEW i \in 1 .. Len(w)
  PROVE  w[i].cmd \in Commands
<1>1. w[i] \in [cmd : Commands, secure : BOOLEAN]
  <2>1. \A S : w \in Seq(S) => w[i] \in S
    OBVIOUS
  <2> QED
    BY <2>1, Zenon DEF Wires
<1> QED
  BY <1>1

(* The pipe, method by method: what a method does to the phase and to the  *)
(* commands the connection was given.                                      *)
LEMMA OutboundTypes ==
  ASSUME NEW c, NEW s, ClientRecordInv(c, s)
  PROVE  /\ Said(c.wire) \in Queues /\ Outbound(c) \in Queues
         /\ Said(c.wire) = IF Phase(c) = "up" THEN Outbound(c) ELSE <<>>
         /\ Phase(c) = "down" => Outbound(c) = <<>>
<1>1. c \in Clients /\ c.wire \in Wires /\ c.pending \in Queues
  BY DEF ClientRecordInv, Clients
<1>2. Said(c.wire) \in Queues
  <2>1. CASE c.wire = <<>>
    BY <2>1, EmptyQueues DEF Said
  <2>2. CASE c.wire # <<>>
    <3>1. Len(c.wire) - 1 \in Nat
      BY <1>1, <2>2 DEF Wires
    <3>2. \A i \in 1 .. Len(c.wire) - 1 : c.wire[i + 1].cmd \in Commands
      <4> SUFFICES ASSUME NEW i \in 1 .. Len(c.wire) - 1
                   PROVE  c.wire[i + 1].cmd \in Commands
        OBVIOUS
      <4>1. i + 1 \in 1 .. Len(c.wire)
        BY <1>1 DEF Wires
      <4> QED
        BY <1>1, <4>1, WireLine
    <3> QED
      BY <2>2, <3>1, <3>2 DEF Said, Queues
  <2> QED
    BY <2>1, <2>2
<1>3. /\ c.sock = "unconnected" => c.wire = <<>>
      /\ c.handshakeDone => c.sock = "connected" /\ c.pending = <<>>
      /\ ~ c.handshakeDone => c.wire = <<>>
  BY DEF ClientRecordInv, GreetsFirst
<1>4. Said(c.wire) \o c.pending \in Queues
  BY <1>1, <1>2 DEF Queues
<1>5. c.pending = <<>> => Said(c.wire) \o c.pending = Said(c.wire)
  BY <1>2 DEF Queues
<1>6. Said(<<>>) = <<>>
  BY DEF Said
<1> QED
  BY <1>2, <1>3, <1>4, <1>5, <1>6, EmptyQueues DEF Outbound, Phase

(* A command joins the pipe at its end, whether it is queued or written.   *)
LEMMA WritePipe ==
  ASSUME NEW c, NEW s, NEW cmd \in Commands, cmd.verb # "CONNECT",
         ClientRecordInv(c, s)
  PROVE  /\ Write(c, cmd).sock = c.sock /\ Phase(Write(c, cmd)) = Phase(c)
         /\ Outbound(Write(c, cmd)) =
              IF c.sock = "unconnected" THEN <<>> ELSE Append(Outbound(c), cmd)
<1> DEFINE d == Write(c, cmd)
<1>1. c \in Clients /\ c.wire \in Wires /\ c.pending \in Queues
  BY DEF ClientRecordInv, Clients
<1>2. Said(c.wire) \in Queues
  BY OutboundTypes
<1>3. CASE c.handshakeDone
  <2> DEFINE line == [cmd |-> cmd, secure |-> c.ssl # "plain"]
             w == Append(c.wire, line)
  <2>1. /\ c.wire # <<>> /\ c.pending = <<>> /\ c.sock = "connected"
    BY <1>3 DEF ClientRecordInv, GreetsFirst
  <2>2. /\ d.wire = w /\ d.sock = c.sock /\ d.pending = c.pending
        /\ d.handshakeDone = c.handshakeDone
    BY <1>1, <1>3 DEF Write, SocketWrite, Clients
  <2> DEFINE n == Len(c.wire)
  <2>3. /\ n \in Nat \ {0} /\ Len(w) = n + 1 /\ w # <<>>
        /\ \A i \in 1 .. n : w[i] = c.wire[i]
        /\ w[n + 1] = line
    BY <1>1, <2>1 DEF Wires
  <2>4. line.cmd = cmd
    OBVIOUS
  <2> HIDE DEF w, line, n
  <2>5. Said(w) = [i \in 1 .. n |-> w[i + 1].cmd]
    BY <2>3 DEF Said
  <2>6. Said(c.wire) = [i \in 1 .. n - 1 |-> c.wire[i + 1].cmd]
    BY <2>1 DEF Said, n
  <2>7. Len(Said(c.wire)) = n - 1
    BY <1>2, <2>3, <2>6 DEF Queues
  <2>8. Said(w) = Append(Said(c.wire), cmd)
    <3>1. Append(Said(c.wire), cmd) =
            [i \in 1 .. n |-> IF i < n THEN Said(c.wire)[i] ELSE cmd]
      BY <1>2, <2>3, <2>7 DEF Queues
    <3>2. \A i \in 1 .. n :
            w[i + 1].cmd = IF i < n THEN Said(c.wire)[i] ELSE cmd
      BY <2>3, <2>4, <2>6
    <3> QED
      BY <2>5, <3>1, <3>2
  <2>9. Said(c.wire) \o <<>> = Said(c.wire) /\ Said(w) \o <<>> = Said(w)
    BY <1>2, <2>8 DEF Queues
  <2> QED
    BY <2>1, <2>2, <2>8, <2>9 DEF Outbound, Phase
<1>4. CASE ~ c.handshakeDone
  <2>1. /\ d.wire = c.wire /\ d.sock = c.sock /\ d.pending = Append(c.pending, cmd)
        /\ d.handshakeDone = c.handshakeDone
    BY <1>1, <1>4 DEF Write, Clients
  <2>2. Said(c.wire) \o Append(c.pending, cmd) = Append(Said(c.wire) \o c.pending, cmd)
    BY <1>1, <1>2, AppendBehind
  <2> QED
    BY <2>1, <2>2 DEF Outbound, Phase
<1> QED
  BY <1>3, <1>4

(* connectToServer() lays a new pipe.                                      *)
LEMMA DialPipe ==
  ASSUME NEW c, NEW s, NEW tls \in BOOLEAN, NEW creds \in {"none", "good", "bad"},
         ClientRecordInv(c, s), c.prefix < MaxDials
  PROVE  /\ Phase(ConnectTo(c, tls, creds)) = "dialing"
         /\ ConnectTo(c, tls, creds).sock = "connecting"
         /\ Outbound(ConnectTo(c, tls, creds)) = <<>>
<1> DEFINE a == Abort(c)
           e == Reset(a, tls, creds)
           d == NewPrefix(e)
<1>1. a \in Clients
  <2>1. OnDisconnected(c) \in Clients
    BY DisconnectedInv DEF ClientRecordInv
  <2> QED
    BY <2>1 DEF Abort, ClientRecordInv, Clients
<1> HIDE DEF a
<1>2. /\ e.sock = "connecting" /\ e.handshakeDone = FALSE
      /\ e.pending = <<>> /\ e.wire = <<>> /\ e \in Clients
  BY <1>1, EmptyQueues, Numbers DEF Reset, Clients
<1> HIDE DEF e
<1>3. /\ d.sock = "connecting" /\ d.handshakeDone = FALSE
      /\ d.pending = <<>> /\ d.wire = <<>>
  BY <1>2 DEF NewPrefix, Clients
<1>4. ConnectTo(c, tls, creds) = d
  BY DEF ConnectTo, a, e
<1> HIDE DEF d
<1>5. Said(<<>>) = <<>> /\ <<>> \o <<>> = <<>>
  BY DEF Said
<1> QED
  BY <1>3, <1>4, <1>5 DEF Phase, Outbound

(* completeHandshake() opens it: what waited is on the wire.               *)
LEMMA GreetPipe ==
  ASSUME NEW c \in Clients, c.sock = "connected", c.wire = <<>>
  PROVE  /\ Phase(CompleteHandshake(c)) = "up"
         /\ CompleteHandshake(c).sock = "connected"
         /\ Outbound(CompleteHandshake(c)) = c.pending
<1> DEFINE jwt == c.tls /\ c.creds = "good"
           greet == [verb |-> "CONNECT", jwt |-> jwt,
                     nonce |-> IF jwt THEN c.nonce ELSE 0]
           line == [cmd |-> greet, secure |-> c.ssl # "plain"]
           f == FlushedWire(c)
           w == <<line>> \o f
           n == Len(c.pending)
           d == CompleteHandshake(c)
           hello == SocketWrite(c, greet)
<1>1. n \in Nat /\ DOMAIN c.pending = 1 .. n /\ c.pending \in Seq(Commands)
  BY DEF Clients, Queues
<1>2. d = [hello EXCEPT !.handshakeDone = TRUE, !.wire = hello.wire \o f,
                        !.pending = <<>>, !.told = TRUE]
  BY DEF CompleteHandshake
<1>3. hello = [c EXCEPT !.wire = Append(c.wire, line)]
  BY DEF SocketWrite
<1> HIDE DEF d, hello, line, greet, f
<1>4. Append(c.wire, line) = <<line>>
  OBVIOUS
<1>5. /\ d.sock = c.sock /\ d.handshakeDone = TRUE /\ d.pending = <<>>
      /\ d.wire = w
  BY <1>2, <1>3, <1>4 DEF Clients
<1>6. /\ DOMAIN f = 1 .. n /\ \A i \in 1 .. n : f[i].cmd = c.pending[i]
  BY <1>1 DEF f, FlushedWire
<1> DEFINE T == {f[i] : i \in 1 .. n} \cup {line}
<1>7. f \in Seq(T) /\ Len(f) = n
  <2>1. f = [i \in 1 .. n |-> f[i]]
    BY <1>1 DEF f, FlushedWire
  <2> QED
    BY <1>1, <2>1
<1>8. /\ Len(w) = n + 1 /\ w # <<>>
      /\ \A i \in 1 .. n : w[i + 1] = f[i]
  <2>1. line \in T
    OBVIOUS
  <2> HIDE DEF T
  <2>2. <<line>> \in Seq(T) /\ Len(<<line>>) = 1
    BY <2>1
  <2> QED
    BY <1>1, <1>7, <2>2
<1> HIDE DEF w
<1>9. Said(w) = c.pending
  <2>1. Said(w) = [i \in 1 .. n |-> w[i + 1].cmd]
    BY <1>1, <1>8 DEF Said
  <2>2. c.pending = [i \in 1 .. n |-> c.pending[i]]
    BY <1>1
  <2> QED
    BY <1>6, <1>8, <2>1, <2>2
<1>10. c.pending \o <<>> = c.pending
  BY <1>1
<1> QED
  BY <1>5, <1>9, <1>10 DEF Outbound, Phase, d

(* An INFO line opens the pipe, or leaves it as it is.                     *)
LEMMA InfoPipe ==
  ASSUME NEW c, NEW s, NEW wantsTls \in BOOLEAN,
         ClientRecordInv(c, s), c.sock = "connected", c.ssl # "handshaking"
  PROVE  /\ HandleInfo(c, wantsTls).sock = c.sock
         /\ Outbound(HandleInfo(c, wantsTls)) = Outbound(c)
         /\ Phase(HandleInfo(c, wantsTls)) \in {Phase(c), "up"}
<1> DEFINE d == [c EXCEPT !.nonce = c.prefix]
           h == HandleInfo(c, wantsTls)
<1>1. c \in Clients
  BY DEF ClientRecordInv
<1>2. /\ d \in Clients /\ d.sock = c.sock /\ d.handshakeDone = c.handshakeDone
      /\ d.wire = c.wire /\ d.pending = c.pending
  BY <1>1 DEF Clients
<1>3. \/ h = [d EXCEPT !.ssl = "handshaking"]
      \/ h = CompleteHandshake(d) /\ ~ c.handshakeDone
      \/ h = d
  BY <1>2 DEF HandleInfo
<1> HIDE DEF d, h
<1>4. CASE h = CompleteHandshake(d) /\ ~ c.handshakeDone
  <2>1. c.wire = <<>>
    BY <1>4 DEF ClientRecordInv, GreetsFirst
  <2>2. Phase(h) = "up" /\ h.sock = "connected" /\ Outbound(h) = c.pending
    BY <1>2, <1>4, <2>1, GreetPipe
  <2>3. Outbound(c) = c.pending
    <3>1. Said(c.wire) = <<>> /\ <<>> \o c.pending = c.pending
      BY <1>1, <2>1 DEF Said, Clients, Queues
    <3> QED
      BY <3>1 DEF Outbound
  <2> QED
    BY <2>2, <2>3 DEF h
<1>5. CASE h = [d EXCEPT !.ssl = "handshaking"] \/ h = d
  <2>1. /\ h.sock = c.sock /\ h.handshakeDone = c.handshakeDone
        /\ h.wire = c.wire /\ h.pending = c.pending
    BY <1>2, <1>5 DEF Clients
  <2> QED
    BY <2>1 DEF Outbound, Phase, h
<1> QED
  BY <1>3, <1>4, <1>5

(* The end of the TLS handshake opens it.                                  *)
LEMMA EncryptedPipe ==
  ASSUME NEW c, NEW s, ClientRecordInv(c, s),
         c.sock = "connected", c.ssl = "handshaking"
  PROVE  /\ OnEncrypted(c).sock = c.sock
         /\ Outbound(OnEncrypted(c)) = Outbound(c)
         /\ Phase(OnEncrypted(c)) = "up"
<1> DEFINE d == [c EXCEPT !.ssl = "secure", !.encrypted = TRUE]
<1>1. /\ c \in Clients /\ c.wire = <<>>
  BY DEF ClientRecordInv, Coherent, GreetsFirst
<1>2. /\ d \in Clients /\ d.sock = c.sock /\ d.wire = c.wire
      /\ d.pending = c.pending
  BY <1>1 DEF Clients
<1>3. OnEncrypted(c) = CompleteHandshake(d)
  BY DEF OnEncrypted
<1> HIDE DEF d
<1>4. Outbound(c) = c.pending
  <2>1. Said(c.wire) = <<>> /\ <<>> \o c.pending = c.pending
    BY <1>1 DEF Said, Clients, Queues
  <2> QED
    BY <2>1 DEF Outbound
<1> QED
  BY <1>1, <1>2, <1>3, <1>4, GreetPipe

(* A request: a subscription and a publication, behind all that was said.  *)
LEMMA RequestPipe ==
  ASSUME ClientInv, Request
  PROVE  LET sub == [verb |-> "SUB", sid |-> nc.nextSid, inbox |-> Inbox(nc)]
             pub == [verb |-> "PUB", inbox |-> Inbox(nc)]
         IN /\ nc'.sock = nc.sock /\ Phase(nc') = Phase(nc)
            /\ nc'.prefix = nc.prefix
            /\ sub \in Commands /\ pub \in Commands
            /\ Outbound(nc') = IF nc.sock = "unconnected" THEN <<>>
                               ELSE Append(Append(Outbound(nc), sub), pub)
<1> DEFINE inbox == Inbox(nc)
           n == NewInbox(nc)
           m == [n EXCEPT !.nextSid = @ + 1]
           sub == [verb |-> "SUB", sid |-> nc.nextSid, inbox |-> inbox]
           pub == [verb |-> "PUB", inbox |-> inbox]
           w == Write(m, sub)
<1>1. nc \in Clients /\ inbox \in Inboxes /\ nc.nextSid \in Nat
  BY Numbers DEF ClientInv, ClientTypeOK, Clients, Inbox, Inboxes
<1>2. sub \in Commands /\ pub \in Commands
      /\ sub.verb # "CONNECT" /\ pub.verb # "CONNECT"
  BY <1>1 DEF Commands
<1>3. /\ ClientRecordInv(n, server) /\ n \in Clients
      /\ n.nextSid = nc.nextSid /\ n.prefix = nc.prefix
  BY CountersInv DEF ClientInv, ClientRecordInv
<1>4. n.sock = nc.sock /\ n.handshakeDone = nc.handshakeDone
      /\ n.wire = nc.wire /\ n.pending = nc.pending
  BY <1>1 DEF NewInbox, Clients
<1>5. nc' = Write(w, pub)
  BY <1>3 DEF Request, Publish, Subscribe
<1> HIDE DEF n
<1>6. ClientRecordInv(m, server) /\ m.prefix = n.prefix
  BY <1>3, CountersInv DEF Clients
<1>7. m.sock = nc.sock /\ m.handshakeDone = nc.handshakeDone
      /\ m.wire = nc.wire /\ m.pending = nc.pending
  BY <1>3, <1>4 DEF Clients
<1> HIDE DEF m, sub, pub
<1>8. Outbound(m) = Outbound(nc) /\ Phase(m) = Phase(nc)
  BY <1>7 DEF Outbound, Phase
<1>9. /\ ClientRecordInv(w, server) /\ w.prefix = m.prefix
      /\ w.sock = m.sock /\ Phase(w) = Phase(m)
      /\ Outbound(w) = IF m.sock = "unconnected" THEN <<>>
                       ELSE Append(Outbound(m), sub)
  BY <1>2, <1>6, WriteInv, WritePipe
<1> HIDE DEF w
<1>10. /\ nc'.prefix = w.prefix /\ nc'.sock = w.sock /\ Phase(nc') = Phase(w)
       /\ Outbound(nc') = IF w.sock = "unconnected" THEN <<>>
                          ELSE Append(Outbound(w), pub)
  BY <1>2, <1>5, <1>9, WriteInv, WritePipe
<1> QED
  BY <1>2, <1>3, <1>6, <1>7, <1>8, <1>9, <1>10 DEF sub, pub
------------------------------------------------------------------------------
(* The subscriptions the server will have seen: what each SUB and UNSUB    *)
(* that the connection was given is about.                                 *)
LEMMA NamedAppend ==
  ASSUME NEW q \in Queues, NEW cmd \in Commands, NEW verb
  PROVE  Named(Append(q, cmd), verb) =
           Named(q, verb) \cup (IF cmd.verb = verb THEN {cmd.sid} ELSE {})
<1> DEFINE r == Append(q, cmd)
<1>1. /\ Len(q) \in Nat /\ DOMAIN q = 1 .. Len(q) /\ DOMAIN r = 1 .. Len(q) + 1
      /\ \A i \in DOMAIN q : r[i] = q[i]
      /\ r[Len(q) + 1] = cmd
  BY DEF Queues
<1> HIDE DEF r
<1>2. \A i : i \in DOMAIN r <=> i \in DOMAIN q \/ i = Len(q) + 1
  BY <1>1
<1>3. Len(q) + 1 \notin DOMAIN q
  BY <1>1
<1>4. Named(r, verb) = {r[i].sid : i \in {j \in DOMAIN r : r[j].verb = verb}}
  BY DEF Named
<1>5. \A sid : sid \in Named(r, verb) <=>
               \E i \in DOMAIN r : r[i].verb = verb /\ sid = r[i].sid
  BY <1>4
<1>6. \A sid : sid \in Named(q, verb) <=>
               \E i \in DOMAIN q : q[i].verb = verb /\ sid = q[i].sid
  BY DEF Named
<1>7. \A sid : sid \in Named(r, verb) <=>
               sid \in Named(q, verb) \/ (cmd.verb = verb /\ sid = cmd.sid)
  BY <1>1, <1>2, <1>5, <1>6
<1> QED
  BY <1>7 DEF r

LEMMA NamedEmpty == \A verb : Named(<<>>, verb) = {}
BY DEF Named

(* Every SUB is of a listener of this connection, and every UNSUB of one   *)
(* that ended; of this connection's own, all that ended are among them.    *)
Registered ==
  /\ \A o \in DOMAIN owners : owners[o].dial <= nc.prefix
  /\ nc.sock # "unconnected" =>
       /\ nc.prefix # 0
       /\ Named(Outbound(nc), "SUB") = {owners[o].sid : o \in Asked}
       /\ \A o \in Asked :
            owners[o].sid \in Named(Outbound(nc), "UNSUB") <=> ~ owners[o].open
       /\ Named(Outbound(nc), "UNSUB") \subseteq
            {owners[o].sid : o \in DOMAIN owners}

LEMMA RegisteredRegistry == Registered => ServerRegistry
<1> SUFFICES ASSUME Registered, nc.sock # "unconnected"
             PROVE  Named(Outbound(nc), "SUB") \ Named(Outbound(nc), "UNSUB")
                      = {owners[o].sid : o \in {p \in Asked : owners[p].open}}
  BY DEF ServerRegistry
<1>1. /\ Named(Outbound(nc), "SUB") = {owners[o].sid : o \in Asked}
      /\ \A o \in Asked :
           owners[o].sid \in Named(Outbound(nc), "UNSUB") <=> ~ owners[o].open
  BY DEF Registered
<1> QED
  BY <1>1

(* A step that says nothing of its own: signals and lines of the server.   *)
LEMMA SameRegistered ==
  ASSUME Registered, UNCHANGED owners, nc'.prefix = nc.prefix,
         \/ nc'.sock = "unconnected"
         \/ /\ nc.sock # "unconnected"
            /\ \A verb \in {"SUB", "UNSUB"} :
                 Named(Outbound(nc'), verb) = Named(Outbound(nc), verb)
  PROVE  Registered'
<1>1. Asked' = Asked
  BY DEF Asked
<1>2. \A o \in DOMAIN owners' : owners'[o].dial <= nc'.prefix
  BY DEF Registered
<1>3. CASE nc'.sock = "unconnected"
  BY <1>2, <1>3 DEF Registered
<1>4. CASE nc'.sock # "unconnected"
  <2>1. /\ nc.sock # "unconnected"
        /\ Named(Outbound(nc'), "SUB") = Named(Outbound(nc), "SUB")
        /\ Named(Outbound(nc'), "UNSUB") = Named(Outbound(nc), "UNSUB")
    BY <1>4
  <2> QED
    BY <1>1, <1>2, <2>1 DEF Registered
<1> QED
  BY <1>3, <1>4

LEMMA OwnerTypes ==
  ASSUME ClientInv, NEW o \in DOMAIN owners
  PROVE  /\ owners[o] \in Listeners /\ owners[o].dial \in Nat
         /\ owners[o].sid \in Nat /\ owners[o].sid < nc.nextSid
<1>1. owners[o] \in Listeners
  BY DEF ClientInv, ClientTypeOK
<1> QED
  BY <1>1, Numbers DEF Listeners, ClientInv, BelowCounters

LEMMA RequestRegistered ==
  ASSUME ClientInv, Registered, Request
  PROVE  Registered'
<1> DEFINE q == Outbound(nc)
           sub == [verb |-> "SUB", sid |-> nc.nextSid, inbox |-> Inbox(nc)]
           pub == [verb |-> "PUB", inbox |-> Inbox(nc)]
           new == Len(owners) + 1
           row == [sid |-> nc.nextSid, inbox |-> Inbox(nc), open |-> TRUE,
                   dial |-> IF nc.sock = "unconnected" THEN 0 ELSE nc.prefix]
<1>1. /\ nc'.sock = nc.sock /\ nc'.prefix = nc.prefix
      /\ sub \in Commands /\ pub \in Commands
      /\ Outbound(nc') = IF nc.sock = "unconnected" THEN <<>>
                         ELSE Append(Append(q, sub), pub)
  BY RequestPipe
<1>2. nc.prefix \in Nat /\ nc.nextSid \in Nat
  BY Numbers DEF ClientInv, ClientTypeOK, Clients
<1>3. owners' = Append(owners, row) /\ owners \in Seq(Listeners)
  BY DEF Request, ClientInv, ClientTypeOK
<1>4. /\ row.sid = nc.nextSid /\ row.open = TRUE
      /\ row.dial = IF nc.sock = "unconnected" THEN 0 ELSE nc.prefix
  OBVIOUS
<1> HIDE DEF row
<1>5. /\ Len(owners) \in Nat /\ DOMAIN owners = 1 .. Len(owners)
      /\ DOMAIN owners' = DOMAIN owners \cup {new} /\ new \notin DOMAIN owners
      /\ \A o \in DOMAIN owners : owners'[o] = owners[o]
      /\ owners'[new] = row
  BY <1>3
<1> HIDE DEF new
<1>6. \A o \in DOMAIN owners' : owners'[o].dial <= nc'.prefix
  BY <1>1, <1>2, <1>4, <1>5 DEF Registered
<1>7. CASE nc.sock = "unconnected"
  BY <1>1, <1>6, <1>7 DEF Registered
<1>8. CASE nc.sock # "unconnected"
  <2>1. Asked' = Asked \cup {new}
    BY <1>1, <1>4, <1>5, <1>8 DEF Asked
  <2>2. q \in Queues /\ Append(q, sub) \in Queues
    <3>1. q \in Queues
      BY OutboundTypes DEF ClientInv
    <3> HIDE DEF q, sub
    <3> QED
      BY <1>1, <3>1 DEF Queues
  <2>3. sub.verb = "SUB" /\ sub.sid = nc.nextSid /\ pub.verb = "PUB"
    OBVIOUS
  <2> HIDE DEF q, sub, pub
  <2>4. /\ Named(Outbound(nc'), "SUB") = Named(q, "SUB") \cup {nc.nextSid}
        /\ Named(Outbound(nc'), "UNSUB") = Named(q, "UNSUB")
    <3>1. \A verb \in {"SUB", "UNSUB"} :
            /\ Named(Append(q, sub), verb) =
                 Named(q, verb) \cup (IF sub.verb = verb THEN {sub.sid} ELSE {})
            /\ Named(Append(Append(q, sub), pub), verb) =
                 Named(Append(q, sub), verb)
                   \cup (IF pub.verb = verb THEN {pub.sid} ELSE {})
      BY <1>1, <2>2, NamedAppend
    <3>2. Outbound(nc') = Append(Append(q, sub), pub)
      BY <1>1, <1>8 DEF q, sub, pub
    <3> QED
      BY <2>3, <3>1, <3>2
  <2>5. /\ nc.prefix # 0 /\ Named(q, "SUB") = {owners[o].sid : o \in Asked}
        /\ \A o \in Asked : owners[o].sid \in Named(q, "UNSUB") <=> ~ owners[o].open
        /\ Named(q, "UNSUB") \subseteq {owners[o].sid : o \in DOMAIN owners}
    BY <1>8 DEF Registered, q
  <2>6. nc.nextSid \notin Named(q, "UNSUB")
    BY <1>2, <2>5, OwnerTypes
  <2>7. Asked \subseteq DOMAIN owners
    BY DEF Asked
  <2>8. {owners'[o].sid : o \in Asked'} = {owners[o].sid : o \in Asked} \cup {nc.nextSid}
    BY <1>4, <1>5, <2>1, <2>7
  <2>9. \A o \in Asked' :
          owners'[o].sid \in Named(q, "UNSUB") <=> ~ owners'[o].open
    BY <1>4, <1>5, <2>1, <2>5, <2>6, <2>7
  <2>10. Named(q, "UNSUB") \subseteq {owners'[o].sid : o \in DOMAIN owners'}
    BY <1>5, <2>5
  <2> QED
    BY <1>1, <1>6, <2>4, <2>5, <2>8, <2>9, <2>10 DEF Registered
<1> QED
  BY <1>7, <1>8

LEMMA ReleaseRegistered ==
  ASSUME ClientInv, Registered, NEW o \in DOMAIN owners, Release(o)
  PROVE  Registered'
<1> DEFINE q == Outbound(nc)
           unsub == [verb |-> "UNSUB", sid |-> owners[o].sid]
<1>1. unsub \in Commands /\ unsub.verb = "UNSUB" /\ unsub.sid = owners[o].sid
  BY OwnerTypes DEF Commands
<1>2. nc' = Write(nc, unsub)
  BY DEF Release, Unsubscribe
<1> HIDE DEF unsub
<1>3. /\ nc'.sock = nc.sock /\ nc'.prefix = nc.prefix
      /\ Outbound(nc') = IF nc.sock = "unconnected" THEN <<>> ELSE Append(q, unsub)
  BY <1>1, <1>2, WriteInv, WritePipe DEF ClientInv
<1>4. /\ DOMAIN owners' = DOMAIN owners
      /\ \A p \in DOMAIN owners :
           /\ owners'[p].sid = owners[p].sid /\ owners'[p].dial = owners[p].dial
           /\ owners'[p].open = IF p = o THEN FALSE ELSE owners[p].open
  <2>1. owners' = [owners EXCEPT ![o] = [owners[o] EXCEPT !.open = FALSE]]
    BY DEF Release
  <2>2. owners[o] \in Listeners /\ owners \in Seq(Listeners)
    BY DEF ClientInv, ClientTypeOK
  <2>3. /\ [owners[o] EXCEPT !.open = FALSE].sid = owners[o].sid
        /\ [owners[o] EXCEPT !.open = FALSE].dial = owners[o].dial
        /\ [owners[o] EXCEPT !.open = FALSE].open = FALSE
    BY <2>2 DEF Listeners
  <2> QED
    BY <2>1, <2>2, <2>3
<1>5. \A p \in DOMAIN owners' : owners'[p].dial <= nc'.prefix
  BY <1>3, <1>4 DEF Registered
<1>6. CASE nc.sock = "unconnected"
  BY <1>3, <1>5, <1>6 DEF Registered
<1>7. CASE nc.sock # "unconnected"
  <2>1. Asked' = Asked /\ Asked \subseteq DOMAIN owners
    BY <1>3, <1>4 DEF Asked
  <2>2. q \in Queues
    BY OutboundTypes DEF ClientInv
  <2> HIDE DEF q
  <2>3. /\ Named(Outbound(nc'), "SUB") = Named(q, "SUB")
        /\ Named(Outbound(nc'), "UNSUB") = Named(q, "UNSUB") \cup {owners[o].sid}
    <3>1. \A verb \in {"SUB", "UNSUB"} :
            Named(Append(q, unsub), verb) =
              Named(q, verb) \cup (IF unsub.verb = verb THEN {unsub.sid} ELSE {})
      BY <1>1, <2>2, NamedAppend
    <3>2. Outbound(nc') = Append(q, unsub)
      BY <1>3, <1>7 DEF q
    <3> QED
      BY <1>1, <3>1, <3>2
  <2>4. /\ nc.prefix # 0 /\ Named(q, "SUB") = {owners[p].sid : p \in Asked}
        /\ \A p \in Asked : owners[p].sid \in Named(q, "UNSUB") <=> ~ owners[p].open
        /\ Named(q, "UNSUB") \subseteq {owners[p].sid : p \in DOMAIN owners}
    BY <1>7 DEF Registered, q
  <2>5. \A p \in DOMAIN owners : p # o => owners[p].sid # owners[o].sid
    BY DEF ClientInv, NeverReused
  <2>6. {owners'[p].sid : p \in Asked'} = {owners[p].sid : p \in Asked}
    BY <1>4, <2>1
  <2>7. \A p \in Asked' : owners'[p].sid \in Named(q, "UNSUB") \cup {owners[o].sid}
                          <=> ~ owners'[p].open
    BY <1>4, <2>1, <2>4, <2>5
  <2>8. Named(q, "UNSUB") \cup {owners[o].sid}
          \subseteq {owners'[p].sid : p \in DOMAIN owners'}
    <3>1. {owners'[p].sid : p \in DOMAIN owners'} = {owners[p].sid : p \in DOMAIN owners}
      BY <1>4
    <3> QED
      BY <2>4, <3>1
  <2> QED
    BY <1>3, <1>5, <2>3, <2>4, <2>6, <2>7, <2>8 DEF Registered
<1> QED
  BY <1>6, <1>7

LEMMA DialRegistered ==
  ASSUME ClientInv, Registered, NEW tls \in BOOLEAN,
         NEW creds \in {"none", "good", "bad"}, ConnectToServer(tls, creds)
  PROVE  Registered'
<1>1. /\ nc'.prefix = nc.prefix + 1 /\ Outbound(nc') = <<>> /\ owners' = owners
  BY ConnectToInv, DialPipe DEF ClientInv, ConnectToServer
<1>2. nc.prefix \in Nat
  BY Numbers DEF ClientInv, ClientTypeOK, Clients
<1>3. \A o \in DOMAIN owners : owners[o].dial <= nc.prefix /\ owners[o].dial \in Nat
  BY OwnerTypes DEF Registered
<1>4. /\ nc'.prefix # 0
      /\ \A o \in DOMAIN owners' :
           owners'[o].dial <= nc'.prefix /\ owners'[o].dial # nc'.prefix
  BY <1>1, <1>2, <1>3
<1>5. Asked' = {}
  BY <1>4 DEF Asked
<1>6. Named(Outbound(nc'), "SUB") = {} /\ Named(Outbound(nc'), "UNSUB") = {}
  BY <1>1, NamedEmpty
<1> QED
  BY <1>4, <1>5, <1>6 DEF Registered

(* The lines and signals of the network, and the answers to pings.         *)
LEMMA NetworkRegistered ==
  ASSUME ClientInv, Registered, Network \/ ReceivePing
  PROVE  Registered'
<1>1. ClientRecordInv(nc, server) /\ nc \in Clients
  BY DEF ClientInv, ClientTypeOK
<1>2. CASE SocketConnected
  <2>1. nc.sock = "connecting" /\ nc' = [nc EXCEPT !.sock = "connected"]
    BY <1>2 DEF SocketConnected
  <2>2. Outbound(nc') = Outbound(nc) /\ nc'.prefix = nc.prefix
    BY <1>1, <2>1 DEF Outbound, Clients
  <2> QED
    BY <1>2, <2>1, <2>2, SameRegistered DEF SocketConnected
<1>3. CASE SocketRefused
  <2>1. nc'.sock = "unconnected" /\ nc'.prefix = nc.prefix
    BY <1>1, <1>3 DEF SocketRefused, Clients
  <2> QED
    BY <1>3, <2>1, SameRegistered DEF SocketRefused
<1>4. ASSUME NEW wantsTls \in BOOLEAN, ReceiveInfo(wantsTls)
      PROVE  Registered'
  <2>1. /\ nc.sock = "connected" /\ nc.ssl # "handshaking"
        /\ nc' = HandleInfo(nc, wantsTls) /\ owners' = owners
        /\ server' = IF wantsTls THEN "tls" ELSE "plain"
        /\ server \in {"silent", server'}
    BY <1>4 DEF ReceiveInfo, LineArrives
  <2>2. nc'.prefix = nc.prefix
    BY <1>1, <2>1, HandleInfoInv
  <2>3. Outbound(nc') = Outbound(nc)
    BY <1>1, <2>1, InfoPipe
  <2> QED
    BY <2>1, <2>2, <2>3, SameRegistered
<1>5. CASE Encrypted
  <2>1. /\ nc.sock = "connected" /\ nc.ssl = "handshaking"
        /\ nc' = OnEncrypted(nc) /\ owners' = owners
    BY <1>5 DEF Encrypted
  <2>2. Outbound(nc') = Outbound(nc) /\ nc'.prefix = nc.prefix
    BY <1>1, <2>1, OnEncryptedInv, EncryptedPipe
  <2> QED
    BY <2>1, <2>2, SameRegistered
<1>6. CASE Disconnected
  <2>1. nc'.sock = "unconnected" /\ nc'.prefix = nc.prefix
    BY <1>1, <1>6 DEF Disconnected, OnDisconnected, Clients
  <2> QED
    BY <1>6, <2>1, SameRegistered DEF Disconnected
<1>7. CASE ReceivePing
  <2> DEFINE pong == [verb |-> "PONG"]
  <2>1. /\ nc.sock = "connected" /\ nc.ssl # "handshaking" /\ server # "silent"
        /\ nc' = SocketWrite(nc, pong) /\ owners' = owners
    BY <1>7 DEF ReceivePing, LineArrives
  <2>2. nc.handshakeDone
    BY <1>1, <2>1 DEF ClientRecordInv, Coherent, Clients
  <2>3. nc' = Write(nc, pong) /\ pong \in Commands /\ pong.verb = "PONG"
    BY <2>1, <2>2 DEF Write, Commands
  <2> HIDE DEF pong
  <2>4. Outbound(nc') = Append(Outbound(nc), pong) /\ nc'.prefix = nc.prefix
    BY <1>1, <2>1, <2>3, WriteInv, WritePipe
  <2>5. Outbound(nc) \in Queues
    BY <1>1, OutboundTypes
  <2>6. \A verb \in {"SUB", "UNSUB"} :
          Named(Outbound(nc'), verb) = Named(Outbound(nc), verb)
    <3>1. \A verb \in {"SUB", "UNSUB"} :
            Named(Append(Outbound(nc), pong), verb) =
              Named(Outbound(nc), verb)
                \cup (IF pong.verb = verb THEN {pong.sid} ELSE {})
      BY <2>3, <2>5, NamedAppend
    <3> QED
      BY <2>3, <2>4, <3>1
  <2> QED
    BY <2>1, <2>4, <2>6, SameRegistered
<1> QED
  BY <1>2, <1>3, <1>4, <1>5, <1>6, <1>7 DEF Network

(* What the server holds, once it has read all, is what the listeners of   *)
(* the connection expect: no subscription is lost and none left behind, in *)
(* any order of requests, releases, drops and redials.                     *)
THEOREM ServerHoldsListeners == ClientSpec => []ServerRegistry
<1>1. ClientInit => Registered
  BY DEF ClientInit, Registered, NewClient
<1>2. ClientInv /\ Registered /\ [ClientNext]_clientVars => Registered'
  <2> SUFFICES ASSUME ClientInv, Registered, [ClientNext]_clientVars
               PROVE  Registered'
    OBVIOUS
  <2>1. CASE UNCHANGED clientVars
    BY <2>1, SameRegistered DEF clientVars
  <2> QED
    BY <2>1, DialRegistered, NetworkRegistered, RequestRegistered, ReleaseRegistered
    DEF ClientNext
<1> QED
  BY <1>1, <1>2, RegisteredRegistry, ClientInvariant, PTL DEF ClientSpec
------------------------------------------------------------------------------
LEMMA AppendedPrefix ==
  ASSUME NEW q \in Queues, NEW cmd \in Commands
  PROVE  Pipe!IsPrefix(q, Append(q, cmd))
BY DEF Queues, Pipe!IsPrefix

LEMMA AppendedPrefixTwice ==
  ASSUME NEW q \in Queues, NEW cmd \in Commands, NEW cmd2 \in Commands
  PROVE  Pipe!IsPrefix(q, Append(Append(q, cmd), cmd2))
BY DEF Queues, Pipe!IsPrefix

(* Each step of the client is one of the pipe, or none of its business.    *)
LEMMA PipeStep ==
  ASSUME ClientInv, [ClientNext]_clientVars, ClientInv'
  PROVE  [Pipe!PipeNext]_(Pipe!pipeVars)
<1>1. /\ ClientRecordInv(nc, server) /\ nc \in Clients
      /\ ClientRecordInv(nc', server')
  BY DEF ClientInv, ClientTypeOK
<1>2. /\ Said(nc.wire) = IF Phase(nc) = "up" THEN Outbound(nc) ELSE <<>>
      /\ Phase(nc) = "down" => Outbound(nc) = <<>>
      /\ Outbound(nc) \in Queues
  BY <1>1, OutboundTypes
<1>3. /\ Said(nc'.wire) = IF Phase(nc') = "up" THEN Outbound(nc') ELSE <<>>
      /\ Phase(nc') = "down" => Outbound(nc') = <<>>
  BY <1>1, OutboundTypes
(* The four ways on: a stutter, and the actions of the pipe.               *)
<1>4. CASE Phase(nc') = Phase(nc) /\ Outbound(nc') = Outbound(nc)
  BY <1>2, <1>3, <1>4 DEF Pipe!pipeVars
<1>5. CASE Phase(nc') = "dialing" /\ Outbound(nc') = <<>>
  BY <1>3, <1>5 DEF Pipe!PipeNext, Pipe!Dial
<1>6. CASE Phase(nc') = "down"
  <2>1. CASE Phase(nc) = "down"
    BY <1>2, <1>3, <1>4, <1>6, <2>1
  <2>2. CASE Phase(nc) # "down"
    BY <1>3, <1>6, <2>2 DEF Pipe!PipeNext, Pipe!Drop
  <2> QED
    BY <2>1, <2>2
<1>7. CASE Phase(nc) = "dialing" /\ Phase(nc') = "up" /\ Outbound(nc') = Outbound(nc)
  BY <1>3, <1>7 DEF Pipe!PipeNext, Pipe!Open
<1>8. CASE /\ Phase(nc) # "down" /\ Phase(nc') = Phase(nc)
           /\ Pipe!IsPrefix(Outbound(nc), Outbound(nc'))
  BY <1>2, <1>3, <1>8 DEF Pipe!PipeNext, Pipe!Accept
(* And which of them each action of the client takes.                      *)
<1>9. ASSUME NEW tls \in BOOLEAN, NEW creds \in {"none", "good", "bad"},
             ConnectToServer(tls, creds)
      PROVE  Phase(nc') = "dialing" /\ Outbound(nc') = <<>>
  BY <1>1, <1>9, DialPipe DEF ConnectToServer
<1>10. ASSUME SocketConnected
       PROVE  Phase(nc') = Phase(nc) /\ Outbound(nc') = Outbound(nc)
  BY <1>1, <1>10 DEF SocketConnected, Clients, Phase, Outbound
<1>11. ASSUME SocketRefused \/ Disconnected
       PROVE  Phase(nc') = "down"
  BY <1>1, <1>11 DEF SocketRefused, Disconnected, OnDisconnected, Clients, Phase
<1>12. ASSUME NEW wantsTls \in BOOLEAN, ReceiveInfo(wantsTls)
       PROVE  /\ Phase(nc) # "down" /\ Outbound(nc') = Outbound(nc)
              /\ Phase(nc') \in {Phase(nc), "up"}
  <2>1. /\ nc.sock = "connected" /\ nc.ssl # "handshaking"
        /\ nc' = HandleInfo(nc, wantsTls)
    BY <1>12 DEF ReceiveInfo, LineArrives
  <2>2. Phase(nc) # "down"
    BY <2>1 DEF Phase
  <2> QED
    BY <1>1, <2>1, <2>2, InfoPipe
<1>13. ASSUME Encrypted
       PROVE  /\ Phase(nc) = "dialing" /\ Phase(nc') = "up"
              /\ Outbound(nc') = Outbound(nc)
  <2>1. /\ nc.sock = "connected" /\ nc.ssl = "handshaking" /\ nc' = OnEncrypted(nc)
    BY <1>13 DEF Encrypted
  <2>2. Phase(nc) = "dialing"
    BY <1>1, <2>1 DEF ClientRecordInv, Coherent, Phase
  <2> QED
    BY <1>1, <2>1, <2>2, EncryptedPipe
<1>14. ASSUME NEW cmd \in Commands, cmd.verb # "CONNECT", nc' = Write(nc, cmd)
       PROVE  /\ Phase(nc') = Phase(nc)
              /\ \/ Outbound(nc') = <<>> /\ Phase(nc) = "down"
                 \/ Pipe!IsPrefix(Outbound(nc), Outbound(nc'))
  <2>1. /\ Phase(nc') = Phase(nc)
        /\ Outbound(nc') = IF nc.sock = "unconnected" THEN <<>>
                           ELSE Append(Outbound(nc), cmd)
    BY <1>1, <1>14, WritePipe
  <2>2. CASE nc.sock = "unconnected"
    BY <2>1, <2>2 DEF Phase
  <2>3. CASE nc.sock # "unconnected"
    BY <1>2, <2>1, <2>3, AppendedPrefix
  <2> QED
    BY <2>1, <2>2, <2>3
<1>15. CASE ReceivePing
  <2> DEFINE pong == [verb |-> "PONG"]
  <2>1. nc' = Write(nc, pong)
    BY <1>1, <1>15 DEF ReceivePing, LineArrives, ClientRecordInv, Coherent, Clients, Write
  <2>2. pong \in Commands /\ pong.verb # "CONNECT"
    BY DEF Commands
  <2> HIDE DEF pong
  <2> QED
    BY <1>2, <1>3, <1>4, <1>8, <1>14, <2>1, <2>2
<1>16. ASSUME NEW o \in DOMAIN owners, Release(o)
       PROVE  [Pipe!PipeNext]_(Pipe!pipeVars)
  <2> DEFINE unsub == [verb |-> "UNSUB", sid |-> owners[o].sid]
  <2>1. nc' = Write(nc, unsub)
    BY <1>16 DEF Release, Unsubscribe
  <2>2. unsub \in Commands /\ unsub.verb # "CONNECT"
    BY OwnerTypes DEF Commands
  <2> HIDE DEF unsub
  <2> QED
    BY <1>2, <1>3, <1>4, <1>8, <1>14, <2>1, <2>2
<1>17. CASE Request
  <2> DEFINE sub == [verb |-> "SUB", sid |-> nc.nextSid, inbox |-> Inbox(nc)]
             pub == [verb |-> "PUB", inbox |-> Inbox(nc)]
  <2>1. /\ Phase(nc') = Phase(nc) /\ sub \in Commands /\ pub \in Commands
        /\ Outbound(nc') = IF nc.sock = "unconnected" THEN <<>>
                           ELSE Append(Append(Outbound(nc), sub), pub)
    BY <1>17, RequestPipe
  <2> HIDE DEF sub, pub
  <2>2. CASE nc.sock = "unconnected"
    <3>1. Phase(nc) = "down"
      BY <2>2 DEF Phase
    <3> QED
      BY <1>6, <2>1, <3>1
  <2>3. CASE nc.sock # "unconnected"
    <3>1. Phase(nc) # "down"
      BY <2>3 DEF Phase
    <3> QED
      BY <1>2, <1>8, <2>1, <2>3, <3>1, AppendedPrefixTwice
  <2> QED
    BY <2>2, <2>3
<1>18. CASE UNCHANGED clientVars
  BY <1>4, <1>18 DEF clientVars
<1>19. Phase(nc) \in {"down", "dialing", "up"}
  BY DEF Phase
<1>20. CASE \E wantsTls \in BOOLEAN : ReceiveInfo(wantsTls)
  BY <1>4, <1>7, <1>12, <1>19, <1>20
<1> QED
  BY <1>4, <1>5, <1>6, <1>7, <1>9, <1>10, <1>11, <1>13, <1>15, <1>16, <1>17,
     <1>18, <1>20
  DEF ClientNext, Network

(* The client is the pipe that INatsConnection.h promises: what is         *)
(* accepted for a connection is sent on it and no other, once, in order.   *)
THEOREM ClientIsPipe == ClientSpec => ImplementsPipe
<1>1. ClientInit => Pipe!PipeInit
  BY DEF ClientInit, NewClient, Pipe!PipeInit, Phase, Outbound, Said
<1> QED
  BY <1>1, PipeStep, ClientInvariant, PTL
  DEF ClientSpec, ImplementsPipe, Pipe!PipeSpec

------------------------------------------------------------------------------
(* The frame parser. A frame is a line of one byte of text with its line   *)
(* end, and a message's payload with a line end after it.                  *)
Frames == {f \in [headers : Seq(Bytes), payload : Seq(Bytes), line : BOOLEAN] :
             Len(f.headers) + Len(f.payload) <= MaxPayload}
Total(f) == Len(f.headers) + Len(f.payload)
Verb(f) == IF f.line THEN Text ELSE Msg(Len(f.headers), Total(f))

LEMMA FrameTypes ==
  ASSUME NEW f \in Frames
  PROVE  /\ f.headers \in Seq(Bytes) /\ f.payload \in Seq(Bytes)
         /\ f.line \in BOOLEAN /\ MaxPayload \in Nat
         /\ Len(f.headers) \in 0 .. MaxPayload /\ Len(f.payload) \in 0 .. MaxPayload
         /\ Total(f) \in 0 .. MaxPayload /\ Len(f.headers) <= Total(f)
         /\ Verb(f) \in Bytes
<1>1. /\ f.headers \in Seq(Bytes) /\ f.payload \in Seq(Bytes)
      /\ f.line \in BOOLEAN /\ MaxPayload \in Nat /\ Total(f) <= MaxPayload
  BY FrameAssumption DEF Frames, Total
<1>2. Len(f.headers) \in Nat /\ Len(f.payload) \in Nat
  BY <1>1
<1>3. /\ Len(f.headers) \in 0 .. MaxPayload /\ Len(f.payload) \in 0 .. MaxPayload
      /\ Total(f) \in 0 .. MaxPayload /\ Len(f.headers) <= Total(f)
  <2> DEFINE h == Len(f.headers)
             p == Len(f.payload)
             t == Total(f)
  <2>1. h \in Nat /\ p \in Nat /\ t = h + p /\ t <= MaxPayload /\ MaxPayload \in Nat
    BY <1>1, <1>2 DEF Total
  <2> HIDE DEF h, p, t
  <2>2. h \in 0 .. MaxPayload /\ p \in 0 .. MaxPayload /\ t \in 0 .. MaxPayload /\ h <= t
    BY <2>1
  <2> QED BY <2>2 DEF h, p, t
<1>4. Verb(f) \in Bytes
  <2>1. Verb(f) = Text \/ Verb(f) = Msg(Len(f.headers), Total(f))
    BY DEF Verb
  <2>2. Text \in Bytes
    BY DEF Bytes
  <2>3. Msg(Len(f.headers), Total(f)) \in Bytes
    BY <1>3 DEF Bytes
  <2> QED BY <2>1, <2>2, <2>3
<1> QED BY <1>1, <1>3, <1>4

(* Two sequences one behind the other.                                     *)
LEMMA Joined ==
  ASSUME NEW S, NEW a \in Seq(S), NEW b \in Seq(S)
  PROVE  /\ a \o b \in Seq(S) /\ Len(a \o b) = Len(a) + Len(b)
         /\ \A i \in 1 .. Len(a) : (a \o b)[i] = a[i]
         /\ \A i \in 1 .. Len(b) : (a \o b)[Len(a) + i] = b[i]
<1> DEFINE c == a \o b
           m == Len(a)
           n == Len(b)
<1>1. /\ c \in Seq(S) /\ Len(c) = m + n
      /\ \A i \in 1 .. m + n : c[i] = IF i <= m THEN a[i] ELSE b[i - m]
  BY ConcatProperties
<1>2. m \in Nat /\ n \in Nat
  OBVIOUS
<1> HIDE DEF c, m, n
<1>3. \A i \in 1 .. m : c[i] = a[i]
  BY <1>1, <1>2
<1>4. \A i \in 1 .. n : c[m + i] = b[i]
  <2>1. \A i \in 1 .. n : m + i \in 1 .. m + n /\ ~ m + i <= m /\ (m + i) - m = i
    BY <1>2
  <2> QED BY <1>1, <2>1
<1> QED BY <1>1, <1>3, <1>4 DEF c, m, n

(* The bytes of a frame: its line, the line end, and what follows.         *)
LEMMA EncodedFrame ==
  ASSUME NEW f \in Frames
  PROVE  /\ Encode(f) \in Seq(Bytes)
         /\ Len(Encode(f)) = IF f.line THEN 3 ELSE 3 + Total(f) + 2
         /\ Encode(f)[1] = Verb(f) /\ Encode(f)[2] = CR /\ Encode(f)[3] = LF
         /\ ~ f.line =>
              /\ \A i \in 1 .. Len(f.headers) : Encode(f)[3 + i] = f.headers[i]
              /\ \A i \in 1 .. Len(f.payload) :
                   Encode(f)[3 + Len(f.headers) + i] = f.payload[i]
<1>1. /\ f.headers \in Seq(Bytes) /\ f.payload \in Seq(Bytes)
      /\ f.line \in BOOLEAN /\ Verb(f) \in Bytes
  BY FrameTypes
<1>2. CRLF \in Seq(Bytes) /\ Len(CRLF) = 2 /\ CRLF[1] = CR /\ CRLF[2] = LF
  BY DEF CRLF, Bytes
<1> DEFINE x == f.headers
           y == f.payload
           m == Len(x)
           n == Len(y)
           v == <<Verb(f)>>
           a == v \o CRLF
           b == a \o x
           c == b \o y
           d == c \o CRLF
<1>3. v \in Seq(Bytes) /\ Len(v) = 1 /\ v[1] = Verb(f)
  BY <1>1
<1>4. x \in Seq(Bytes) /\ y \in Seq(Bytes) /\ m \in Nat /\ n \in Nat
  BY <1>1
<1>5. Total(f) = m + n
  BY DEF Total
<1>6. ~ f.line => Encode(f) = d
  BY DEF Encode, Verb, Total
<1>7. f.line => Encode(f) = a
  BY DEF Encode, Verb
<1> HIDE DEF v
<1>8. /\ a \in Seq(Bytes) /\ Len(a) = 3
      /\ a[1] = Verb(f) /\ a[2] = CR /\ a[3] = LF
  <2>1. /\ a \in Seq(Bytes) /\ Len(a) = 1 + 2
        /\ \A i \in 1 .. 1 : a[i] = v[i]
        /\ \A i \in 1 .. 2 : a[1 + i] = CRLF[i]
    <3>1. v \in Seq(Bytes)
      BY <1>2, <1>3
    <3>2. CRLF \in Seq(Bytes)
      BY <1>2, <1>3
    <3>3. /\ a \in Seq(Bytes) /\ Len(a) = Len(v) + Len(CRLF)
          /\ \A i \in 1 .. Len(v) : a[i] = v[i]
          /\ \A i \in 1 .. Len(CRLF) : a[Len(v) + i] = CRLF[i]
      BY ONLY <3>1, <3>2, Joined
    <3> HIDE DEF a
    <3> QED BY <1>2, <1>3, <3>3
  <2> HIDE DEF a
  <2>2. a[1] = Verb(f) /\ a[1 + 1] = CR /\ a[1 + 2] = LF
    BY <1>2, <1>3, <2>1
  <2> QED BY <2>1, <2>2
<1> HIDE DEF a, x, y
<1>9. CASE f.line
  BY <1>7, <1>8, <1>9
<1>10. CASE ~ f.line
  <2>0. Len(x) = m /\ Len(y) = n
    OBVIOUS
  <2> HIDE DEF m, n
  <2>1. /\ b \in Seq(Bytes) /\ Len(b) = 3 + m
        /\ \A i \in 1 .. 3 : b[i] = a[i]
        /\ \A i \in 1 .. m : b[3 + i] = x[i]
    <3>1. a \in Seq(Bytes)
      BY <1>4, <1>8, <2>0
    <3>2. x \in Seq(Bytes)
      BY <1>4, <1>8, <2>0
    <3>3. /\ b \in Seq(Bytes) /\ Len(b) = Len(a) + Len(x)
          /\ \A i \in 1 .. Len(a) : b[i] = a[i]
          /\ \A i \in 1 .. Len(x) : b[Len(a) + i] = x[i]
      BY ONLY <3>1, <3>2, Joined
    <3> HIDE DEF b
    <3> QED BY <1>4, <1>8, <2>0, <3>3
  <2> HIDE DEF b
  <2>2. /\ c \in Seq(Bytes) /\ Len(c) = 3 + m + n
        /\ \A i \in 1 .. 3 + m : c[i] = b[i]
        /\ \A i \in 1 .. n : c[3 + m + i] = y[i]
    <3>1. b \in Seq(Bytes)
      BY <1>4, <2>0, <2>1
    <3>2. y \in Seq(Bytes)
      BY <1>4, <2>0, <2>1
    <3>3. /\ c \in Seq(Bytes) /\ Len(c) = Len(b) + Len(y)
          /\ \A i \in 1 .. Len(b) : c[i] = b[i]
          /\ \A i \in 1 .. Len(y) : c[Len(b) + i] = y[i]
      BY ONLY <3>1, <3>2, Joined
    <3> HIDE DEF c
    <3> QED BY <1>4, <2>0, <2>1, <3>3
  <2> HIDE DEF c
  <2>3. /\ d \in Seq(Bytes) /\ Len(d) = 3 + m + n + 2
        /\ \A i \in 1 .. 3 + m + n : d[i] = c[i]
        /\ \A i \in 1 .. 2 : d[3 + m + n + i] = CRLF[i]
    <3>1. c \in Seq(Bytes)
      BY <1>2, <2>2
    <3>2. CRLF \in Seq(Bytes)
      BY <1>2, <2>2
    <3>3. /\ d \in Seq(Bytes) /\ Len(d) = Len(c) + Len(CRLF)
          /\ \A i \in 1 .. Len(c) : d[i] = c[i]
          /\ \A i \in 1 .. Len(CRLF) : d[Len(c) + i] = CRLF[i]
      BY ONLY <3>1, <3>2, Joined
    <3> HIDE DEF d
    <3> QED BY <1>2, <2>2, <3>3
  <2> HIDE DEF d
  <2>4. \A i \in 1 .. 3 + m : d[i] = b[i]
    <3>1. \A i \in 1 .. 3 + m : i \in 1 .. 3 + m + n
      BY <1>4
    <3> QED BY <2>2, <2>3, <3>1
  <2>5. d[1] = Verb(f) /\ d[2] = CR /\ d[3] = LF
    <3>1. /\ 1 \in 1 .. 3 + m /\ 2 \in 1 .. 3 + m /\ 3 \in 1 .. 3 + m
          /\ 1 \in 1 .. 3 /\ 2 \in 1 .. 3 /\ 3 \in 1 .. 3
      BY <1>4
    <3> QED BY <1>8, <2>1, <2>4, <3>1
  <2>6. \A i \in 1 .. m : d[3 + i] = x[i]
    <3>1. \A i \in 1 .. m : 3 + i \in 1 .. 3 + m
      BY <1>4
    <3> QED BY <2>1, <2>4, <3>1
  <2>7. \A i \in 1 .. n : d[3 + m + i] = y[i]
    <3>1. \A i \in 1 .. n : 3 + m + i \in 1 .. 3 + m + n
      BY <1>4
    <3> QED BY <2>2, <2>3, <3>1
  <2>8. Len(d) = 3 + Total(f) + 2
    BY <1>4, <1>5, <2>3
  <2> QED BY <1>6, <1>10, <2>3, <2>5, <2>6, <2>7, <2>8 DEF m, n, x, y
<1> QED BY <1>1, <1>9, <1>10

(* The two functions of the frames sent, unrolled.                         *)
LEMMA EncodingsUnroll ==
  ASSUME NEW frames \in Seq(Frames)
  PROVE  /\ Encodings(frames)[0] = <<>>
         /\ \A n \in 1 .. Len(frames) :
              Encodings(frames)[n] = Encodings(frames)[n - 1] \o Encode(frames[n])
         /\ \A n \in 0 .. Len(frames) : Encodings(frames)[n] \in Seq(Bytes)
<1> DEFINE N == Len(frames)
           S == Seq(Bytes)
           g == [n \in 1 .. N |-> [x \in S |-> x \o Encode(frames[n])]]
           Def(f) == [n \in 0 .. N |->
                        IF n = 0 THEN <<>> ELSE f[n - 1] \o Encode(frames[n])]
           bytes == CHOOSE f : f = Def(f)
<1>1. N \in Nat /\ \A n \in 1 .. N : frames[n] \in Frames
  OBVIOUS
<1>2. <<>> \in S
  OBVIOUS
<1>3. g \in [1 .. N -> [S -> S]]
  <2>1. \A n \in 1 .. N : \A x \in S : x \o Encode(frames[n]) \in S
    BY <1>1, EncodedFrame, ConcatProperties
  <2> QED BY <2>1
<1> HIDE DEF S
<1>4. PICK f \in [0 .. N -> S] : IsIteration(f, <<>>, g, N)
  <2> HIDE DEF g, N
  <2> QED BY <1>1, <1>2, <1>3, Iterates
<1>5. f = Def(f)
  <2>1. f[0] = <<>>
    BY <1>4 DEF IsIteration
  <2>2. ASSUME NEW n \in 1 .. N PROVE f[n] = f[n - 1] \o Encode(frames[n])
    <3>1. n - 1 \in 0 .. N /\ f[n - 1] \in S
      BY <1>1
    <3> QED BY <1>4, <3>1 DEF IsIteration
  <2>3. \A n \in 0 .. N : n = 0 \/ n \in 1 .. N
    BY <1>1
  <2> QED BY <2>1, <2>2, <2>3
<1>6. bytes = Def(bytes)
  <2> HIDE DEF Def
  <2> QED BY <1>5
<1>7. Encodings(frames) = bytes
  BY DEF Encodings
<1> HIDE DEF bytes, g
<1>8. 0 \in 0 .. N /\ \A n \in 1 .. N : n \in 0 .. N /\ n # 0
  BY <1>1
<1>9. bytes[0] = <<>> /\ \A n \in 1 .. N : bytes[n] = bytes[n - 1] \o Encode(frames[n])
  BY <1>6, <1>8
<1>10. \A n \in 1 .. N : bytes[n - 1] \in S => bytes[n] \in S
  BY <1>1, <1>9, EncodedFrame, ConcatProperties DEF S
<1>11. bytes[0] \in S
  BY <1>2, <1>9
<1>12. \A n \in 0 .. N : bytes[n] \in S
  BY ONLY <1>1, <1>10, <1>11, LoopInvariant
<1> QED BY <1>7, <1>9, <1>12 DEF S

Emitted == [headers : Seq(Bytes), payload : Seq(Bytes)]

(* What the first frames make the parser emit.                             *)
LEMMA EmissionsUnroll ==
  ASSUME NEW frames \in Seq(Frames)
  PROVE  /\ Emissions(frames)[0] = <<>>
         /\ \A n \in 1 .. Len(frames) :
              Emissions(frames)[n] =
                IF frames[n].line THEN Emissions(frames)[n - 1]
                ELSE Append(Emissions(frames)[n - 1],
                            [headers |-> frames[n].headers,
                             payload |-> frames[n].payload])
         /\ \A n \in 0 .. Len(frames) : Emissions(frames)[n] \in Seq(Emitted)
<1> DEFINE N == Len(frames)
           S == Seq(Emitted)
           message(n) == [headers |-> frames[n].headers, payload |-> frames[n].payload]
           next(x, n) == IF frames[n].line THEN x ELSE Append(x, message(n))
           g == [n \in 1 .. N |-> [x \in S |-> next(x, n)]]
           Def(f) == [n \in 0 .. N |->
                        IF n = 0 THEN <<>>
                        ELSE IF frames[n].line THEN f[n - 1]
                        ELSE Append(f[n - 1], [headers |-> frames[n].headers,
                                               payload |-> frames[n].payload])]
           out == CHOOSE f : f = Def(f)
<1>1. N \in Nat /\ \A n \in 1 .. N : frames[n] \in Frames
  OBVIOUS
<1>2. <<>> \in S
  OBVIOUS
<1>3. ASSUME NEW n \in 1 .. N, NEW x \in S PROVE next(x, n) \in S
  <2>1. message(n) \in Emitted
    BY <1>1, FrameTypes DEF Emitted
  <2> HIDE DEF message
  <2>2. Append(x, message(n)) \in S
    BY <2>1, AppendProperties
  <2> QED BY <2>2
<1>4. g \in [1 .. N -> [S -> S]]
  BY <1>3
<1> HIDE DEF S
<1>5. PICK f \in [0 .. N -> S] : IsIteration(f, <<>>, g, N)
  <2> HIDE DEF g, N
  <2> QED BY <1>1, <1>2, <1>4, Iterates
<1>6. f = Def(f)
  <2>1. f[0] = <<>>
    BY <1>5 DEF IsIteration
  <2>2. ASSUME NEW n \in 1 .. N PROVE f[n] = next(f[n - 1], n)
    <3>1. n - 1 \in 0 .. N /\ f[n - 1] \in S
      BY <1>1
    <3> HIDE DEF next
    <3> QED BY <1>5, <3>1 DEF IsIteration
  <2>3. \A n \in 0 .. N : n = 0 \/ n \in 1 .. N
    BY <1>1
  <2> QED BY <2>1, <2>2, <2>3
<1>7. out = Def(out)
  <2> HIDE DEF Def
  <2> QED BY <1>6
<1>8. Emissions(frames) = out
  BY DEF Emissions
<1> HIDE DEF out, g
<1>9. 0 \in 0 .. N /\ \A n \in 1 .. N : n \in 0 .. N /\ n # 0
  BY <1>1
<1>10. out[0] = <<>> /\ \A n \in 1 .. N : out[n] = next(out[n - 1], n)
  BY <1>7, <1>9
<1>11. \A n \in 1 .. N : out[n - 1] \in S => out[n] \in S
  <2> HIDE DEF next
  <2> QED BY <1>3, <1>10
<1>12. out[0] \in S
  BY <1>2, <1>10
<1>13. \A n \in 0 .. N : out[n] \in S
  BY ONLY <1>1, <1>11, <1>12, LoopInvariant
<1> QED BY <1>8, <1>10, <1>13 DEF S

(* The bytes sent and what they say, before the last frame and with it.    *)
LEMMA EncodingsGrow ==
  ASSUME NEW frames \in Seq(Frames), NEW m \in 0 .. Len(frames),
         NEW n \in m .. Len(frames)
  PROVE  LET E == Encodings(frames)
         IN Len(E[m]) <= Len(E[n]) /\ \A i \in 1 .. Len(E[m]) : E[n][i] = E[m][i]
<1> DEFINE E == Encodings(frames)
           N == Len(frames)
           Grown == {x \in Seq(Bytes) : /\ Len(E[m]) <= Len(x)
                                        /\ \A i \in 1 .. Len(E[m]) : x[i] = E[m][i]}
           I == [k \in 0 .. N |-> IF k < m THEN {E[k]} ELSE Grown]
<1>1. N \in Nat /\ m \in 0 .. N /\ n \in 0 .. N /\ m <= n
  OBVIOUS
<1>2. /\ \A k \in 0 .. N : E[k] \in Seq(Bytes)
      /\ \A k \in 1 .. N : E[k] = E[k - 1] \o Encode(frames[k])
  BY EncodingsUnroll
<1>3. \A k \in 1 .. N : Encode(frames[k]) \in Seq(Bytes)
  BY EncodedFrame
<1> HIDE DEF E, N
<1>4. E[m] \in Grown /\ Len(E[m]) \in Nat
  BY <1>1, <1>2
<1>5. ASSUME NEW k \in 1 .. N, E[k - 1] \in Grown PROVE E[k] \in Grown
  <2> DEFINE x == E[k - 1]
             y == Encode(frames[k])
             a == Len(x)
             b == Len(E[m])
  <2>1. x \in Seq(Bytes)
    BY <1>5
  <2>2. y \in Seq(Bytes)
    BY <1>3
  <2>3. E[k] = x \o y
    BY <1>2
  <2>4. /\ E[k] \in Seq(Bytes) /\ Len(E[k]) = a + Len(y)
        /\ \A i \in 1 .. a : E[k][i] = x[i]
    <3> HIDE DEF x, y
    <3> QED BY ONLY <2>1, <2>2, <2>3, Joined DEF a
  <2>5. b <= a /\ \A i \in 1 .. b : x[i] = E[m][i]
    BY <1>5
  <2>6. a \in Nat /\ b \in Nat /\ Len(y) \in Nat
    BY <1>4, <2>1, <2>2
  <2> HIDE DEF x, y, a, b
  <2>7. \A i \in 1 .. b : E[k][i] = E[m][i]
    <3>1. \A i \in 1 .. b : i \in 1 .. a
      BY <2>5, <2>6
    <3> QED BY <2>4, <2>5, <3>1
  <2>8. b <= Len(E[k])
    BY <2>4, <2>5, <2>6
  <2> QED BY <2>4, <2>7, <2>8 DEF b
<1>6. \A k \in 0 .. N : I[k] = IF k < m THEN {E[k]} ELSE Grown
  OBVIOUS
<1>7. \A k \in 1 .. N : k \in 0 .. N /\ k - 1 \in 0 .. N
  BY <1>1
<1> HIDE DEF I, Grown
<1>8. ASSUME NEW k \in 1 .. N, E[k - 1] \in I[k - 1] PROVE E[k] \in I[k]
  <2>1. CASE k < m
    BY <1>6, <1>7, <2>1
  <2>2. CASE k = m
    BY <1>1, <1>4, <1>6, <1>7, <2>2
  <2>3. CASE k > m
    <3>1. ~ (k - 1 < m) /\ ~ (k < m)
      BY <1>1, <2>3
    <3>2. E[k - 1] \in Grown
      BY <1>6, <1>7, <1>8, <3>1
    <3> QED BY <1>5, <1>6, <1>7, <3>1, <3>2
  <2> QED BY <1>1, <2>1, <2>2, <2>3
<1>9. E[0] \in I[0]
  <2>1. 0 \in 0 .. N
    BY <1>1
  <2>2. CASE m = 0
    BY <1>4, <1>6, <2>1, <2>2
  <2>3. CASE 0 < m
    BY <1>6, <2>1, <2>3
  <2> QED BY <1>1, <2>2, <2>3
<1>10. \A k \in 0 .. N : E[k] \in I[k]
  BY ONLY <1>1, <1>8, <1>9, TurnByTurn
<1>11. E[n] \in Grown
  <2>1. ~ (n < m)
    BY <1>1
  <2> QED BY <1>1, <1>6, <1>10, <2>1
<1> QED BY <1>11 DEF E, Grown

(* Where a frame is among all the bytes.                                   *)
All(frames) == Encodings(frames)[Len(frames)]

LEMMA FrameAt ==
  ASSUME NEW frames \in Seq(Frames), NEW n \in 1 .. Len(frames)
  PROVE  LET base == Len(Encodings(frames)[n - 1])
             bytes == Encode(frames[n])
         IN /\ base \in Nat /\ base + Len(bytes) <= Len(All(frames))
            /\ Len(Encodings(frames)[n]) = base + Len(bytes)
            /\ \A i \in 1 .. Len(bytes) : All(frames)[base + i] = bytes[i]
<1> DEFINE E == Encodings(frames)
           x == E[n - 1]
           y == Encode(frames[n])
           z == E[n]
           all == All(frames)
           a == Len(x)
           b == Len(y)
<1>1. frames[n] \in Frames /\ n - 1 \in 0 .. Len(frames) /\ n \in 0 .. Len(frames)
      /\ Len(frames) \in n .. Len(frames)
  OBVIOUS
<1>2. x \in Seq(Bytes)
  BY <1>1, EncodingsUnroll
<1>3. y \in Seq(Bytes)
  BY <1>1, EncodedFrame
<1>4. z = x \o y
  BY EncodingsUnroll
<1>5. Len(z) <= Len(all) /\ \A i \in 1 .. Len(z) : all[i] = z[i]
  BY <1>1, EncodingsGrow DEF All
<1>6. a \in Nat /\ b \in Nat
  BY <1>2, <1>3
<1>7. Len(z) = a + b /\ \A i \in 1 .. b : z[a + i] = y[i]
  <2> HIDE DEF x, y, z
  <2> QED BY ONLY <1>2, <1>3, <1>4, Joined DEF a, b
<1> HIDE DEF E, x, y, z, all, a, b
<1>8. \A i \in 1 .. b : all[a + i] = y[i]
  <2>1. \A i \in 1 .. b : a + i \in 1 .. a + b
    BY <1>6
  <2> QED BY <1>5, <1>7, <2>1
<1>9. a + b <= Len(all)
  BY <1>5, <1>7
<1> QED BY <1>6, <1>7, <1>8, <1>9 DEF E, x, y, z, all, a, b

(* A frame more changes nothing about those before.                        *)
LEMMA Extended ==
  ASSUME NEW frames \in Seq(Frames), NEW f \in Frames
  PROVE  LET more == Append(frames, f)
         IN \A n \in 0 .. Len(frames) :
              /\ Encodings(more)[n] = Encodings(frames)[n]
              /\ Emissions(more)[n] = Emissions(frames)[n]
<1> DEFINE more == Append(frames, f)
           N == Len(frames)
           E == Encodings(frames)
           F == Encodings(more)
           A == Emissions(frames)
           B == Emissions(more)
           I == [n \in 0 .. N |-> {E[n]}]
           J == [n \in 0 .. N |-> {A[n]}]
<1>1. /\ more \in Seq(Frames) /\ Len(more) = N + 1 /\ N \in Nat
      /\ \A n \in 1 .. N : more[n] = frames[n]
  OBVIOUS
<1>2. \A n \in 1 .. N : n \in 1 .. Len(more)
  BY <1>1
<1>3. E[0] = <<>> /\ \A n \in 1 .. N : E[n] = E[n - 1] \o Encode(frames[n])
  BY EncodingsUnroll
<1>4. F[0] = <<>> /\ \A n \in 1 .. N : F[n] = F[n - 1] \o Encode(frames[n])
  <2> HIDE DEF more
  <2> QED BY <1>1, <1>2, EncodingsUnroll
<1>5. \A n \in 0 .. N : I[n] = {E[n]} /\ J[n] = {A[n]}
  OBVIOUS
<1>6. \A n \in 1 .. N : n \in 0 .. N /\ n - 1 \in 0 .. N
  BY <1>1
<1>7. \A n \in 0 .. N : F[n] \in I[n]
  <2> HIDE DEF I, E, F, N
  <2>1. F[0] \in I[0]
    BY <1>1, <1>3, <1>4, <1>5
  <2>2. ASSUME NEW n \in 1 .. N, F[n - 1] \in I[n - 1] PROVE F[n] \in I[n]
    <3>1. F[n - 1] = E[n - 1]
      BY <1>5, <1>6, <2>2
    <3>2. F[n] = E[n]
      BY <1>3, <1>4, <3>1
    <3> QED BY <1>5, <1>6, <3>2
  <2> QED BY ONLY <1>1, <2>1, <2>2, TurnByTurn
<1>8. /\ A[0] = <<>> /\ B[0] = <<>>
      /\ \A n \in 1 .. N : A[n - 1] = B[n - 1] => A[n] = B[n]
  <2>1. B[0] = <<>> /\ \A n \in 1 .. N :
           B[n] = IF frames[n].line THEN B[n - 1]
                  ELSE Append(B[n - 1], [headers |-> frames[n].headers,
                                         payload |-> frames[n].payload])
    <3> HIDE DEF more
    <3> QED BY <1>1, <1>2, EmissionsUnroll
  <2>2. A[0] = <<>> /\ \A n \in 1 .. N :
           A[n] = IF frames[n].line THEN A[n - 1]
                  ELSE Append(A[n - 1], [headers |-> frames[n].headers,
                                         payload |-> frames[n].payload])
    BY EmissionsUnroll
  <2> HIDE DEF A, B
  <2> QED BY <2>1, <2>2
<1>9. \A n \in 0 .. N : B[n] \in J[n]
  <2> HIDE DEF J, A, B, N
  <2>1. B[0] \in J[0]
    BY <1>1, <1>5, <1>8
  <2>2. \A n \in 1 .. N : B[n - 1] \in J[n - 1] => B[n] \in J[n]
    BY <1>5, <1>6, <1>8
  <2> QED BY ONLY <1>1, <2>1, <2>2, TurnByTurn
<1> QED BY <1>5, <1>7, <1>9

(* The two ends of a sequence that is cut.                                 *)
LEMMA CutAt ==
  ASSUME NEW S, NEW s \in Seq(S), NEW n \in 0 .. Len(s)
  PROVE  /\ SubSeq(s, 1, n) \in Seq(S) /\ Len(SubSeq(s, 1, n)) = n
         /\ \A i \in 1 .. n : SubSeq(s, 1, n)[i] = s[i]
         /\ Rest(s, n) \in Seq(S) /\ Len(Rest(s, n)) = Len(s) - n
         /\ \A i \in 1 .. Len(s) - n : Rest(s, n)[i] = s[n + i]
<1> DEFINE N == Len(s)
<1>1. N \in Nat /\ n \in 0 .. N /\ \A i \in 1 .. N : s[i] \in S
  OBVIOUS
<1>2. /\ SubSeq(s, 1, n) \in Seq(S) /\ Len(SubSeq(s, 1, n)) = n
      /\ \A i \in 1 .. n : SubSeq(s, 1, n)[i] = s[i]
  OBVIOUS
<1>3. /\ Rest(s, n) \in Seq(S) /\ Len(Rest(s, n)) = N - n
      /\ \A i \in 1 .. N - n : Rest(s, n)[i] = s[n + i]
  BY DEF Rest
<1> QED BY <1>2, <1>3

(* Where the parser stands: n frames are done, and e bytes of all have     *)
(* arrived; its buffer is what follows the frames, or the line of a        *)
(* message under way.                                                      *)
Start(frames, n, p) ==
  Len(Encodings(frames)[n]) + IF p.state = "Control" THEN 0 ELSE 3
At(p, frames, n, e) ==
  /\ p.out = Emissions(frames)[n]
  /\ Start(frames, n, p) + Len(p.buffer) = e
  /\ \A i \in 1 .. Len(p.buffer) :
       p.buffer[i] = All(frames)[Start(frames, n, p) + i]
  /\ p.state = "Payload" =>
       /\ n < Len(frames) /\ ~ frames[n + 1].line
       /\ p.pending = [head |-> Len(frames[n + 1].headers), total |-> Total(frames[n + 1])]
Reading(frames, e) ==
  {p \in Parsers : /\ p.pending.head <= p.pending.total
                   /\ \E n \in 0 .. Len(frames) : At(p, frames, n, e)}
Waits(p) == IF p.state = "Control" THEN LineEnds(p.buffer) = {} ELSE ~ PayloadHere(p)

(* The fields of a parser.                                                 *)
LEMMA ParserTypes ==
  ASSUME NEW p \in Parsers
  PROVE  /\ p.buffer \in Seq(Bytes) /\ Len(p.buffer) \in Nat
         /\ p.state \in {"Control", "Payload"}
         /\ p.pending \in Pending /\ p.pending.head \in Nat /\ p.pending.total \in Nat
         /\ p.out \in Seq(Emitted)
         /\ p = [buffer |-> p.buffer, state |-> p.state, pending |-> p.pending,
                 out |-> p.out]
<1>1. MaxPayload \in Nat
  BY FrameAssumption
<1>2. /\ p.buffer \in Seq(Bytes) /\ p.state \in {"Control", "Payload"}
      /\ p.pending \in Pending /\ p.out \in Seq(Emitted)
  BY DEF Parsers, Emitted
<1>3. p.pending.head \in Nat /\ p.pending.total \in Nat
  BY <1>1, <1>2 DEF Pending
<1>4. p = [buffer |-> p.buffer, state |-> p.state, pending |-> p.pending,
           out |-> p.out]
  BY DEF Parsers
<1> QED BY <1>2, <1>3, <1>4

(* The first line end of a frame's bytes is that of its line.              *)
LEMMA FirstLineEnd ==
  ASSUME NEW f \in Frames, NEW b \in Seq(Bytes), LineEnds(b) # {},
         \A i \in 1 .. Len(b) : i <= Len(Encode(f)) => b[i] = Encode(f)[i]
  PROVE  Len(b) >= 3 /\ Min(LineEnds(b)) = 2 /\ b[1] = Verb(f)
<1>1. /\ Len(Encode(f)) \in Nat /\ Len(Encode(f)) >= 3
      /\ Encode(f)[1] = Verb(f) /\ Encode(f)[2] = CR /\ Encode(f)[3] = LF
  <2>1. Total(f) \in 0 .. MaxPayload /\ MaxPayload \in Nat
    BY FrameTypes
  <2>2. Len(Encode(f)) = IF f.line THEN 3 ELSE 3 + Total(f) + 2
    BY EncodedFrame
  <2>3. Len(Encode(f)) \in Nat /\ Len(Encode(f)) >= 3
    BY <2>1, <2>2
  <2> QED BY <2>3, EncodedFrame
<1>2. Len(b) \in Nat
  OBVIOUS
<1>3. PICK i \in 1 .. Len(b) - 1 : b[i] = CR /\ b[i + 1] = LF
  BY DEF LineEnds
<1>4. Verb(f) # CR
  <2>1. Verb(f) = Text \/ Verb(f) = Msg(Len(f.headers), Total(f))
    BY DEF Verb
  <2>2. Text # CR
    BY DEF Text, CR
  <2>3. Msg(Len(f.headers), Total(f)) # CR
    BY DEF Msg, CR
  <2> QED BY <2>1, <2>2, <2>3
<1>5. Len(b) >= 2 /\ b[1] = Verb(f)
  <2>1. Len(b) >= 2 /\ 1 \in 1 .. Len(b)
    BY <1>2, <1>3
  <2> QED BY <1>1, <2>1
<1>6. i # 1 /\ Len(b) >= 3
  <2>1. i # 1
    BY <1>3, <1>4, <1>5
  <2> QED BY <1>2, <1>3, <2>1
<1>7. b[2] = CR /\ b[3] = LF
  <2>1. 2 \in 1 .. Len(b) /\ 3 \in 1 .. Len(b)
    BY <1>2, <1>6
  <2> QED BY <1>1, <2>1
<1>8. 2 \in LineEnds(b)
  <2>1. 2 \in 1 .. Len(b) - 1 /\ 2 + 1 = 3
    BY <1>2, <1>6
  <2> QED BY <1>7, <2>1 DEF LineEnds
<1>9. \A k \in LineEnds(b) : k \in Nat /\ k >= 2
  <2>1. \A k \in LineEnds(b) : k \in 1 .. Len(b) - 1 /\ b[k] = CR
    BY DEF LineEnds
  <2>2. \A k \in LineEnds(b) : k # 1
    BY <1>4, <1>5, <2>1
  <2> QED BY <1>2, <2>1, <2>2
<1>10. Min(LineEnds(b)) = 2
  <2> DEFINE ends == LineEnds(b)
  <2> HIDE DEF ends
  <2>1. 2 \in ends /\ \A k \in ends : k \in Nat /\ k >= 2
    BY <1>8, <1>9 DEF ends
  <2>2. \E x \in ends : \A y \in ends : x <= y
    BY <2>1
  <2>3. Min(ends) \in ends /\ \A y \in ends : Min(ends) <= y
    BY <2>2 DEF Min
  <2>4. Min(ends) = 2
    BY <2>1, <2>3
  <2> QED BY <2>4 DEF ends
<1> QED BY <1>5, <1>6, <1>10

(* A turn that finds a line end reads the next frame's line.               *)
LEMMA LineRead ==
  ASSUME NEW frames \in Seq(Frames), NEW e \in 0 .. Len(All(frames)),
         NEW p \in Parsers, p.pending.head <= p.pending.total,
         p.state = "Control", LineEnds(p.buffer) # {},
         NEW n \in 0 .. Len(frames), At(p, frames, n, e)
  PROVE  ReadLine(p) \in Reading(frames, e) /\ Len(ReadLine(p).buffer) < Len(p.buffer)
<1> DEFINE b == p.buffer
           base == Len(Encodings(frames)[n])
           all == All(frames)
           f == frames[n + 1]
           bytes == Encode(f)
           q == ReadLine(p)
<1>1. /\ b \in Seq(Bytes) /\ Len(b) \in Nat /\ p.pending \in Pending
      /\ p.out \in Seq(Emitted) /\ p.out = Emissions(frames)[n]
      /\ p = [buffer |-> b, state |-> "Control", pending |-> p.pending, out |-> p.out]
  BY ParserTypes DEF At
<1>2. base \in Nat /\ Len(all) \in Nat /\ Len(frames) \in Nat
  <2>1. Len(frames) \in Nat /\ Len(frames) \in 0 .. Len(frames)
    OBVIOUS
  <2>2. Encodings(frames)[n] \in Seq(Bytes) /\ all \in Seq(Bytes)
    BY <2>1, EncodingsUnroll DEF All
  <2> QED BY <2>1, <2>2
<1>3. base + Len(b) = e /\ \A i \in 1 .. Len(b) : b[i] = all[base + i]
  <2>1. Start(frames, n, p) = base
    BY <1>2 DEF Start
  <2> QED BY <2>1 DEF At
<1>4. Len(b) > 0
  BY <1>1 DEF LineEnds
<1>5. n + 1 \in 1 .. Len(frames) /\ (n + 1) - 1 = n
  <2>1. n # Len(frames)
    BY <1>1, <1>2, <1>3, <1>4 DEF All
  <2> QED BY <1>2, <2>1
<1>6. /\ f \in Frames /\ base + Len(bytes) <= Len(all)
      /\ Len(Encodings(frames)[n + 1]) = base + Len(bytes)
      /\ \A i \in 1 .. Len(bytes) : all[base + i] = bytes[i]
  <2> DEFINE k == n + 1
  <2>1. k \in 1 .. Len(frames) /\ k - 1 = n
    BY <1>5
  <2>2. frames[k] \in Frames
    BY <2>1
  <2> HIDE DEF k
  <2>3. LET bb == Len(Encodings(frames)[k - 1])
            by == Encode(frames[k])
        IN /\ bb + Len(by) <= Len(All(frames))
           /\ Len(Encodings(frames)[k]) = bb + Len(by)
           /\ \A i \in 1 .. Len(by) : All(frames)[bb + i] = by[i]
    BY <2>1, FrameAt
  <2> QED BY <2>1, <2>2, <2>3 DEF k
<1>7. bytes \in Seq(Bytes) /\ Len(bytes) \in Nat
  BY <1>6, EncodedFrame
<1> HIDE DEF b, base, all, bytes
<1>8. \A i \in 1 .. Len(b) : i <= Len(bytes) => b[i] = bytes[i]
  <2>1. \A i \in 1 .. Len(b) : i <= Len(bytes) => i \in 1 .. Len(bytes)
    BY <1>1, <1>7
  <2> QED BY <1>3, <1>6, <2>1
<1>9. Len(b) >= 3 /\ Min(LineEnds(b)) = 2 /\ b[1] = Verb(f)
  <2>1. LineEnds(b) # {}
    BY DEF b
  <2> HIDE DEF f
  <2>2. \A i \in 1 .. Len(b) : i <= Len(Encode(f)) => b[i] = Encode(f)[i]
    BY <1>8 DEF bytes
  <2> QED BY <1>1, <1>6, <2>1, <2>2, FirstLineEnd
<1>10. 1 \in 0 .. Len(b) /\ 3 \in 0 .. Len(b)
  BY <1>1, <1>9
<1>11. Rest(b, 3) \in Seq(Bytes) /\ Len(Rest(b, 3)) = Len(b) - 3
       /\ \A i \in 1 .. Len(b) - 3 : Rest(b, 3)[i] = b[3 + i]
  BY <1>1, <1>10, CutAt
<1>12. q = [buffer |-> Rest(b, 3), state |-> IF f.line THEN "Control" ELSE "Payload",
            pending |-> IF f.line THEN p.pending
                        ELSE [head |-> Len(f.headers), total |-> Total(f)],
            out |-> p.out]
  <2> DEFINE line == SubSeq(b, 1, 1)
             r == [buffer |-> Rest(b, 3), state |-> "Control", pending |-> p.pending,
                   out |-> p.out]
  <2>1. Len(line) = 1 /\ line[1] = Verb(f)
    BY <1>1, <1>9, <1>10, CutAt
  <2>2. line # <<>>
    <3>1. Len(<<>>) = 0 /\ 0 # 1
      OBVIOUS
    <3> HIDE DEF line
    <3> QED BY <2>1, <3>1, Zenon
  <2>3. q = HandleControl(r, line)
    <3>1. [p EXCEPT !.buffer = Rest(@, 3)] = r
      BY <1>1 DEF b
    <3>2. 2 + 1 = 3 /\ 2 - 1 = 1
      OBVIOUS
    <3> QED BY <1>9, <3>1, <3>2 DEF ReadLine, b
  <2>4. CASE f.line
    <3>1. line[1][1] # "MSG"
      BY <2>1, <2>4 DEF Verb, Text
    <3> QED BY <2>3, <2>4, <3>1 DEF HandleControl
  <2>5. CASE ~ f.line
    <3>1. line[1] = <<"MSG", Len(f.headers), Total(f)>>
      BY <2>1, <2>5 DEF Verb, Msg
    <3>2. line[1][1] = "MSG" /\ line[1][2] = Len(f.headers) /\ line[1][3] = Total(f)
      BY <3>1
    <3> QED BY <2>2, <2>3, <2>5, <3>2 DEF HandleControl
  <2> QED BY <2>4, <2>5
<1>13. Len(Rest(b, 3)) < Len(b) /\ base + 3 + Len(Rest(b, 3)) = e
  <2> DEFINE k == Len(b)
             l == Len(Rest(b, 3))
  <2>1. k \in Nat /\ l = k - 3 /\ base + k = e
    BY <1>1, <1>3, <1>11
  <2> HIDE DEF k, l
  <2>2. l < k /\ base + 3 + l = e
    BY <1>2, <2>1
  <2> QED BY <2>2 DEF k, l
<1> HIDE DEF q
<1>14. CASE f.line
  <2>1. q = [buffer |-> Rest(b, 3), state |-> "Control", pending |-> p.pending,
             out |-> p.out]
    BY <1>12, <1>14
  <2>2. q \in Parsers /\ q.pending.head <= q.pending.total
    BY <1>1, <1>11, <2>1 DEF Parsers, Emitted
  <2>3. Len(bytes) = 3
    BY <1>6, <1>14, EncodedFrame DEF bytes
  <2>4. Start(frames, n + 1, q) = base + 3
    BY <1>2, <1>6, <2>1, <2>3 DEF Start
  <2>5. q.out = Emissions(frames)[n + 1]
    BY <1>1, <1>5, <1>14, <2>1, EmissionsUnroll
  <2>6. base + 3 + Len(Rest(b, 3)) = e
    BY <1>13
  <2>7. \A i \in 1 .. Len(Rest(b, 3)) : Rest(b, 3)[i] = all[base + 3 + i]
    <3>1. \A i \in 1 .. Len(b) - 3 : 3 + i \in 1 .. Len(b) /\ base + (3 + i) = base + 3 + i
      BY <1>1, <1>2
    <3> QED BY <1>3, <1>11, <3>1
  <2>8. At(q, frames, n + 1, e)
    BY <2>1, <2>4, <2>5, <2>6, <2>7 DEF At, all
  <2>9. n + 1 \in 0 .. Len(frames)
    BY <1>2, <1>5
  <2> QED BY <1>13, <2>1, <2>2, <2>8, <2>9 DEF Reading, b, q
<1>15. CASE ~ f.line
  <2>1. q = [buffer |-> Rest(b, 3), state |-> "Payload",
             pending |-> [head |-> Len(f.headers), total |-> Total(f)], out |-> p.out]
    BY <1>12, <1>15
  <2>2. q \in Parsers /\ q.pending.head <= q.pending.total
    <3>1. /\ Len(f.headers) \in 0 .. MaxPayload /\ Total(f) \in 0 .. MaxPayload
          /\ Len(f.headers) <= Total(f)
      BY <1>6, FrameTypes
    <3> QED BY <1>1, <1>11, <2>1, <3>1 DEF Parsers, Pending, Emitted
  <2>3. Start(frames, n, q) = base + 3
    BY <2>1 DEF Start, base
  <2>4. base + 3 + Len(Rest(b, 3)) = e
    BY <1>13
  <2>5. \A i \in 1 .. Len(Rest(b, 3)) : Rest(b, 3)[i] = all[base + 3 + i]
    <3>1. \A i \in 1 .. Len(b) - 3 : 3 + i \in 1 .. Len(b) /\ base + (3 + i) = base + 3 + i
      BY <1>1, <1>2
    <3> QED BY <1>3, <1>11, <3>1
  <2>6. n < Len(frames)
    BY <1>2, <1>5
  <2>7. At(q, frames, n, e)
    BY <1>1, <1>15, <2>1, <2>3, <2>4, <2>5, <2>6 DEF At, all
  <2> QED BY <1>13, <2>1, <2>2, <2>7 DEF Reading, b, q
<1>16. f.line \in BOOLEAN
  BY <1>6, FrameTypes
<1> QED BY <1>14, <1>15, <1>16

(* A turn that finds a payload with its line end delivers the frame.       *)
LEMMA PayloadRead ==
  ASSUME NEW frames \in Seq(Frames), NEW e \in 0 .. Len(All(frames)),
         NEW p \in Parsers, p.pending.head <= p.pending.total,
         p.state = "Payload", PayloadHere(p),
         NEW n \in 0 .. Len(frames), At(p, frames, n, e)
  PROVE  /\ DeliverPending(p) \in Reading(frames, e)
         /\ Len(DeliverPending(p).buffer) < Len(p.buffer)
<1> DEFINE b == p.buffer
           base == Len(Encodings(frames)[n])
           all == All(frames)
           f == frames[n + 1]
           bytes == Encode(f)
           x == f.headers
           y == f.payload
           h == Len(x)
           m == Len(y)
           t == Total(f)
           frame == SubSeq(b, 1, t)
           q == DeliverPending(p)
<1>1. /\ b \in Seq(Bytes) /\ Len(b) \in Nat /\ p.pending \in Pending
      /\ p.out \in Seq(Emitted) /\ p.out = Emissions(frames)[n]
      /\ p = [buffer |-> b, state |-> "Payload", pending |-> p.pending, out |-> p.out]
      /\ n < Len(frames) /\ ~ f.line /\ p.pending.head = h /\ p.pending.total = t
  BY ParserTypes DEF At
<1>2. base \in Nat /\ Len(frames) \in Nat
  <2>1. Encodings(frames)[n] \in Seq(Bytes)
    BY EncodingsUnroll
  <2> QED BY <2>1
<1>3. base + 3 + Len(b) = e /\ \A i \in 1 .. Len(b) : b[i] = all[base + 3 + i]
  <2>1. Start(frames, n, p) = base + 3
    BY DEF Start
  <2> QED BY <2>1 DEF At
<1>4. Len(b) >= t + 2
  BY <1>1 DEF PayloadHere
<1>5. n + 1 \in 1 .. Len(frames) /\ n + 1 \in 0 .. Len(frames) /\ (n + 1) - 1 = n
  <2>1. n < Len(frames)
    BY <1>1
  <2> QED BY <1>2, <2>1
<1>6. /\ f \in Frames
      /\ Len(Encodings(frames)[n + 1]) = base + Len(bytes)
      /\ \A i \in 1 .. Len(bytes) : all[base + i] = bytes[i]
  <2> DEFINE k == n + 1
  <2>1. k \in 1 .. Len(frames) /\ k - 1 = n
    BY <1>5
  <2>2. frames[k] \in Frames
    BY <2>1
  <2> HIDE DEF k
  <2>3. LET bb == Len(Encodings(frames)[k - 1])
            by == Encode(frames[k])
        IN /\ Len(Encodings(frames)[k]) = bb + Len(by)
           /\ \A i \in 1 .. Len(by) : All(frames)[bb + i] = by[i]
    BY <2>1, FrameAt
  <2> QED BY <2>1, <2>2, <2>3 DEF k
<1>7. /\ x \in Seq(Bytes) /\ y \in Seq(Bytes) /\ h \in Nat /\ m \in Nat /\ t = h + m
  <2>1. f \in Frames
    BY <1>6
  <2> HIDE DEF f
  <2>2. x \in Seq(Bytes) /\ y \in Seq(Bytes)
    BY <2>1, FrameTypes
  <2>3. t = h + m
    BY DEF Total
  <2> QED BY <2>2, <2>3
<1>8. /\ Len(bytes) = 3 + t + 2
      /\ \A i \in 1 .. h : bytes[3 + i] = x[i]
      /\ \A i \in 1 .. m : bytes[3 + h + i] = y[i]
  <2> HIDE DEF f
  <2> QED BY <1>1, <1>6, EncodedFrame
<1>9. q = [buffer |-> Rest(b, t + 2), state |-> "Control", pending |-> p.pending,
           out |-> Append(p.out, [headers |-> SubSeq(frame, 1, h),
                                  payload |-> Rest(frame, h)])]
  <2>1. q = [p EXCEPT !.buffer = Rest(b, t + 2), !.state = "Control",
                      !.out = Append(p.out, [headers |-> SubSeq(frame, 1, h),
                                             payload |-> Rest(frame, h)])]
    BY <1>1 DEF DeliverPending
  <2> HIDE DEF b, frame, x, t, q
  <2> QED BY <1>1, <2>1
<1> HIDE DEF b, base, all, f, bytes, x, y, h, m, t, q
<1>10. t \in 0 .. Len(b) /\ t + 2 \in 0 .. Len(b) /\ t \in Nat /\ h \in 0 .. t
  BY <1>1, <1>4, <1>7
<1>11. /\ frame \in Seq(Bytes) /\ Len(frame) = t
       /\ \A i \in 1 .. t : frame[i] = b[i]
  BY <1>1, <1>10, CutAt
<1>12. /\ Rest(b, t + 2) \in Seq(Bytes) /\ Len(Rest(b, t + 2)) = Len(b) - (t + 2)
       /\ \A i \in 1 .. Len(b) - (t + 2) : Rest(b, t + 2)[i] = b[t + 2 + i]
  BY <1>1, <1>10, CutAt
<1>13. \A i \in 1 .. t : frame[i] = bytes[3 + i]
  <2>1. \A i \in 1 .. t : /\ i \in 1 .. Len(b) /\ 3 + i \in 1 .. Len(bytes)
                          /\ base + 3 + i = base + (3 + i)
    BY <1>1, <1>2, <1>4, <1>8, <1>10
  <2> QED BY <1>3, <1>6, <1>11, <2>1
<1> HIDE DEF frame
<1>14. /\ SubSeq(frame, 1, h) \in Seq(Bytes) /\ Len(SubSeq(frame, 1, h)) = h
       /\ \A i \in 1 .. h : SubSeq(frame, 1, h)[i] = frame[i]
       /\ Rest(frame, h) \in Seq(Bytes) /\ Len(Rest(frame, h)) = t - h
       /\ \A i \in 1 .. t - h : Rest(frame, h)[i] = frame[h + i]
  <2>1. h \in 0 .. Len(frame)
    BY <1>10, <1>11
  <2> QED BY <1>11, <2>1, CutAt
<1>15. SubSeq(frame, 1, h) = x
  <2> DEFINE s == SubSeq(frame, 1, h)
  <2>1. \A i \in 1 .. h : i \in 1 .. t
    BY <1>10
  <2>2. s \in Seq(Bytes) /\ Len(s) = Len(x) /\ \A i \in 1 .. Len(s) : s[i] = x[i]
    BY <1>8, <1>13, <1>14, <2>1 DEF h
  <2> HIDE DEF s
  <2>3. s = x
    BY <1>7, <2>2, SeqEqual
  <2> QED BY <2>3 DEF s
<1>16. Rest(frame, h) = y
  <2> DEFINE s == Rest(frame, h)
  <2>1. t - h = m /\ \A i \in 1 .. m : h + i \in 1 .. t /\ 3 + (h + i) = 3 + h + i
    BY <1>7, <1>10
  <2>2. s \in Seq(Bytes) /\ Len(s) = m
    BY <1>14, <2>1
  <2>3. \A i \in 1 .. m : s[i] = y[i]
    BY <1>8, <1>13, <1>14, <2>1
  <2> HIDE DEF s
  <2>4. Len(s) = Len(y) /\ \A i \in 1 .. Len(s) : s[i] = y[i]
    BY <2>2, <2>3 DEF m
  <2>5. s = y
    BY <1>7, <2>2, <2>4, SeqEqual
  <2> QED BY <2>5 DEF s
<1>17. q = [buffer |-> Rest(b, t + 2), state |-> "Control", pending |-> p.pending,
            out |-> Append(p.out, [headers |-> x, payload |-> y])]
  BY <1>9, <1>15, <1>16
<1>18. q \in Parsers
  <2>1. [headers |-> x, payload |-> y] \in Emitted
    BY <1>7 DEF Emitted
  <2>2. Append(p.out, [headers |-> x, payload |-> y]) \in Seq(Emitted)
    BY <1>1, <2>1, AppendProperties
  <2> QED BY <1>1, <1>12, <1>17, <2>2 DEF Parsers, Emitted
<1>19. q.out = Emissions(frames)[n + 1]
  <2> DEFINE k == n + 1
  <2>1. k \in 1 .. Len(frames) /\ k - 1 = n
    BY <1>5
  <2> HIDE DEF k
  <2>2. Emissions(frames)[k] =
          IF frames[k].line THEN Emissions(frames)[k - 1]
          ELSE Append(Emissions(frames)[k - 1], [headers |-> frames[k].headers,
                                                 payload |-> frames[k].payload])
    BY <2>1, EmissionsUnroll
  <2> QED BY <1>1, <1>17, <2>1, <2>2 DEF k, f, x, y
<1>20. /\ base + Len(bytes) + Len(Rest(b, t + 2)) = e
       /\ Len(Rest(b, t + 2)) < Len(b)
  <2> DEFINE k == Len(b)
             l == Len(Rest(b, t + 2))
  <2>1. k \in Nat /\ l = k - (t + 2) /\ base + 3 + k = e
    BY <1>1, <1>3, <1>12
  <2>2. base \in Nat /\ t \in Nat
    BY <1>2, <1>10
  <2> HIDE DEF k, l
  <2>3. l < k /\ base + (3 + t + 2) + l = e
    BY ONLY <2>1, <2>2
  <2> QED BY <1>8, <2>3 DEF k, l
<1>21. Start(frames, n + 1, q) = base + Len(bytes)
  <2>1. base + Len(bytes) \in Nat
    BY <1>2, <1>8, <1>10
  <2> QED BY <1>6, <1>17, <2>1 DEF Start
<1>22. \A i \in 1 .. Len(Rest(b, t + 2)) :
         Rest(b, t + 2)[i] = all[base + Len(bytes) + i]
  <2>1. \A i \in 1 .. Len(b) - (t + 2) :
          /\ t + 2 + i \in 1 .. Len(b)
          /\ base + 3 + (t + 2 + i) = base + (3 + t + 2) + i
    <3> DEFINE k == Len(b)
    <3>1. base \in Nat /\ t \in Nat /\ k \in Nat
      BY <1>1, <1>2, <1>10
    <3> HIDE DEF k
    <3> QED BY ONLY <3>1 DEF k
  <2> QED BY <1>3, <1>8, <1>12, <2>1
<1>23. At(q, frames, n + 1, e)
  BY <1>17, <1>19, <1>20, <1>21, <1>22 DEF At, all
<1>24. q.pending.head <= q.pending.total
  BY <1>17
<1>25. q \in Reading(frames, e)
  BY <1>5, <1>18, <1>23, <1>24 DEF Reading
<1>26. Len(q.buffer) < Len(b)
  BY <1>17, <1>20
<1> QED BY <1>25, <1>26 DEF b, q

(* A turn keeps to the frames, and takes something unless it waits.        *)
LEMMA TurnReads ==
  ASSUME NEW frames \in Seq(Frames), NEW e \in 0 .. Len(All(frames)),
         NEW p \in Reading(frames, e)
  PROVE  /\ Turn(p) \in Reading(frames, e)
         /\ Waits(p) => Turn(p) = p
         /\ ~ Waits(p) => Len(Turn(p).buffer) < Len(p.buffer)
<1>1. p \in Parsers /\ p.pending.head <= p.pending.total
  BY DEF Reading
<1>2. PICK n \in 0 .. Len(frames) : At(p, frames, n, e)
  BY DEF Reading
<1>3. p.state \in {"Control", "Payload"}
  BY <1>1, ParserTypes
<1>4. CASE Waits(p)
  <2>1. Turn(p) = p
    BY <1>3, <1>4 DEF Waits, Turn
  <2> QED BY <1>4, <2>1
<1>5. CASE ~ Waits(p) /\ p.state = "Control"
  <2>1. LineEnds(p.buffer) # {} /\ Turn(p) = ReadLine(p)
    BY <1>5 DEF Waits, Turn
  <2> QED BY <1>1, <1>2, <1>5, <2>1, LineRead
<1>6. CASE ~ Waits(p) /\ p.state = "Payload"
  <2>1. PayloadHere(p) /\ Turn(p) = DeliverPending(p)
    BY <1>6 DEF Waits, Turn
  <2> QED BY <1>1, <1>2, <1>6, <2>1, PayloadRead
<1> QED BY <1>3, <1>4, <1>5, <1>6

(* processBuffer(): it returns when it has to wait for bytes.              *)
LEMMA BufferProcessed ==
  ASSUME NEW frames \in Seq(Frames), NEW e \in 0 .. Len(All(frames)),
         NEW p \in Reading(frames, e)
  PROVE  ProcessBuffer(p) \in Reading(frames, e) /\ Waits(ProcessBuffer(p))
<1> DEFINE S == Reading(frames, e)
           N == Len(p.buffer)
           g == [n \in 1 .. N |-> [q \in S |-> Turn(q)]]
           Def(f) == [n \in 0 .. N |-> IF n = 0 THEN p ELSE Turn(f[n - 1])]
           after == CHOOSE f : f = Def(f)
           I == [n \in 0 .. N |-> {q \in S : Len(q.buffer) <= N - n \/ Waits(q)}]
<1>1. \A q \in S : q.buffer \in Seq(Bytes) /\ Len(q.buffer) \in Nat
  BY ParserTypes DEF Reading
<1>2. N \in Nat /\ p \in S
  BY <1>1
<1>3. \A q \in S : /\ Turn(q) \in S
                   /\ Waits(q) => Turn(q) = q
                   /\ ~ Waits(q) => Len(Turn(q).buffer) < Len(q.buffer)
  BY TurnReads
<1> HIDE DEF S
<1>4. g \in [1 .. N -> [S -> S]]
  BY <1>3
<1>5. PICK f \in [0 .. N -> S] : IsIteration(f, p, g, N)
  <2> HIDE DEF g, N
  <2> QED BY <1>2, <1>4, Iterates
<1>6. f = Def(f)
  <2>1. f[0] = p
    BY <1>5 DEF IsIteration
  <2>2. ASSUME NEW n \in 1 .. N PROVE f[n] = Turn(f[n - 1])
    <3>1. n - 1 \in 0 .. N /\ f[n - 1] \in S
      BY <1>2
    <3> QED BY <1>5, <3>1 DEF IsIteration
  <2>3. \A n \in 0 .. N : n = 0 \/ n \in 1 .. N
    BY <1>2
  <2> QED BY <2>1, <2>2, <2>3
<1>7. after = Def(after)
  <2> HIDE DEF Def
  <2> QED BY <1>6
<1>8. ProcessBuffer(p) = after[N]
  BY DEF ProcessBuffer
<1> HIDE DEF after, g
<1>9. 0 \in 0 .. N /\ N \in 0 .. N /\ \A n \in 1 .. N : n \in 0 .. N /\ n # 0
  BY <1>2
<1>10. after[0] = p /\ \A n \in 1 .. N : after[n] = Turn(after[n - 1])
  BY <1>7, <1>9
<1> HIDE DEF Def
<1>11. \A n \in 0 .. N : I[n] = {q \in S : Len(q.buffer) <= N - n \/ Waits(q)}
  OBVIOUS
<1>12. after[0] \in I[0]
  BY <1>2, <1>9, <1>10, <1>11
<1> HIDE DEF I, N
<1>13. ASSUME NEW n \in 1 .. N, after[n - 1] \in I[n - 1] PROVE after[n] \in I[n]
  <2> DEFINE q == after[n - 1]
             r == after[n]
  <2>1. n \in 0 .. N /\ n - 1 \in 0 .. N
    BY <1>2
  <2>2. q \in S /\ (Len(q.buffer) <= N - (n - 1) \/ Waits(q))
    BY <1>11, <1>13, <2>1
  <2>3. r = Turn(q)
    BY <1>10
  <2> HIDE DEF q, r
  <2>4. CASE Waits(q)
    BY <1>3, <1>11, <2>1, <2>2, <2>3, <2>4 DEF r
  <2>5. CASE ~ Waits(q)
    <3>1. r \in S /\ Len(r.buffer) < Len(q.buffer) /\ Len(q.buffer) <= N - (n - 1)
      BY <1>3, <2>2, <2>3, <2>5
    <3>2. Len(r.buffer) \in Nat /\ Len(q.buffer) \in Nat
      BY <1>1, <2>2, <3>1
    <3>3. Len(r.buffer) <= N - n
      BY <1>2, <3>1, <3>2
    <3> QED BY <1>11, <2>1, <3>1, <3>3 DEF r
  <2> QED BY <2>4, <2>5
<1>14. \A n \in 0 .. N : after[n] \in I[n]
  BY ONLY <1>2, <1>12, <1>13, TurnByTurn
<1>15. after[N] \in S /\ (Len(after[N].buffer) <= N - N \/ Waits(after[N]))
  BY <1>9, <1>11, <1>14
<1>16. ASSUME NEW q \in Parsers, Len(q.buffer) <= 0, q.pending.total \in Nat
       PROVE  Waits(q)
  BY <1>16 DEF Waits, LineEnds, PayloadHere
<1>17. Waits(after[N])
  <2> DEFINE q == after[N]
  <2>1. q \in Parsers
    BY <1>15 DEF S, Reading
  <2> HIDE DEF q
  <2>2. q.pending.total \in Nat /\ Len(q.buffer) \in Nat
    BY <2>1, ParserTypes
  <2>3. Len(q.buffer) <= N - N => Len(q.buffer) <= 0
    BY <1>2, <2>2
  <2>4. Len(q.buffer) <= 0 => Waits(q)
    BY <1>16, <2>1, <2>2
  <2> QED BY <1>15, <2>3, <2>4 DEF q
<1> QED BY <1>8, <1>15, <1>17 DEF S

(* A parser that waits is inside of a frame, or has nothing: a line is not *)
(* there to its end, or a payload is not.                                  *)
LEMMA WaitsInsideFrame ==
  ASSUME NEW frames \in Seq(Frames), NEW e \in 0 .. Len(All(frames)),
         NEW p \in Parsers, NEW n \in 0 .. Len(frames), At(p, frames, n, e), Waits(p)
  PROVE  /\ Len(Encodings(frames)[n]) <= e
         /\ n < Len(frames) => e < Len(Encodings(frames)[n + 1])
         /\ Len(p.buffer) <= MaxPayload + 1 \/ Len(p.buffer) <= 2
<1> DEFINE b == p.buffer
           base == Len(Encodings(frames)[n])
           all == All(frames)
           f == frames[n + 1]
           bytes == Encode(f)
<1>1. /\ Len(b) \in Nat /\ p.pending \in Pending
      /\ p.state \in {"Control", "Payload"} /\ p.pending.total \in Nat
  BY ParserTypes
<1>2. base \in Nat /\ Len(frames) \in Nat /\ e \in Nat /\ MaxPayload \in Nat
  <2>1. Encodings(frames)[n] \in Seq(Bytes) /\ All(frames) \in Seq(Bytes)
    <3>1. Len(frames) \in 0 .. Len(frames)
      OBVIOUS
    <3> QED BY <3>1, EncodingsUnroll DEF All
  <2> QED BY <2>1, FrameAssumption
<1>3. ASSUME n < Len(frames)
      PROVE  /\ f \in Frames /\ Len(bytes) \in Nat
             /\ Len(Encodings(frames)[n + 1]) = base + Len(bytes)
             /\ \A i \in 1 .. Len(bytes) : all[base + i] = bytes[i]
  <2> DEFINE k == n + 1
  <2>1. k \in 1 .. Len(frames) /\ k - 1 = n
    BY <1>2, <1>3
  <2>2. frames[k] \in Frames
    BY <2>1
  <2>3. Len(Encode(frames[k])) \in Nat
    BY <2>2, EncodedFrame
  <2> HIDE DEF k
  <2>4. LET bb == Len(Encodings(frames)[k - 1])
            by == Encode(frames[k])
        IN /\ Len(Encodings(frames)[k]) = bb + Len(by)
           /\ \A i \in 1 .. Len(by) : All(frames)[bb + i] = by[i]
    BY <2>1, FrameAt
  <2> QED BY <2>1, <2>2, <2>3, <2>4 DEF k
<1>4. CASE p.state = "Control"
  <2>1. base + Len(b) = e /\ \A i \in 1 .. Len(b) : b[i] = all[base + i]
    <3>1. Start(frames, n, p) = base
      BY <1>2, <1>4 DEF Start
    <3> QED BY <3>1 DEF At
  <2>2. LineEnds(b) = {}
    BY <1>4 DEF Waits
  <2>3. CASE n < Len(frames)
    <3>1. /\ Len(bytes) >= 3 /\ bytes[2] = CR /\ bytes[3] = LF
      <4>1. f \in Frames
        BY <1>3, <2>3
      <4> HIDE DEF f
      <4>2. Total(f) \in 0 .. MaxPayload
        BY <4>1, FrameTypes
      <4>3. /\ Len(bytes) = IF f.line THEN 3 ELSE 3 + Total(f) + 2
            /\ bytes[2] = CR /\ bytes[3] = LF
        BY <4>1, EncodedFrame
      <4>4. Len(bytes) >= 3
        BY <1>2, <4>2, <4>3
      <4> QED BY <4>3, <4>4
    <3>2. Len(bytes) \in Nat /\ Len(Encodings(frames)[n + 1]) = base + Len(bytes)
          /\ \A i \in 1 .. Len(bytes) : all[base + i] = bytes[i]
      BY <1>3, <2>3
    <3> HIDE DEF b, base, all, f, bytes
    <3>3. ~ Len(b) >= 3
      <4> SUFFICES ASSUME Len(b) >= 3 PROVE FALSE
        OBVIOUS
      <4>1. /\ 2 \in 1 .. Len(b) /\ 3 \in 1 .. Len(b) /\ 2 \in 1 .. Len(b) - 1
            /\ 2 \in 1 .. Len(bytes) /\ 3 \in 1 .. Len(bytes) /\ 2 + 1 = 3
        BY <1>1, <3>1, <3>2 DEF b
      <4>2. b[2] = CR /\ b[3] = LF
        BY <2>1, <3>1, <3>2, <4>1
      <4>3. 2 \in LineEnds(b)
        BY <4>1, <4>2 DEF LineEnds
      <4> QED BY <2>2, <4>3
    <3>4. base <= e /\ e < base + Len(bytes) /\ Len(b) <= 2
      <4>1. base \in Nat /\ Len(b) \in Nat /\ base + Len(b) = e
        BY <1>1, <1>2, <2>1 DEF b, base
      <4> QED BY <3>1, <3>2, <3>3, <4>1
    <3> QED BY <3>2, <3>4 DEF b, base
  <2>4. CASE ~ n < Len(frames)
    <3>1. base = Len(all) /\ e <= Len(all)
      <4>1. n = Len(frames)
        BY <1>2, <2>4
      <4> QED BY <4>1 DEF All
    <3>2. base <= e /\ Len(b) <= 2
      <4> HIDE DEF b, base, all
      <4>1. Len(b) \in Nat /\ base \in Nat
        BY <1>1, <1>2 DEF b, base
      <4> QED BY <1>2, <2>1, <3>1, <4>1
    <3> QED BY <2>4, <3>2
  <2> QED BY <2>3, <2>4
<1>5. CASE p.state = "Payload"
  <2>1. /\ base + 3 + Len(b) = e /\ n < Len(frames) /\ ~ f.line
        /\ p.pending.total = Total(f)
    <3>1. Start(frames, n, p) = base + 3
      BY <1>5 DEF Start
    <3>2. base + 3 + Len(b) = e
      BY <3>1 DEF At
    <3>3. n < Len(frames) /\ ~ f.line
      BY <1>5 DEF At
    <3>4. p.pending = [head |-> Len(f.headers), total |-> Total(f)]
      BY <1>5 DEF At
    <3>5. p.pending.total = Total(f)
      BY <3>4
    <3> QED BY <3>2, <3>3, <3>5
  <2>2. ~ Len(b) >= p.pending.total + 2
    BY <1>5 DEF Waits, PayloadHere
  <2>3. /\ Len(bytes) = 3 + Total(f) + 2
        /\ Len(Encodings(frames)[n + 1]) = base + Len(bytes)
    <3>1. f \in Frames /\ Len(Encodings(frames)[n + 1]) = base + Len(bytes)
      BY <1>3, <2>1
    <3> HIDE DEF f
    <3> QED BY <2>1, <3>1, EncodedFrame
  <2>4. p.pending.total <= MaxPayload
    BY <1>1, <1>2 DEF Pending
  <2> HIDE DEF base, b, bytes, f
  <2>5. /\ Len(b) \in Nat /\ base \in Nat /\ p.pending.total \in Nat
    BY <1>1, <1>2 DEF b, base
  <2>6. base <= e /\ e < base + Len(bytes) /\ Len(b) <= MaxPayload + 1
    <3> DEFINE t == p.pending.total
               k == Len(b)
    <3>1. /\ k \in Nat /\ t \in Nat /\ base + 3 + k = e /\ ~ k >= t + 2
          /\ t <= MaxPayload /\ Len(bytes) = 3 + t + 2
      BY <2>1, <2>2, <2>3, <2>4, <2>5
    <3> HIDE DEF t, k
    <3>2. base <= e /\ e < base + (3 + t + 2) /\ k <= MaxPayload + 1
      BY <1>2, <2>5, <3>1
    <3> QED BY <3>1, <3>2 DEF k
  <2> QED BY <2>3, <2>6 DEF base, b
<1> QED BY <1>1, <1>4, <1>5

(* So the frames that have arrived as a whole are those it is done with.   *)
LEMMA WholeAreDone ==
  ASSUME NEW frames \in Seq(Frames), NEW e \in 0 .. Len(All(frames)),
         NEW p \in Parsers, NEW n \in 0 .. Len(frames), At(p, frames, n, e), Waits(p)
  PROVE  Max({k \in 0 .. Len(frames) : Len(Encodings(frames)[k]) <= e}) = n
<1> DEFINE L == [k \in 0 .. Len(frames) |-> Len(Encodings(frames)[k])]
           N == Len(frames)
           whole == {k \in 0 .. Len(frames) : Len(Encodings(frames)[k]) <= e}
<1>1. N \in Nat /\ e \in Nat
  OBVIOUS
<1>2. \A k \in 0 .. N : L[k] = Len(Encodings(frames)[k]) /\ L[k] \in Nat
  <2>1. \A k \in 0 .. N : Encodings(frames)[k] \in Seq(Bytes)
    BY EncodingsUnroll
  <2> QED BY <2>1
<1>3. L[n] <= e /\ (n < N => e < L[n + 1])
  <2>1. n < N => n + 1 \in 0 .. N
    BY <1>1
  <2> HIDE DEF L
  <2> QED BY <1>1, <1>2, <2>1, WaitsInsideFrame
<1>4. \A i \in 0 .. N : \A k \in i .. N : L[i] <= L[k]
  <2>1. \A i \in 0 .. N : \A k \in i .. N :
           Len(Encodings(frames)[i]) <= Len(Encodings(frames)[k])
    BY EncodingsGrow
  <2>2. \A i \in 0 .. N : \A k \in i .. N : k \in 0 .. N
    BY <1>1
  <2> HIDE DEF L
  <2> QED BY <1>2, <2>1, <2>2
<1>5. whole = {k \in 0 .. N : L[k] <= e}
  OBVIOUS
<1> HIDE DEF L, N
<1>6. n \in whole
  BY <1>3, <1>5 DEF N
<1>7. ASSUME NEW k \in whole PROVE k <= n
  <2> SUFFICES ASSUME ~ k <= n PROVE FALSE
    OBVIOUS
  <2>1. k \in 0 .. N /\ n \in 0 .. N /\ L[k] <= e
    BY <1>5, <1>7 DEF N
  <2>2. n < N /\ n + 1 \in 0 .. N /\ k \in n + 1 .. N
    BY <1>1, <2>1
  <2>3. L[n + 1] <= L[k]
    BY <1>4, <2>2
  <2>4. L[n + 1] \in Nat /\ L[k] \in Nat
    BY <1>2, <2>1, <2>2
  <2> QED BY <1>1, <1>3, <2>1, <2>2, <2>3, <2>4
<1>8. Max(whole) = n
  <2>1. n \in Nat /\ \A k \in whole : k \in Nat
    BY <1>1, <1>5 DEF N
  <2> HIDE DEF whole
  <2>2. \E x \in whole : \A y \in whole : x >= y
    BY <1>6, <1>7, <2>1
  <2>3. Max(whole) \in whole /\ \A y \in whole : Max(whole) >= y
    BY <2>2 DEF Max
  <2>4. Max(whole) >= n /\ Max(whole) <= n /\ Max(whole) \in Nat
    BY <1>6, <1>7, <2>1, <2>3
  <2> QED BY <2>1, <2>4
<1> QED BY <1>8

(* Where the buffer begins among all the bytes.                            *)
LEMMA StartIsNat ==
  ASSUME NEW frames \in Seq(Frames), NEW n \in 0 .. Len(frames), NEW p
  PROVE  Start(frames, n, p) \in Nat
<1>1. Encodings(frames)[n] \in Seq(Bytes)
  BY EncodingsUnroll
<1>2. Len(Encodings(frames)[n]) \in Nat
  BY <1>1
<1>3. CASE p.state = "Control"
  BY <1>2, <1>3 DEF Start
<1>4. CASE p.state # "Control"
  <2>1. Start(frames, n, p) = Len(Encodings(frames)[n]) + 3
    BY <1>4 DEF Start
  <2> QED BY <1>2, <2>1
<1> QED BY <1>3, <1>4

(* What the server sends next, and what arrives next, leave the parser     *)
(* where it stands.                                                        *)
LEMMA StandsWhenSent ==
  ASSUME NEW frames \in Seq(Frames), NEW f \in Frames,
         NEW e \in 0 .. Len(All(frames)), NEW p \in Reading(frames, e)
  PROVE  LET more == Append(frames, f)
         IN /\ more \in Seq(Frames) /\ All(more) = All(frames) \o Encode(f)
            /\ p \in Reading(more, e)
<1> DEFINE more == Append(frames, f)
           N == Len(frames)
           all == All(frames)
<1>1. /\ more \in Seq(Frames) /\ Len(more) = N + 1 /\ N \in Nat /\ N \in 0 .. N
      /\ \A n \in 1 .. N : more[n] = frames[n]
  OBVIOUS
<1>2. more[N + 1] = f
  OBVIOUS
<1>3. \A n \in 0 .. N : /\ Encodings(more)[n] = Encodings(frames)[n]
                        /\ Emissions(more)[n] = Emissions(frames)[n]
  BY Extended
<1>4. all \in Seq(Bytes) /\ Encode(f) \in Seq(Bytes)
  BY <1>1, EncodingsUnroll, EncodedFrame DEF All
<1>5. All(more) = all \o Encode(f)
  <2> DEFINE k == N + 1
  <2>1. k \in 1 .. Len(more) /\ k - 1 = N /\ more[k] = f /\ Len(more) = k
    BY <1>1, <1>2
  <2> HIDE DEF k, more
  <2>2. Encodings(more)[k] = Encodings(more)[k - 1] \o Encode(more[k])
    BY <1>1, <2>1, EncodingsUnroll
  <2> QED BY <1>1, <1>3, <2>1, <2>2 DEF All
<1>6. \A i \in 1 .. Len(all) : All(more)[i] = all[i]
  <2> HIDE DEF all, more
  <2> QED BY <1>4, <1>5, Joined
<1>7. /\ p \in Parsers /\ p.pending.head <= p.pending.total
      /\ p.buffer \in Seq(Bytes) /\ Len(p.buffer) \in Nat
  BY ParserTypes DEF Reading
<1>8. PICK n \in 0 .. N : At(p, frames, n, e)
  BY DEF Reading
<1>9. Start(more, n, p) = Start(frames, n, p)
  BY <1>3 DEF Start
<1>10. Start(frames, n, p) \in Nat /\ e \in Nat /\ e <= Len(all)
       /\ Start(frames, n, p) + Len(p.buffer) = e /\ Len(all) \in Nat
  <2>2. Start(frames, n, p) \in Nat
    BY StartIsNat
  <2> QED BY <1>4, <1>8, <2>2 DEF At
<1>11. \A i \in 1 .. Len(p.buffer) : p.buffer[i] = All(more)[Start(frames, n, p) + i]
  <2> DEFINE s == Start(frames, n, p)
  <2>1. \A i \in 1 .. Len(p.buffer) : p.buffer[i] = all[s + i]
    BY <1>8 DEF At
  <2>2. \A i \in 1 .. Len(p.buffer) : s + i \in 1 .. Len(all)
    <3> DEFINE k == Len(p.buffer)
               l == Len(all)
    <3>1. s \in Nat /\ k \in Nat /\ l \in Nat /\ s + k <= l
      BY <1>7, <1>10
    <3> HIDE DEF s, k, l
    <3>2. \A i \in 1 .. k : s + i \in 1 .. l
      BY <3>1
    <3> QED BY <3>2 DEF k, l
  <2> HIDE DEF s, all, more
  <2>3. \A i \in 1 .. Len(p.buffer) : p.buffer[i] = All(more)[s + i]
    BY <1>6, <2>1, <2>2
  <2> QED BY <2>3 DEF s
<1>12. p.state = "Payload" =>
         /\ n < Len(more) /\ ~ more[n + 1].line
         /\ p.pending = [head |-> Len(more[n + 1].headers), total |-> Total(more[n + 1])]
  <2> SUFFICES ASSUME p.state = "Payload"
               PROVE  /\ n < Len(more) /\ ~ more[n + 1].line
                      /\ p.pending = [head |-> Len(more[n + 1].headers),
                                      total |-> Total(more[n + 1])]
    OBVIOUS
  <2>1. /\ n < N /\ ~ frames[n + 1].line
        /\ p.pending = [head |-> Len(frames[n + 1].headers), total |-> Total(frames[n + 1])]
    BY <1>8 DEF At
  <2>2. n + 1 \in 1 .. N /\ n < Len(more)
    BY <1>1, <2>1
  <2>3. more[n + 1] = frames[n + 1]
    BY <1>1, <2>2
  <2> HIDE DEF more
  <2> QED BY <2>1, <2>2, <2>3
<1>13. At(p, more, n, e)
  <2> HIDE DEF more, all
  <2> QED BY <1>3, <1>8, <1>9, <1>11, <1>12 DEF At
<1>14. n \in 0 .. Len(more)
  BY <1>1
<1> HIDE DEF more, all
<1>15. p \in Reading(more, e)
  BY <1>7, <1>13, <1>14 DEF Reading
<1> QED BY <1>1, <1>5, <1>15 DEF more, all

(* Bytes that arrive go behind the buffer, where they belong.              *)
LEMMA StandsWhenArrived ==
  ASSUME NEW frames \in Seq(Frames), NEW e \in 0 .. Len(All(frames)),
         NEW p \in Reading(frames, e), NEW segment \in Seq(Bytes),
         e + Len(segment) <= Len(All(frames)),
         \A i \in 1 .. Len(segment) : segment[i] = All(frames)[e + i]
  PROVE  [p EXCEPT !.buffer = @ \o segment] \in Reading(frames, e + Len(segment))
<1> DEFINE b == p.buffer
           c == b \o segment
           q == [p EXCEPT !.buffer = @ \o segment]
           all == All(frames)
<1>1. /\ p \in Parsers /\ p.pending.head <= p.pending.total
      /\ b \in Seq(Bytes) /\ Len(b) \in Nat /\ Len(segment) \in Nat
  BY ParserTypes DEF Reading
<1>2. PICK n \in 0 .. Len(frames) : At(p, frames, n, e)
  BY DEF Reading
<1> DEFINE s == Start(frames, n, p)
<1>3. /\ c \in Seq(Bytes) /\ Len(c) = Len(b) + Len(segment)
      /\ \A i \in 1 .. Len(b) : c[i] = b[i]
      /\ \A i \in 1 .. Len(segment) : c[Len(b) + i] = segment[i]
  <2>1. b \in Seq(Bytes)
    BY <1>1
  <2> HIDE DEF b
  <2> QED BY ONLY <2>1, segment \in Seq(Bytes), Joined
<1>4. s \in Nat /\ e \in Nat /\ s + Len(b) = e
  <2>2. s \in Nat /\ e \in Nat
    BY StartIsNat
  <2>3. s + Len(b) = e
    BY <1>2 DEF At
  <2> QED BY <2>2, <2>3
<1>5. \A i \in 1 .. Len(b) : b[i] = all[s + i]
  BY <1>2 DEF At
<1>6. /\ q \in Parsers /\ q.buffer = c /\ q.state = p.state /\ q.pending = p.pending
      /\ q.out = p.out
  <2> HIDE DEF c
  <2>1. q = [p EXCEPT !.buffer = c]
    BY DEF c
  <2> QED BY <1>1, <1>3, <2>1 DEF Parsers
<1>7. Start(frames, n, q) = s
  BY <1>6 DEF Start
<1> HIDE DEF b, c, q, all, s
<1>8. s + Len(c) = e + Len(segment)
  <2> DEFINE k == Len(b)
             l == Len(segment)
  <2>1. k \in Nat /\ l \in Nat /\ s + k = e /\ Len(c) = k + l
    BY <1>1, <1>3, <1>4 DEF b
  <2> HIDE DEF k, l
  <2>2. s + (k + l) = e + l
    BY <1>4, <2>1
  <2> QED BY <2>1, <2>2 DEF l
<1>9. \A i \in 1 .. Len(c) : c[i] = all[s + i]
  <2> TAKE i \in 1 .. Len(c)
  <2>1. CASE i <= Len(b)
    <3>1. i \in 1 .. Len(b)
      BY <1>1, <1>3, <2>1
    <3> QED BY <1>3, <1>5, <3>1
  <2>2. CASE ~ i <= Len(b)
    <3> DEFINE k == i - Len(b)
    <3>1. k \in 1 .. Len(segment) /\ i = Len(b) + k /\ s + i = e + k
      <4> DEFINE l == Len(b)
                 m == Len(segment)
      <4>1. l \in Nat /\ m \in Nat /\ s + l = e /\ i \in 1 .. l + m /\ ~ i <= l
        BY <1>1, <1>3, <1>4, <2>2 DEF b
      <4> HIDE DEF l, m
      <4>2. i - l \in 1 .. m /\ i = l + (i - l) /\ s + i = e + (i - l)
        BY <1>4, <4>1
      <4> QED BY <4>2 DEF l, m
    <3> HIDE DEF k
    <3>2. c[i] = segment[k]
      <4>1. k \in 1 .. Len(segment)
        BY <3>1
      <4>2. c[Len(b) + k] = segment[k]
        BY <1>3, <4>1, Zenon
      <4> QED BY <3>1, <4>2
    <3>3. segment[k] = all[e + k]
      BY <3>1 DEF all
    <3> QED BY <3>1, <3>2, <3>3
  <2> QED BY <2>1, <2>2
<1>10. q.out = Emissions(frames)[n]
  BY <1>2, <1>6 DEF At
<1>11. q.state = "Payload" =>
         /\ n < Len(frames) /\ ~ frames[n + 1].line
         /\ q.pending = [head |-> Len(frames[n + 1].headers), total |-> Total(frames[n + 1])]
  BY <1>2, <1>6 DEF At
<1>12. At(q, frames, n, e + Len(segment))
  BY <1>6, <1>7, <1>8, <1>9, <1>10, <1>11 DEF At, all
<1> QED BY <1>1, <1>6, <1>12 DEF Reading, q

------------------------------------------------------------------------------
(* The inductive invariant: what has not arrived is the end of what was    *)
(* sent, and the parser stands where what has arrived ends, waiting.       *)
FrameInv ==
  /\ sent \in Seq(Frames) /\ transit \in Seq(Bytes) /\ dials \in 0 .. MaxConnections
  /\ Len(transit) <= Len(All(sent))
  /\ \A i \in 1 .. Len(transit) : transit[i] = All(sent)[Arrived + i]
  /\ parser \in Reading(sent, Arrived) /\ Waits(parser)

(* What the invariant says of the lengths.                                 *)
LEMMA ArrivedPart ==
  ASSUME FrameInv
  PROVE  /\ Arrived = Len(All(sent)) - Len(transit)
         /\ Len(All(sent)) \in Nat /\ Len(transit) \in Nat
         /\ Arrived \in 0 .. Len(All(sent)) /\ Arrived + Len(transit) = Len(All(sent))
         /\ All(sent) \in Seq(Bytes)
<1>1. sent \in Seq(Frames) /\ transit \in Seq(Bytes) /\ Len(transit) <= Len(All(sent))
  BY DEF FrameInv
<1>2. Len(sent) \in 0 .. Len(sent)
  BY <1>1
<1>3. All(sent) \in Seq(Bytes)
  BY <1>1, <1>2, EncodingsUnroll DEF All
<1>4. Arrived = Len(All(sent)) - Len(transit)
  BY DEF Arrived, All
<1>5. Len(All(sent)) \in Nat /\ Len(transit) \in Nat
  BY <1>1, <1>3
<1> QED BY <1>1, <1>3, <1>4, <1>5

(* A parser with an empty buffer at the start of a connection.             *)
LEMMA FreshStands ==
  ASSUME NEW p \in Parsers, p.pending.head <= p.pending.total,
         p.buffer = <<>>, p.state = "Control", p.out = <<>>
  PROVE  /\ <<>> \in Seq(Frames) /\ All(<<>>) = <<>>
         /\ p \in Reading(<<>>, 0) /\ Waits(p)
<1>1. <<>> \in Seq(Frames) /\ Len(<<>>) = 0 /\ 0 \in 0 .. Len(<<>>)
  OBVIOUS
<1>2. Encodings(<<>>)[0] = <<>> /\ Emissions(<<>>)[0] = <<>>
  BY <1>1, EncodingsUnroll, EmissionsUnroll
<1>3. All(<<>>) = <<>>
  BY <1>1, <1>2 DEF All
<1>4. Start(<<>>, 0, p) = 0
  BY <1>1, <1>2 DEF Start
<1>5. At(p, <<>>, 0, 0)
  BY <1>1, <1>2, <1>4 DEF At
<1>6. p \in Reading(<<>>, 0)
  BY <1>1, <1>5 DEF Reading
<1>7. Waits(p)
  <2>1. LineEnds(<<>>) = {}
    BY <1>1 DEF LineEnds
  <2> QED BY <2>1 DEF Waits
<1> QED BY <1>1, <1>3, <1>6, <1>7

(* So does one that was cleared, whatever m_pending still holds.           *)
LEMMA ConnectionStands ==
  ASSUME parser' \in Parsers, parser'.pending.head <= parser'.pending.total,
         parser'.buffer = <<>>, parser'.state = "Control", parser'.out = <<>>,
         sent' = <<>>, transit' = <<>>, dials' \in 0 .. MaxConnections
  PROVE  FrameInv'
<1>1. /\ <<>> \in Seq(Frames) /\ All(<<>>) = <<>>
      /\ parser' \in Reading(<<>>, 0) /\ Waits(parser')
  BY FreshStands
<1>2. All(sent)' = <<>> /\ transit' \in Seq(Bytes) /\ Len(transit') = 0
  <2>1. All(sent)' = All(sent')
    BY DEF All, Encodings
  <2> QED BY <1>1, <2>1
<1>3. Arrived' = 0
  <2>1. Arrived' = Len(All(sent)') - Len(transit')
    BY DEF Arrived, All
  <2>2. Len(All(sent)') = 0
    BY <1>2
  <2> QED BY <1>2, <2>1, <2>2
<1>4. Len(transit') <= Len(All(sent)')
  BY <1>2
<1>5. parser' \in Reading(sent', Arrived')
  BY <1>1, <1>3
<1>6. \A i \in 1 .. Len(transit') : transit'[i] = All(sent)'[Arrived' + i]
  BY <1>2
<1> QED BY <1>1, <1>2, <1>4, <1>5, <1>6 DEF FrameInv

(* The server sends a frame.                                               *)
LEMMA FramesSent ==
  ASSUME FrameInv, NEW headers \in Payloads, NEW payload \in Payloads,
         NEW line \in BOOLEAN, ServerSends(headers, payload, line)
  PROVE  FrameInv'
<1> DEFINE f == [headers |-> headers, payload |-> payload, line |-> line]
           all == All(sent)
           more == All(sent')
           bytes == Encode(f)
           e == Arrived
<1>1. \A s \in Payloads : s \in Seq(Bytes)
  <2> DEFINE B == {CR, LF, Text, Msg(0, MaxPayload)}
  <2>1. B \subseteq Bytes
    <3>1. 0 \in 0 .. MaxPayload /\ MaxPayload \in 0 .. MaxPayload
      BY FrameAssumption
    <3>2. Msg(0, MaxPayload) \in Bytes
      BY <3>1 DEF Bytes
    <3> QED BY <3>2 DEF Bytes
  <2> HIDE DEF B
  <2>2. ASSUME NEW s \in Payloads PROVE s \in Seq(Bytes)
    <3>1. PICK m \in 0 .. MaxPayload : s \in [1 .. m -> B]
      BY <2>2 DEF Payloads, SeqOf, B
    <3>2. m \in Nat
      BY <3>1, FrameAssumption
    <3>3. s \in [1 .. m -> Bytes]
      BY <2>1, <3>1
    <3> QED BY <3>2, <3>3, FunctionIsSeq
  <2> QED BY <2>2
<1>2. f \in Frames
  BY <1>1 DEF ServerSends, Frames
<1>3. /\ sent \in Seq(Frames) /\ transit \in Seq(Bytes) /\ dials \in 0 .. MaxConnections
      /\ Waits(parser) /\ parser \in Reading(sent, e)
      /\ \A i \in 1 .. Len(transit) : transit[i] = all[e + i]
  BY DEF FrameInv
<1>4. /\ Len(all) \in Nat /\ Len(transit) \in Nat /\ e \in 0 .. Len(all)
      /\ e + Len(transit) = Len(all) /\ all \in Seq(Bytes)
  BY ArrivedPart
<1>5. /\ sent' = Append(sent, f) /\ transit' = transit \o bytes
      /\ parser' = parser /\ dials' = dials
  BY DEF ServerSends
<1>6. /\ sent' \in Seq(Frames) /\ more = all \o bytes /\ parser \in Reading(sent', e)
  <2> HIDE DEF f, e
  <2> QED BY <1>2, <1>3, <1>4, <1>5, StandsWhenSent
<1>7. bytes \in Seq(Bytes) /\ Len(bytes) \in Nat
  <2> HIDE DEF f
  <2>1. bytes \in Seq(Bytes)
    BY <1>2, EncodedFrame
  <2> QED BY <2>1
<1> HIDE DEF f, all, bytes, e
<1>8. /\ transit' \in Seq(Bytes) /\ Len(transit') = Len(transit) + Len(bytes)
      /\ \A i \in 1 .. Len(transit) : transit'[i] = transit[i]
      /\ \A i \in 1 .. Len(bytes) : transit'[Len(transit) + i] = bytes[i]
  <2>1. transit \in Seq(Bytes) /\ bytes \in Seq(Bytes) /\ transit' = transit \o bytes
    BY <1>3, <1>5, <1>7
  <2> QED BY ONLY <2>1, Joined
<1>9. /\ more \in Seq(Bytes) /\ Len(more) = Len(all) + Len(bytes)
      /\ \A i \in 1 .. Len(all) : more[i] = all[i]
      /\ \A i \in 1 .. Len(bytes) : more[Len(all) + i] = bytes[i]
  <2>1. all \in Seq(Bytes) /\ bytes \in Seq(Bytes) /\ more = all \o bytes
    BY <1>4, <1>6, <1>7
  <2> HIDE DEF more
  <2> QED BY ONLY <2>1, Joined
<1>10. All(sent)' = more
  BY DEF All, Encodings
<1> DEFINE t == Len(transit)
           k == Len(bytes)
           a == Len(all)
<1>11. t \in Nat /\ k \in Nat /\ a \in Nat /\ e \in Nat /\ e + t = a
  BY <1>4, <1>7
<1>12. Arrived' = e /\ Len(transit') <= Len(more)
  <2>1. Arrived' = Len(more) - Len(transit')
    BY DEF Arrived, All, Encodings, more
  <2>2. Len(more) = a + k /\ Len(transit') = t + k
    BY <1>8, <1>9
  <2> HIDE DEF t, k, a, more
  <2> QED BY <1>11, <2>1, <2>2
<1>13. \A i \in 1 .. Len(transit') : transit'[i] = more[e + i]
  <2> TAKE i \in 1 .. Len(transit')
  <2> HIDE DEF more
  <2>1. i \in 1 .. t + k
    BY <1>8
  <2>2. CASE i <= t
    <3>1. i \in 1 .. t /\ e + i \in 1 .. a
      <4> HIDE DEF t, k, a
      <4> QED BY <1>11, <2>1, <2>2
    <3>2. transit'[i] = transit[i] /\ transit[i] = all[e + i]
      BY <1>3, <1>8, <3>1
    <3>3. more[e + i] = all[e + i]
      BY <1>9, <3>1
    <3> QED BY <3>2, <3>3
  <2>3. CASE ~ i <= t
    <3> DEFINE j == i - t
    <3>1. j \in 1 .. k /\ i = t + j /\ e + i = a + j
      <4> HIDE DEF t, k, a
      <4> QED BY <1>11, <2>1, <2>3
    <3> HIDE DEF j
    <3>2. j \in 1 .. Len(bytes)
      BY <3>1
    <3>3. transit'[Len(transit) + j] = bytes[j]
      BY <1>8, <3>2, Zenon
    <3>4. more[Len(all) + j] = bytes[j]
      BY <1>9, <3>2, Zenon
    <3> QED BY <3>1, <3>3, <3>4
  <2> QED BY <2>2, <2>3
<1>14. parser' \in Reading(sent', Arrived') /\ Waits(parser')
  BY <1>3, <1>5, <1>6, <1>12
<1>15. dials' \in 0 .. MaxConnections
  BY <1>3, <1>5
<1>16. /\ Len(transit') <= Len(All(sent)')
       /\ \A i \in 1 .. Len(transit') : transit'[i] = All(sent)'[Arrived' + i]
  <2> HIDE DEF more
  <2> QED BY <1>10, <1>12, <1>13
<1> QED BY <1>6, <1>8, <1>14, <1>15, <1>16 DEF FrameInv

(* onReadyRead() with the next bytes, however many.                        *)
LEMMA SegmentArrived ==
  ASSUME FrameInv, NEW n \in 1 .. Len(transit), Arrive(n)
  PROVE  FrameInv'
<1> DEFINE all == All(sent)
           e == Arrived
           segment == SubSeq(transit, 1, n)
           p == [parser EXCEPT !.buffer = @ \o segment]
           t == Len(transit)
           a == Len(all)
<1>1. /\ sent \in Seq(Frames) /\ transit \in Seq(Bytes) /\ dials \in 0 .. MaxConnections
      /\ parser \in Reading(sent, e)
      /\ \A i \in 1 .. t : transit[i] = all[e + i]
  BY DEF FrameInv
<1>2. /\ t \in Nat /\ a \in Nat /\ e \in 0 .. a /\ e \in Nat
      /\ e + t = a
  BY ArrivedPart
<1>3. parser' = ProcessBuffer(p) /\ transit' = Rest(transit, n)
      /\ sent' = sent /\ dials' = dials
  BY DEF Arrive, OnReadyRead
<1> HIDE DEF e, segment, p
<1>4. n \in 0 .. Len(transit) /\ n \in Nat
  BY <1>2
<1>5. /\ segment \in Seq(Bytes) /\ Len(segment) = n
      /\ \A i \in 1 .. n : segment[i] = transit[i]
      /\ transit' \in Seq(Bytes) /\ Len(transit') = t - n
      /\ \A i \in 1 .. t - n : transit'[i] = transit[n + i]
  BY <1>1, <1>3, <1>4, CutAt DEF segment
<1> HIDE DEF all, t, a
<1>6. e + n \in 0 .. a /\ t - n <= a /\ n \in 1 .. t
  <2>1. n \in 1 .. t
    BY DEF t
  <2> QED BY <1>2, <1>4, <2>1
<1>7. \A i \in 1 .. n : segment[i] = all[e + i]
  <2>1. \A i \in 1 .. n : i \in 1 .. t
    BY <1>2, <1>6
  <2> QED BY <1>1, <1>5, <2>1
<1>8. p \in Reading(sent, e + n)
  <2>1. e \in 0 .. Len(All(sent)) /\ e + Len(segment) <= Len(All(sent))
    BY <1>2, <1>5, <1>6 DEF a, all
  <2>2. \A i \in 1 .. Len(segment) : segment[i] = All(sent)[e + i]
    BY <1>5, <1>7 DEF all
  <2>3. p \in Reading(sent, e + Len(segment))
    BY <1>1, <1>5, <2>1, <2>2, StandsWhenArrived DEF p
  <2> QED BY <1>5, <2>3
<1>9. parser' \in Reading(sent, e + n) /\ Waits(parser')
  <2>1. e + n \in 0 .. Len(All(sent))
    BY <1>6 DEF a, all
  <2> QED BY <1>1, <1>3, <1>8, <2>1, BufferProcessed
<1>10. All(sent)' = all /\ Arrived' = e + n
  <2>1. All(sent)' = all
    BY <1>3 DEF all, All, Encodings
  <2>2. Arrived' = Len(All(sent)') - Len(transit')
    BY DEF Arrived, All, Encodings
  <2>3. Arrived' = a - (t - n)
    BY <1>5, <2>1, <2>2 DEF a
  <2> QED BY <1>2, <1>4, <2>1, <2>3
<1>11. \A i \in 1 .. t - n : transit'[i] = all[e + n + i]
  <2>1. \A i \in 1 .. t - n : n + i \in 1 .. t /\ e + (n + i) = e + n + i
    BY <1>2, <1>4
  <2> QED BY <1>1, <1>5, <2>1
<1>12. /\ Len(transit') <= Len(All(sent)')
       /\ \A i \in 1 .. Len(transit') : transit'[i] = All(sent)'[Arrived' + i]
  BY <1>5, <1>6, <1>10, <1>11 DEF a
<1> QED BY <1>1, <1>3, <1>5, <1>9, <1>10, <1>12 DEF FrameInv

(* The invariant holds of a new client ...                                 *)
LEMMA FrameStart == FrameInit => FrameInv
<1> SUFFICES ASSUME FrameInit PROVE FrameInv
  OBVIOUS
<1>1. /\ parser = NewParser /\ sent = <<>> /\ transit = <<>> /\ dials = 0
      /\ 0 \in 0 .. MaxPayload /\ 0 \in 0 .. MaxConnections
  BY FrameAssumption DEF FrameInit
<1>2. /\ parser \in Parsers /\ parser.pending.head <= parser.pending.total
      /\ parser.buffer = <<>> /\ parser.state = "Control" /\ parser.out = <<>>
  BY <1>1 DEF NewParser, Parsers, Pending
<1>3. /\ <<>> \in Seq(Frames) /\ All(<<>>) = <<>>
      /\ parser \in Reading(<<>>, 0) /\ Waits(parser)
  BY <1>2, FreshStands
<1>4. Arrived = 0 /\ Len(transit) = 0
  <2>1. Arrived = Len(All(sent)) - Len(transit)
    BY DEF Arrived, All
  <2> QED BY <1>1, <1>3, <2>1
<1> QED BY <1>1, <1>3, <1>4 DEF FrameInv

(* ... and a connection that is lost or aborted leaves it so ...           *)
LEMMA Reconnected ==
  ASSUME FrameInv, Reconnect
  PROVE  FrameInv'
<1>1. parser \in Parsers /\ parser.pending.head <= parser.pending.total
  BY DEF FrameInv, Reading
<1>2. /\ parser' = [parser EXCEPT !.buffer = <<>>, !.state = "Control", !.out = <<>>]
      /\ sent' = <<>> /\ transit' = <<>>
  BY DEF Reconnect, ClearParser
<1>3. /\ parser' \in Parsers /\ parser'.pending.head <= parser'.pending.total
      /\ parser'.buffer = <<>> /\ parser'.state = "Control" /\ parser'.out = <<>>
  <2>1. parser.pending \in Pending
    BY <1>1, ParserTypes
  <2>2. parser' = [buffer |-> <<>>, state |-> "Control", pending |-> parser.pending,
                   out |-> <<>>]
    BY <1>1, <1>2 DEF Parsers
  <2>3. <<>> \in Seq(Bytes) /\ <<>> \in Seq(Emitted)
    OBVIOUS
  <2> QED BY <1>1, <2>1, <2>2, <2>3 DEF Parsers, Emitted
<1>4. dials' \in 0 .. MaxConnections
  <2>1. dials \in 0 .. MaxConnections /\ dials < MaxConnections /\ dials' = dials + 1
    BY DEF FrameInv, Reconnect
  <2> QED BY <2>1, FrameAssumption
<1> QED BY <1>2, <1>3, <1>4, ConnectionStands

(* ... as every other step does.                                           *)
LEMMA FrameStep == FrameInv /\ [FrameNext]_frameVars => FrameInv'
<1> SUFFICES ASSUME FrameInv, [FrameNext]_frameVars PROVE FrameInv'
  OBVIOUS
<1>1. CASE \E headers, payload \in Payloads : ServerSends(headers, payload, FALSE)
  BY <1>1, FramesSent
<1>2. CASE ServerSends(<<>>, <<>>, TRUE)
  <2>1. <<>> \in Payloads
    <3>1. <<>> \in [1 .. 0 -> {CR, LF, Text, Msg(0, MaxPayload)}]
      OBVIOUS
    <3>2. 0 \in 0 .. MaxPayload
      BY FrameAssumption
    <3> QED BY <3>1, <3>2 DEF Payloads, SeqOf
  <2> QED BY <1>2, <2>1, FramesSent
<1>3. CASE \E n \in 1 .. Len(transit) : Arrive(n)
  BY <1>3, SegmentArrived
<1>4. CASE Reconnect
  BY <1>4, Reconnected
<1>5. CASE UNCHANGED frameVars
  <2>1. parser' = parser /\ sent' = sent /\ transit' = transit /\ dials' = dials
    BY <1>5 DEF frameVars
  <2>2. All(sent)' = All(sent) /\ Arrived' = Arrived
    BY <2>1 DEF All, Arrived, Encodings
  <2> QED BY <2>1, <2>2 DEF FrameInv
<1> QED BY <1>1, <1>2, <1>3, <1>4, <1>5 DEF FrameNext

(* The inductive invariant, for frames and segments of any number and size *)
(* (NatsClient::processBuffer).                                            *)
THEOREM FrameInvariant == FrameSpec => []FrameInv
  BY FrameStart, FrameStep, PTL DEF FrameSpec

(* Types; the parser holds back no more than the frame under way, and the  *)
(* headers of a message are never longer than the message.                 *)
THEOREM ParserKeepsTypes == FrameSpec => []FrameTypeOK
<1>1. FrameInv => FrameTypeOK
  <2> SUFFICES ASSUME FrameInv PROVE FrameTypeOK
    OBVIOUS
  <2>1. /\ sent \in Seq(Frames) /\ parser \in Reading(sent, Arrived) /\ Waits(parser)
        /\ transit \in Seq(Bytes) /\ dials \in 0 .. MaxConnections
        /\ Arrived \in 0 .. Len(All(sent))
    BY ArrivedPart DEF FrameInv
  <2>2. parser \in Parsers /\ parser.pending.head <= parser.pending.total
    BY <2>1 DEF Reading
  <2>3. PICK n \in 0 .. Len(sent) : At(parser, sent, n, Arrived)
    BY <2>1 DEF Reading
  <2>4. Len(parser.buffer) <= MaxPayload + 1 \/ Len(parser.buffer) <= 2
    BY <2>1, <2>2, <2>3, WaitsInsideFrame
  <2>5. Len(parser.buffer) \in Nat /\ MaxPayload \in Nat
    BY <2>2, ParserTypes, FrameAssumption
  <2>6. Max({MaxPayload, 1}) \in Nat /\ Max({MaxPayload, 1}) >= MaxPayload
        /\ Max({MaxPayload, 1}) >= 1
    <3>1. \E x \in {MaxPayload, 1} : \A y \in {MaxPayload, 1} : x >= y
      BY <2>5
    <3>2. /\ Max({MaxPayload, 1}) \in {MaxPayload, 1}
          /\ \A y \in {MaxPayload, 1} : Max({MaxPayload, 1}) >= y
      BY <3>1 DEF Max
    <3> QED BY <2>5, <3>2
  <2>7. Len(parser.buffer) <= Max({MaxPayload, 1}) + 1
    <3> DEFINE m == Max({MaxPayload, 1})
               k == Len(parser.buffer)
    <3>1. /\ m \in Nat /\ m >= MaxPayload /\ m >= 1 /\ k \in Nat
          /\ k <= MaxPayload + 1 \/ k <= 2
      BY <2>4, <2>5, <2>6
    <3> HIDE DEF m, k
    <3>2. k <= m + 1
      BY <2>5, <3>1
    <3> QED BY <3>2 DEF m, k
  <2> QED BY <2>1, <2>2, <2>7 DEF FrameTypeOK
<1> QED BY <1>1, FrameInvariant, PTL

(* What was emitted is what was sent and has arrived as a whole, however   *)
(* the bytes came in segments, and whatever they spell.                    *)
THEOREM SegmentsDoNotMatter == FrameSpec => []EmitsWhatArrived
<1>1. FrameInv => EmitsWhatArrived
  <2> SUFFICES ASSUME FrameInv PROVE EmitsWhatArrived
    OBVIOUS
  <2>1. /\ sent \in Seq(Frames) /\ parser \in Reading(sent, Arrived) /\ Waits(parser)
        /\ Arrived \in 0 .. Len(All(sent))
    BY ArrivedPart DEF FrameInv
  <2>2. parser \in Parsers
    BY <2>1 DEF Reading
  <2>3. PICK n \in 0 .. Len(sent) : At(parser, sent, n, Arrived)
    BY <2>1 DEF Reading
  <2>4. WholeFrames = n
    BY <2>1, <2>2, <2>3, WholeAreDone DEF WholeFrames, Complete
  <2>5. parser.out = Emissions(sent)[n]
    BY <2>3 DEF At
  <2> QED BY <2>4, <2>5 DEF EmitsWhatArrived
<1> QED BY <1>1, FrameInvariant, PTL
=============================================================================
