----------------------------- MODULE NatsClient -----------------------------
(***************************************************************************)
(* nats/NatsClient: the NATS client over one QSslSocket. TCP connect, the  *)
(* server's INFO, the TLS upgrade, CONNECT, the queue of commands written  *)
(* before the handshake is done, subscription ids and reply inboxes, and   *)
(* reconnection over a connection in any state.                            *)
(*                                                                         *)
(* Every slot runs to completion in one turn of the event loop, so it is   *)
(* one action. The object (with what it wrote to its socket) is the record *)
(* `nc`; operators from record to record model the methods.                *)
(*                                                                         *)
(* Abstractions: a control line arrives whole (the frame parser's buffer   *)
(* is not in this module); the random inbox prefix is the number of dials  *)
(* so far (64 random bits do not repeat); a command is its verb, its       *)
(* subscription and its reply inbox; errorOccurred() changes nothing here. *)
(***************************************************************************)
EXTENDS Integers, Sequences, FiniteSets

CONSTANTS MaxDials,   \* model bound: calls of connectToServer
          MaxSubs,    \* model bound: subscriptions ever made
          MaxPongs    \* model bound: server pings answered per connection

ASSUME ClientBounds == MaxDials \in Nat /\ MaxSubs \in Nat /\ MaxPongs \in Nat

VARIABLES nc,       \* the NatsClient object
          server,   \* what the current connection's INFO said of TLS
          owners    \* every subscription ever made, by who listens to it

clientVars == <<nc, server, owners>>
------------------------------------------------------------------------------
Dials == 0 .. MaxDials       \* connections, by the dial that made them
Counters == Nat \ {0}
Inboxes == Dials \X Nat

Commands ==
  [verb : {"CONNECT"}, jwt : BOOLEAN, nonce : Dials]
    \cup [verb : {"PONG"}]
    \cup [verb : {"SUB"}, sid : Nat, inbox : Inboxes]
    \cup [verb : {"UNSUB"}, sid : Nat]
    \cup [verb : {"PUB"}, inbox : Inboxes]

Queues == Seq(Commands)
Wires == Seq([cmd : Commands, secure : BOOLEAN])

Clients ==
  [sock : {"unconnected", "connecting", "connected"},   \* m_socket.state()
   ssl : {"plain", "handshaking", "secure"},            \* m_socket's TLS mode
   handshakeDone : BOOLEAN, encrypted : BOOLEAN, tls : BOOLEAN,
   creds : {"none", "good", "bad"},    \* m_credsPath: empty, loads, fails to
   nonce : Dials,                      \* whose INFO m_nonce is from, 0 = empty
   pending : Queues,                   \* m_pendingWrites
   nextSid : Counters,
   prefix : Dials, nextInbox : Counters,
   wire : Wires,                       \* what was written to m_socket
   told : BOOLEAN]       \* the last of connected()/disconnected() emitted

Listeners == [sid : Nat, inbox : Inboxes, open : BOOLEAN, dial : Dials]

NewClient ==
  [sock |-> "unconnected", ssl |-> "plain",
   handshakeDone |-> FALSE, encrypted |-> FALSE, tls |-> FALSE,
   creds |-> "none", nonce |-> 0, pending |-> <<>>, nextSid |-> 1,
   prefix |-> 0, nextInbox |-> 1, wire |-> <<>>, told |-> FALSE]

IsConnected(c) == c.handshakeDone /\ c.sock = "connected"

(* m_socket.write(): QSslSocket holds what is written during the TLS       *)
(* handshake and sends it encrypted.                                       *)
SocketWrite(c, cmd) ==
  [c EXCEPT !.wire = Append(@, [cmd |-> cmd, secure |-> c.ssl # "plain"])]

(* write(): on the wire after the handshake, queued before it.             *)
WriteUnqueued(c, cmd) ==
  IF c.handshakeDone \/ c.sock = "connected"
  THEN SocketWrite(c, cmd)
  ELSE [c EXCEPT !.pending = Append(@, cmd)]
Write(c, cmd) ==
  IF c.handshakeDone THEN SocketWrite(c, cmd)
                     ELSE [c EXCEPT !.pending = Append(@, cmd)]

(* The lambda on QSslSocket::disconnected; the socket is then unconnected. *)
OnDisconnected(c) ==
  [c EXCEPT !.sock = "unconnected", !.ssl = "plain",
            !.handshakeDone = FALSE, !.encrypted = FALSE,
            !.pending = <<>>, !.wire = <<>>, !.told = FALSE]

(* m_socket.abort(): disconnected() is emitted, synchronously, when the    *)
(* socket was connected; an attempt under way is dropped without it.       *)
AbortQuietly(c) == [c EXCEPT !.sock = "unconnected"]
Abort(c) == IF c.sock = "connected" THEN OnDisconnected(c)
                                    ELSE [c EXCEPT !.sock = "unconnected"]

(* connectToServer(): the sid counter is the one thing it leaves alone.    *)
Reset(c, tls, creds) ==
  [c EXCEPT !.sock = "connecting", !.ssl = "plain",
            !.handshakeDone = FALSE, !.encrypted = FALSE,
            !.tls = tls, !.creds = creds, !.nonce = 0,
            !.pending = <<>>, !.wire = <<>>]
NewPrefix(c) == [c EXCEPT !.prefix = @ + 1, !.nextInbox = 1]
ConnectToSidReset(c, tls, creds) ==
  [NewPrefix(Reset(Abort(c), tls, creds)) EXCEPT !.nextSid = 1]
ConnectToKeepsQueue(c, tls, creds) ==
  [NewPrefix(Reset(Abort(c), tls, creds)) EXCEPT !.pending = c.pending]
ConnectTo(c, tls, creds) == NewPrefix(Reset(Abort(c), tls, creds))

(* completeHandshake(): CONNECT, with the signed nonce when the user asked *)
(* for TLS and the credentials load; then the queue; then connected().     *)
FlushedWire(c) ==
  [i \in 1 .. Len(c.pending) |->
     [cmd |-> c.pending[i], secure |-> c.ssl # "plain"]]
CompleteHandshake(c) ==
  LET jwt == c.tls /\ c.creds = "good"
      hello == SocketWrite(c, [verb |-> "CONNECT", jwt |-> jwt,
                               nonce |-> IF jwt THEN c.nonce ELSE 0])
  IN [hello EXCEPT !.handshakeDone = TRUE,
                   !.wire = @ \o FlushedWire(c),
                   !.pending = <<>>, !.told = TRUE]

(* handleControl(), INFO: upgrade to TLS, or greet an unencrypted server.  *)
HandleInfoLateNonce(c, serverWantsTls) ==
  IF (c.tls \/ serverWantsTls) /\ ~ c.encrypted
  THEN [c EXCEPT !.ssl = "handshaking"]
  ELSE IF ~ c.handshakeDone THEN CompleteHandshake([c EXCEPT !.nonce = c.prefix])
  ELSE c
HandleInfoOwnTlsOnly(c, serverWantsTls) ==
  LET d == [c EXCEPT !.nonce = c.prefix]
  IN IF c.tls /\ ~ c.encrypted THEN [d EXCEPT !.ssl = "handshaking"]
     ELSE IF ~ c.handshakeDone THEN CompleteHandshake(d)
     ELSE d
HandleInfoAlwaysGreets(c, serverWantsTls) ==
  LET d == [c EXCEPT !.nonce = c.prefix]
  IN IF (c.tls \/ serverWantsTls) /\ ~ c.encrypted
     THEN [d EXCEPT !.ssl = "handshaking"]
     ELSE CompleteHandshake(d)
HandleInfo(c, serverWantsTls) ==
  LET d == [c EXCEPT !.nonce = c.prefix]
  IN IF (c.tls \/ serverWantsTls) /\ ~ c.encrypted
     THEN [d EXCEPT !.ssl = "handshaking"]
     ELSE IF ~ c.handshakeDone THEN CompleteHandshake(d)
     ELSE d

(* onEncrypted(): the TLS handshake is done; greet.                        *)
OnEncryptedWaits(c) == [c EXCEPT !.ssl = "secure", !.encrypted = TRUE]
OnEncrypted(c) ==
  CompleteHandshake([c EXCEPT !.ssl = "secure", !.encrypted = TRUE])

(* newInbox(), subscribe(), publish(), unsubscribe().                      *)
InboxSwapped(c) == <<c.nextInbox, c.prefix>>
Inbox(c) == <<c.prefix, c.nextInbox>>
NewInbox(c) == [c EXCEPT !.nextInbox = @ + 1]
Subscribe(c, inbox) ==
  Write([c EXCEPT !.nextSid = @ + 1],
        [verb |-> "SUB", sid |-> c.nextSid, inbox |-> inbox])
Publish(c, inbox) == Write(c, [verb |-> "PUB", inbox |-> inbox])
Unsubscribe(c, sid) == Write(c, [verb |-> "UNSUB", sid |-> sid])
------------------------------------------------------------------------------
ClientInit == nc = NewClient /\ server = "silent" /\ owners = <<>>

ConnectToServer(tls, creds) ==
  /\ nc.prefix < MaxDials
  /\ nc' = ConnectTo(nc, tls, creds)
  /\ server' = "silent"
  /\ UNCHANGED owners

(* TCP comes up, or the attempt fails: onSocketError() reports it.         *)
SocketConnected ==
  /\ nc.sock = "connecting"
  /\ nc' = [nc EXCEPT !.sock = "connected"]
  /\ UNCHANGED <<server, owners>>

SocketRefused ==
  /\ nc.sock = "connecting"
  /\ nc' = [nc EXCEPT !.sock = "unconnected"]
  /\ UNCHANGED <<server, owners>>

(* The server's first line is INFO; later ones announce cluster changes    *)
(* and agree with the first on TLS. No line arrives in a TLS handshake.    *)
LineArrives == nc.sock = "connected" /\ nc.ssl # "handshaking"

ReceiveInfo(wantsTls) ==
  /\ LineArrives
  /\ server \in {"silent", IF wantsTls THEN "tls" ELSE "plain"}
  /\ server' = IF wantsTls THEN "tls" ELSE "plain"
  /\ nc' = HandleInfo(nc, wantsTls)
  /\ UNCHANGED owners

Pongs == Cardinality({i \in DOMAIN nc.wire : nc.wire[i].cmd.verb = "PONG"})
ReceivePing ==
  /\ LineArrives /\ server # "silent" /\ Pongs < MaxPongs
  /\ nc' = SocketWrite(nc, [verb |-> "PONG"])
  /\ UNCHANGED <<server, owners>>

Encrypted ==
  /\ nc.sock = "connected" /\ nc.ssl = "handshaking"
  /\ nc' = OnEncrypted(nc)
  /\ UNCHANGED <<server, owners>>

(* The peer closes, the network drops, or the TLS handshake fails.         *)
Disconnected ==
  /\ nc.sock = "connected"
  /\ nc' = OnDisconnected(nc)
  /\ UNCHANGED <<server, owners>>

(* A request in one turn, as AgentProtocol makes it (sendPrompt, discover):*)
(* a fresh inbox, a subscription to it, a publication that names it. The   *)
(* code above the seam asks isConnected() or follows connected(), but a    *)
(* request may be made over any state of the socket.                       *)
Request ==
  /\ Len(owners) < MaxSubs
  /\ LET inbox == Inbox(nc)
     IN /\ nc' = Publish(Subscribe(NewInbox(nc), inbox), inbox)
        /\ owners' = Append(owners,
             [sid |-> nc.nextSid, inbox |-> inbox, open |-> TRUE,
              dial |-> IF nc.sock = "unconnected" THEN 0 ELSE nc.prefix])
  /\ UNCHANGED server

(* A listener ends (terminator, timeout, discovery window), maybe on a     *)
(* later connection than the one it subscribed on.                         *)
Release(o) ==
  /\ owners[o].open
  /\ nc' = Unsubscribe(nc, owners[o].sid)
  /\ owners' = [owners EXCEPT ![o].open = FALSE]
  /\ UNCHANGED server

Network ==
  \/ SocketConnected \/ SocketRefused
  \/ \E wantsTls \in BOOLEAN : ReceiveInfo(wantsTls)
  \/ Encrypted \/ Disconnected

ClientNext ==
  \/ \E tls \in BOOLEAN, creds \in {"none", "good", "bad"} :
       ConnectToServer(tls, creds)
  \/ Network \/ ReceivePing
  \/ Request
  \/ \E o \in DOMAIN owners : Release(o)

ClientSpec == ClientInit /\ [][ClientNext]_clientVars

(* Qt reports the outcome of every connection attempt and TLS handshake,   *)
(* and a NATS server opens with INFO (or the connection is lost).          *)
Opening ==
  /\ server = "silent"
  /\ Disconnected \/ \E wantsTls \in BOOLEAN : ReceiveInfo(wantsTls)
Upgrade == nc.ssl = "handshaking" /\ (Encrypted \/ Disconnected)
ClientFairness ==
  /\ WF_clientVars(SocketConnected \/ SocketRefused)
  /\ WF_clientVars(Opening)
  /\ WF_clientVars(Upgrade)
FairClientSpec == ClientSpec /\ ClientFairness
------------------------------------------------------------------------------
(* Types of the object, of the server's phase and of the listeners.        *)
ClientTypeOK ==
  /\ nc \in Clients
  /\ server \in {"silent", "plain", "tls"}
  /\ owners \in Seq(Listeners)

(* CONNECT is the first command of a connection and appears once; the      *)
(* handshake counts as done exactly while it is on the wire, and then      *)
(* nothing waits in the queue.                                             *)
GreetsFirst(c) ==
  /\ \A i \in DOMAIN c.wire : c.wire[i].cmd.verb = "CONNECT" <=> i = 1
  /\ c.handshakeDone <=> c.wire # <<>>
  /\ c.handshakeDone => c.sock = "connected" /\ c.pending = <<>>
HandshakeFirst == GreetsFirst(nc)

(* When the user's URL or the server asks for TLS, no command of any kind  *)
(* is written before the TLS handshake, pings and reconnects included.     *)
EncryptedWire(c, s) ==
  c.tls \/ s = "tls" => \A i \in DOMAIN c.wire : c.wire[i].secure
NeverCleartext == EncryptedWire(nc, server)

(* A signed CONNECT is encrypted and signs this connection's own nonce.    *)
OwnNonce(c) ==
  \A i \in DOMAIN c.wire :
    c.wire[i].cmd.verb = "CONNECT" /\ c.wire[i].cmd.jwt
      => c.wire[i].secure /\ c.wire[i].cmd.nonce = c.prefix
SignsOwnNonce == OwnNonce(nc)

(* A listener that goes by the connected() and disconnected() signals      *)
(* agrees with isConnected() after every turn, reconnects included.        *)
SignalsAgree == nc.told <=> IsConnected(nc)

(* How the socket's mode, the server's INFO and the flags hang together:   *)
(* the part of the inductive invariant that the above rest on.             *)
Coherent(c, s) ==
  /\ \A i \in DOMAIN c.pending : c.pending[i].verb # "CONNECT"
  /\ c.told <=> c.handshakeDone
  /\ c.encrypted <=> c.ssl = "secure"
  /\ c.ssl = "secure" => c.handshakeDone
  /\ c.ssl = "handshaking" => ~ c.handshakeDone
  /\ c.ssl # "plain" => c.sock = "connected" /\ c.nonce = c.prefix
  /\ c.ssl # "plain" \/ c.handshakeDone => s # "silent"
  /\ c.sock = "connecting" => s = "silent"
  /\ c.sock = "connected" /\ c.ssl = "plain" /\ s # "silent"
       => c.handshakeDone /\ ~ c.tls /\ s = "plain"
ClientRecordInv(c, s) ==
  /\ c \in Clients
  /\ GreetsFirst(c) /\ EncryptedWire(c, s) /\ OwnNonce(c) /\ Coherent(c, s)

(* Ids and inboxes given out so far lie below the counters.                *)
BelowCounters(c, listeners) ==
  \A o \in DOMAIN listeners :
    /\ listeners[o].sid < c.nextSid
    /\ listeners[o].inbox[1] <= c.prefix
    /\ listeners[o].inbox[1] = c.prefix => listeners[o].inbox[2] < c.nextInbox

(* No subscription id or reply inbox is ever given out twice in the life   *)
(* of the process: not within a connection and not across reconnects.      *)
NeverReused ==
  \A o, p \in DOMAIN owners :
    o # p => owners[o].sid # owners[p].sid /\ owners[o].inbox # owners[p].inbox

(* The inductive invariant of the client.                                  *)
ClientInv ==
  /\ ClientTypeOK
  /\ ClientRecordInv(nc, server)
  /\ BelowCounters(nc, owners) /\ NeverReused

(* What the connection was given to say, CONNECT aside: on the wire after  *)
(* CONNECT, then in the queue. Nothing without a connection or a dial.     *)
Said(wire) ==
  IF wire = <<>> THEN <<>> ELSE [i \in 1 .. Len(wire) - 1 |-> wire[i + 1].cmd]
Outbound(c) ==
  IF c.sock = "unconnected" THEN <<>> ELSE Said(c.wire) \o c.pending

(* What the server will have seen of subscriptions once the wire and the   *)
(* queue are processed is what the listeners of this connection expect,    *)
(* though listeners of earlier connections unsubscribe over this one.      *)
Named(q, verb) == {q[i].sid : i \in {j \in DOMAIN q : q[j].verb = verb}}
Asked == {o \in DOMAIN owners : owners[o].dial = nc.prefix}
ServerRegistry ==
  nc.sock # "unconnected" =>
    Named(Outbound(nc), "SUB") \ Named(Outbound(nc), "UNSUB")
      = {owners[o].sid : o \in {p \in Asked : owners[p].open}}

(* A connection attempt does not hang between TCP and CONNECT: it is       *)
(* greeted, or lost. (The user may also start another one.)                *)
DialEnds ==
  \A n \in 1 .. MaxDials :
    (nc.prefix = n /\ nc.sock = "connecting")
      ~> (nc.prefix # n \/ nc.handshakeDone \/ nc.sock = "unconnected")

(* The client implements the pipe of INatsConnection.                      *)
Phase(c) ==
  IF c.sock = "unconnected" THEN "down"
  ELSE IF c.handshakeDone THEN "up" ELSE "dialing"
Pipe == INSTANCE NatsConnection WITH
  phase <- Phase(nc), accepted <- Outbound(nc), sent <- Said(nc.wire)
ImplementsPipe == Pipe!PipeSpec
=============================================================================
