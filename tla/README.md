# A TLA+ model of remarkable-nats-agents

A Qt application for the reMarkable tablet (and the desktop) that discovers AI
agents on a NATS bus, shows who is online, sends them prompts with notebook pages
attached, and streams their answers into per-agent conversations. This directory
models its core in TLA+, checks it with TLC, and proves what matters most of it for
all sizes with TLAPS.

## The system

Everything runs on one thread: Qt's event loop. A slot runs to completion, and the
signals it emits call other slots within the same turn, so **one turn is one
action** and a model's granularity is the slot with all it calls. What makes the
code hard is not threads but the order of turns: socket events, server lines,
timers and taps arrive in any order, messages are lost (core NATS delivers at most
once), and a connection may go away under everything that is in progress.

| Component | State | Operations | Talks to |
|---|---|---|---|
| `nats/NatsClient` | socket, TLS mode, handshake flag, queue, sid and inbox counters | connect, subscribe, unsubscribe, publish, slots of the socket | signals connected, disconnected, errorOccurred, messageReceived |
| its frame parser | buffer, state, announced lengths | onReadyRead | messageReceived |
| `nats/NatsCreds` | none | parse a .creds file, sign a nonce | called by completeHandshake |
| `agents/AgentProtocol`, requests | `m_bySid`: per request its `errored` mark and timer | sendPrompt, onMessage, timeout | NatsClient below; promptResponse, promptComplete, promptError above |
| `agents/AgentProtocol`, discovery | discovery sid, batch, window timer, heartbeat sid | discover, reply, heartbeat, window | agentsDiscovered, heartbeat |
| `agents/AppController`, configuration | address, creds, contexts, the saved "server" and "context" | constructor, loadRoster, useContext, setServerUrl, connectToServer | QSettings, `$AGENT_CHAT_CREDS`, config files, NATS CLI contexts |
| `agents/AppController`, the rest | connection label, roster, liveness hashes, timers, selection, staged attachments | slots on all of the above, selectAgent, sendPrompt, refresh, stageNotePages | AgentModel, ChatModel, NoteStore |
| `agents/ChatModel` | conversations, request index, visible conversation | append, delta, done, error, select | the ListView, by model signals |
| `notes/NoteStore` | the list of notebooks and pages | setRootPath, reload (once, at start) | files the device goes on changing |
| `rm/RmParser`, `rm/RmRenderer` | none | parse a page, render PNG or PDF | called by stageNotePages |
| QML views, `main.cpp`, scripts | presentation, wiring, test modes | | |

What makes each correct, in one line:

- **NatsClient**: CONNECT first, nothing in clear when TLS is asked for, the nonce of
  this connection signed, no id reused, signals that agree with the state, a queue
  that is flushed once and in order and never survives its connection.
- **Frame parser**: what is emitted depends on the bytes and not on how they are cut.
- **AgentProtocol**: each request ends once, with completion or an error and not
  both, and emits nothing after; no subscription outlives its request.
- **AppController**: an answer goes to the agent asked; the dot tells who was heard;
  the roster is the discovered one only while connected; pages go to the agent they
  were staged for, under the name of the page they are. After any
  restart the context saved is selected again, without one the saved address is in
  force, and the creds of a context are in force only while it is selected.
- **ChatModel**: index, rows and view agree, whatever is evicted or off screen.
- **NoteStore**: the list holds each notebook that has a page to attach and is not in
  the trash, once, the latest first, under its real folder.

PROJECT.json lists the hazards, each at its line, with the properties that would
catch it and, for those without one yet, the reason.

## Modules

    NatsConnection  <-refines-  NatsClient
    NatsClient, FrameParser  ---proofs---  NatsClientProofs
    Link  <-extends-  AgentProtocol  -refines->  PromptStream
                      AgentProtocol  ---proofs---  AgentProtocolProofs
    Link  <-extends-  Roster  ---proofs---  RosterProofs
    ChatModel  ---proofs---  ChatModelProofs
    PromptFlow  =  ChatModel + AgentProtocol (with Link)
    PromptFlow  -implements->  AgentProtocol        (PromptFlowProofs)
    Startup  =  Settings + NoteStore
    Startup  -implements->  Settings                (StartupProofs)
    PageBlocks, Attachments  ---proofs---  PageProofs
    Iteration: lemmas about loops, used by the proofs of Roster, Startup, pages, frames

Conventions: an object of the program is a record, its methods are operators from
record to record named after them, and a slot is an action that composes them. So
`connectToServer()` is `NewPrefix(Reset(Abort(c), tls, creds))`, in the order of the
code, and PromptFlow's `Send` is the protocol's `SendPrompt` and the two appends to
the chat model in one step. Operators that change a mapped definition in one respect
(`WriteUnqueued`, `FreshTwice`, `SelectAgentOnly`...) stand before it: each is a
plausible slip in that piece of code, used to show that a property notices it. No
action uses them.

**NatsConnection** is what callers have of `INatsConnection.h`'s outbound side, in the
order NatsClient's `write()` gives it (the header states none): a pipe that sends what
it accepted once, in order, and forgets it when it closes.
**NatsClient** is the client itself: variable `nc` is the object and what it wrote
to its socket (`wire`), `server` is what the INFO line said about TLS, `owners` the
history of subscriptions. A control line arrives whole; the random inbox prefix is
the number of dials, since 64 random bits are taken not to repeat. QSslSocket is
external: abort() emits disconnected() synchronously when the socket was connected,
and a write during the TLS handshake is sent encrypted. `disconnectFromServer()` is
called nowhere and not modelled.

**FrameParser** is the inbound half at the level of bytes: CR, LF and "text of a
line" are the byte values a parser can tell apart, and a payload may hold any of
them. `ProcessBuffer` is as many turns of the code's loop as the buffer has bytes; a
turn that can do nothing leaves the parser as it is.

**Link** is the connection as the upper layers see it and the controller's label
`m_connectionState`. It is the base of AgentProtocol and Roster.

**PromptStream** is what `AgentProtocol.h` promises a caller of sendPrompt(), with
`ended` for the streams whose terminator an agent sent, since completion must not be
reported of any other. **AgentProtocol** is the code: `proto` is the object,
`proto.bySid` its `m_bySid` with the mark and the timer of each entry, and `proto.heard`
the history of what it emitted; `routed`, `waiting` and `inflight` are the server's
subscriptions, the transport's queue and the messages under way; `agent` is the other
side. A prompt nobody listens for has the phase "absent", and the server's 503 on its
way: the refinement does not count it as ended, so it must be reported as an error.

The inactivity timer of an entry is "running" from the start that sendPrompt() gives it;
its interval may elapse at any time (`IntervalElapses`), which makes it "due", and then
its slot runs (`InactivityTimeout`) unless a message that is handled first starts it
again (`ResetInactivity`). Acks, queries, empty deltas and junk are one kind of message,
"other": they restart the timer and do nothing else (`Chatty` says whether agents send
them). Whether an agent may send chunks after an error is the constant
`ErrorEndsStream`: the protocol's section 9 says it may not, the code does not rely on
it. MCAgentProtocol assumes it, as PromptStream does; MCPromptFlow does not.

**ChatModel**: `chat.convs` is `m_convs`, `chat.reqConv` is `m_reqConv`, and
`chat.view` is the list a ListView would build from insert, remove, reset and
dataChanged alone. **PromptFlow** composes it with AgentProtocol and the
controller's selection.

**Roster** has discrete time: a running timer is the ticks it has left, and time
does not pass a timer that is due. `seen` is `m_lastSeenMs` and `m_intervalS` in
one, with ages instead of time stamps. Code that runs on the reply and in the window
timer of AgentProtocol, and on both signals in the controller, is in the same action.

**Settings** is where the app connects and with which creds: the constructor as the
chain of what it does (`RestoreServer`, `TakeEnvCreds`, `ScanContexts`,
`ResumeContext`, `LoadRoster`), the picker, the address field, and `Stop` at any
time, after which only `settings` (QSettings), `files` and `environment` are left.
Contexts may change on disk at any time, configs and the environment between two
starts, since they are read at start alone. An address keeps how it was written
(bare, nats, tls), for only a typed one is normalised. **NoteStore** is the list of
notebooks, read from a library of flat records whose parent links need not make a
tree; `FolderPath` follows them, a turn of the code's loop (`Climb`) at a time, up to
its guard. **Startup** is both in one
app: `Launch` is the constructor with all it reads.

Two things here are what the code does and no doc forbids: a picked context changes
the address that "connected" is said of, before anything is dialed; and a config that is
passed over, because it names creds alone, leaves these creds in force
(`LoadRosterFromJson`). `SavedIsShown` therefore speaks of what was dialed only without
a context, and `FirstUsableConfig` of roster and address, not of creds.

**Attachments**: one notebook on a device that goes on changing, the list scanned at
start, the staging of a range (with every choice of renderings that cannot be
saved), and the part of selectAgent() and sendPrompt() about attachments. A page
file is what the parser finds in it: nothing, no header, blank, typed, ink, mixed.

**PageBlocks** says what that is: the header check and the block loop of RmParser
over a file of which the app may have read any prefix, since the device can be
writing it. `reader` is the outer RmTaggedReader; a body is its declared length and
what decides its outcome (version, optional value, the length the point array says it
has, the room the body has for it, whether the tags are the expected ones). An array
longer than its body yields the points there is room for and one of defaults. parse()
returns true for a cut file, with the page of its whole blocks, so the page that is
attached may lack its latest strokes; what the docs say of cut files is `TruncationTells`.

## Runs

| Run | Question | Bounds |
|---|---|---|
| MCNats | handshake, encryption, ids, queue; does a dial end? does segmentation matter? | client: 2 dials (a reconnect over every state of the first), 3 subscriptions, 1 ping per connection; parser: 2 frames of up to 2 payload bytes in every segmentation, 1 reconnect |
| MCAgentProtocol | does it implement PromptStream, and does every request end? | 2 requests, 2 messages each besides error and terminator, 2 connections, `Chatty`; no symmetry, for liveness |
| MCPromptFlow | do index, rows and view agree, and does the screen show what was heard, under the right agent? | 2 agents, 2 prompts, 2 chunks, 2 connections, one exchange retained per conversation (m_cap 2, so that the second prompt evicts the row of a stream still running), agents that may go on after an error |
| MCController | one row per agent, and is its dot true? are attachments what their names say, for whom they were staged? what does a page cut anywhere parse to? | roster: 3 instances of 2 agents, one beating every 2 ticks, the others with a negative interval_s and so the default of 1; sweep of 2, window and debounce of 1. Attachments: 2 pages of every kind, 2 agents, a limit that a PDF of both fits and PNGs do not. Parser: files of up to 3 blocks of 10 sorts, cut at every byte; headers of 2 bytes stand for 43 and 8 |
| MCStartup | which address, creds, roster and notes are in force after any choices and restarts? | 2 contexts (one may be missing, one has no creds and may have no URL), 2 configs on disk and the bundled one, addresses told apart by who names them, 3 creds; libraries of 2 folders with any parents, circles and the trash included, and 2 documents, guard 3 for 32 |

MCNats and MCController each check several specifications that share no variable: a
behaviour of such a run is one of NatsClient or of FrameParser (of Roster, Attachments
or PageBlocks), chosen by its initial state, with the others' variables standing still.
That keeps the number of states the sum of theirs. ChatModel is checked under the
controller and the protocol, which are what calls it.

Each property of these runs has a mutant in PROJECT.json: an edit of one mapped
definition, of the kind a slip in that code would be, under which TLC finds the
property violated in the same run.

The bounds are the smallest at which the cases the properties are about occur
together: a second connection for what outlives the first; a second request or agent
for what may be confused with the first; a history one exchange too long; a slow and
a fast heartbeat behind one row. Cap 2 stands for the code's 20: eviction goes by
position, and `PairedHistory` needs it even. Time in Roster is scaled (30 s, 2 s, 800 ms
and 5 s become 1 to 3 ticks) so that each timer can fire before and after each other
one. Deadlock is not checked in these runs: nearly every one has counters (dials,
requests, messages) that run out, or a user who does nothing more.

Seven runs are expected to be violated, each by what the code does against what a line
of the repository says; PROJECT.json's findings quote the lines.

- **MCStartupEnv**: `$AGENT_CHAT_CREDS` is to override any config, but applying the
  saved context at start clears the flag that says so, and a config that names creds
  then wins.
- **MCStartupTyped**: a typed address is to stick across restarts, but one typed after a
  context was picked is overridden by that context at the next start.
- **MCStartupTrash**: the notebooks listed are to be none in the trash, but only a
  document's own parent is looked at, and one in a trashed folder is listed.
- **MCRosterDown**: disconnected() leaves the discovery window running, and the batch
  it delivers replaces the static roster while there is no connection.
- **MCAttachmentsPng**: a page with typed text only is rendered into a PDF but not
  as a PNG, although any page is said to be attachable in either format.
- **MCPageBlocksCut**: a truncated file is to fail the parse, or to leave bytes over, but
  one cut right behind the header of a block parses, with 0 bytes left over.
- **MCPromptFlowSettled**: a request whose agent reported an error is to be finalised by
  the terminator or the timeout, but with a chunk after the error the row is
  "streaming" again, and the terminator of an errored request reports nothing.

### Fairness

- `FairClientSpec`: Qt reports the outcome of each connection attempt and TLS
  handshake, and a server that accepted TCP says INFO or goes away. Nothing is
  assumed of users. (A server that accepts TCP and stays silent would hang the dial:
  the client has no timer of its own for it.)
- `FairProtocolSpec`: a running QTimer elapses and a due one has its slot run, if nobody
  starts or stops it again; neither is fair for a timer that messages restart for ever.
  Of messages it is assumed that a stream has finitely many, acks and junk included,
  which the bound `MaxChunks` makes so: an agent that never falls silent does keep its
  request open in the code. Nothing else is assumed of agents, the server or the
  connection: a request whose stream falls silent ends (`StreamsEnd`) even if all of
  them stop. What the property watches is that its timer runs from the prompt to the
  end, over errors and reconnects, and that no message stops it.

## Proofs

TLAPS proves, for all values of the constants:

- **ChatModelProofs**: `ChatInv` is inductive (well-formed rows, cap, one row per
  request, exact index, view in sync, only issued ids), from which `ChatTypeOK`,
  `RoutingExact` and `ViewMatches`. The argument goes by method: a lemma per operator
  (`SetConversation`, `AppendTo`, `Store`/`Reply`) shows that it preserves
  `ChatRecordInv`, and the actions are compositions of these. `IndexExact` needs
  `OneRowEach` (evicting a request's row must evict its only row) and `OnlyIssued` (a
  fresh id must not be in any row), and `ViewInSync` needs nothing of the others:
  that is why the invariant has these parts. `OffscreenStable`, an action property,
  follows from it step by step. `PairedHistory` is an invariant for an even cap, and
  the theorem says so: with an odd one eviction would part a prompt from its answer
  (the code's cap is 20). Assumed: the named assumptions of ChatModel (the empty
  subject and id are not subjects and ids, m_cap is positive).
- **NatsClientProofs**: `ClientInv` is inductive. `Coherent` is the strengthening: it
  ties the socket's TLS mode, the server's INFO and the flags together (for instance:
  connected, in clear, and INFO seen means greeted, without TLS asked for by either
  side), without which neither `NeverCleartext` nor `HandshakeFirst` is inductive. A
  lemma per method shows `ClientRecordInv` preserved. From it follow
  `HandshakeFirst`, `NeverCleartext`, `SignsOwnNonce`, `SignalsAgree`; and from
  `BelowCounters`, `NeverReused`. `ServerRegistry` adds what the server was told. The
  refinement of NatsConnection maps the pipe's `accepted` to what was written and what
  is still queued (`Outbound`), and `sent` to what of the wire is a caller's (`Said`):
  each action is a step of the pipe or a stutter.
  Of FrameParser, `FrameInv` says where the parser stands among all the bytes sent: n
  frames are done and emitted, and its buffer is what follows them, or what follows
  the line of the next one, up to the last byte that arrived (`At`). A turn keeps this
  and takes something, or the parser waits (`TurnReads`: `FirstLineEnd` says that the
  first line end in the buffer is the frame's own, whatever the payload spells); so
  processBuffer() ends with a parser that waits (`BufferProcessed`), and one that
  waits is inside a frame, so that n is the number of whole frames that have arrived
  (`WholeAreDone`). Payloads and segments of any size are covered.
- **RosterProofs**: `RosterInv` is inductive: the three properties with `MembersKnown`
  (an instance behind a row is on record, so that an unfresh one was heard once) and
  `SweptWhileJudged`. A sweep makes the verdict exact and each tick wears it by one,
  which is why `OnlineIsFresh` counts the time since the last sweep. The merge of
  replies into rows is a loop over the batch.
- **AgentProtocolProofs**: `ProtocolInv` (types and no orphaned inbox) is inductive whatever
  agents do. The refinement of PromptStream assumes `ErrorEndsStream`, and needs `StreamInv`: each request in flight is
  `Ongoing`, a relation between what was heard of it, what is on its way to it and
  what its agent has said. Chunks under way are later than those heard and not later
  than those said; a terminator is last under way and its agent has closed; after an
  error only a terminator is under way; a 503 is alone under way, of a prompt that no
  agent took. Each action then maps to a step of
  PromptStream or a stutter.
- **PromptFlowProofs**: the composition implements AgentProtocol (each step is one of
  the protocol or leaves it alone), and `FlowInv` is inductive: `ChatInv`,
  `ProtocolInv`, the label says "connected" only over a link that is up, the chat
  model shows the selected agent, and a request it has indexed is indexed under its
  addressee. `AnswersAddressee` and `PromptsPublished` follow. `SettledInv` adds that
  status and text of a retained row are those of the signals heard of its request, and
  that a request that is over was told of its end or went on after an error. From it
  follows `ShowsWhatWasHeard`; the text grows with the signals because the text of a
  longer history is that of its front, extended (`TextGrows`). `RowsSettle` proves what
  MCPromptFlowSettled refutes under the assumption `ErrorEndsStream`, under which no
  response follows an error (`Obedient`): agents that go on after an error are the one
  reason for rows that are never settled.
  Assumed: that the chat model's ids and texts are the protocol's (`OneAlphabet`);
  nothing of the agents.
- **StartupProofs**: of the settings, `SettingsInv` is inductive: of a running app,
  where each field comes from. `OwnCreds` needs the creds of different sources to be
  different files (`CredsAssumption`: otherwise the question has no meaning). `Resumed`
  says that the context selected is the saved one if it was found, and `InForce` that
  the saved address is in force without one; `urlSet` is true of every address that was
  saved, which is what tells a config that it comes too late. A lemma per step of the constructor; `TryConfigStep` is used three times,
  for the three places a config may be in. The composed app implements Settings, so
  these results are its own. Of the note store, `ListIsLibrary` holds of what any scan
  leaves (`Listed` is `Attachable` with a parent that is not the trash): after n turns the path of a document is a chain of folders that hangs
  together and ends at its parent (`Climbed`), and has n folders unless a turn found no
  folder to climb into.
- **PageProofs**: `BlocksInv` is inductive: as long as the loop runs the reader
  stands where the last whole block ends, with the page of the blocks so far. The
  boundaries grow (`EndsGrow`), so that the header taken there is the next block's and
  no other's (`NextBlock`), and what is counted at the end is what the file held;
  a file of whole blocks leaves no byte over (`CleanFilesExact`).
  `AttachInv` adds to the invariants of Attachments that the notes are in page order.
  `scan()` and both branches of `stageNotePages()` go through a list and take one thing
  or nothing of each item; `Flattened` says what such a loop leaves, and in which
  order, and gives the order of the notes, the names of the PNGs and the pages of the
  PDF. The device may write or delete any page at any time: `AttachInv` reads only what
  the app copied. `NoCarryOver` is inductive by itself.
- **Iteration** has what these proofs share. A loop over a list is a recursive function
  in the models; `Iterates` shows that such a function exists, and `TurnByTurn` and
  `LoopInvariant` that what each turn keeps holds after all of them. They rest on
  `SetInduction`, induction on the naturals stated for a set: the library states it for
  an operator, which the installed provers cannot instantiate.

Model-checked only: liveness (`DialEnds`, `StreamsEnd`), which is out of the prover's
reach. Every other property of a passing run is stated by a theorem; what the seven
other runs refute has none, but `RowsSettle`, which names the assumption it holds under.

## Not modelled

- NatsCreds (its outcome is an input of NatsClient), the JSON of messages beyond what
  routing and liveness read, parseHeaders (pure; its result is the kind of a message).
- The entries of a config (name and subject of each agent): a config lists agents or
  does not. Their parsing has no state.
- NoteStore's reload() by hand: nothing in the app calls it after the start. The names
  shown of folders and documents stand for themselves.
- Layout and drawing in RmRenderer; the QML views, but for the context picker, the
  address field and the list a ListView builds; the test modes of `main.cpp`; scripts.
- The fields of a stroke (coordinates, width, colour) and the characters of a text.

## Plan

Done, in this order: NatsClient and NatsConnection, ChatModel, Link, AgentProtocol and
PromptStream, PromptFlow, Roster, FrameParser, Attachments, PageBlocks; proofs of
ChatModel and NatsClient; Settings, NoteStore and Startup; liveness of the protocol;
proofs of Settings, Startup, AgentProtocol with its refinement, and PromptFlow; the
refinement of NatsConnection; proofs of Roster, NoteStore, PageBlocks, Attachments and
FrameParser, and of the texts and pairs of conversations.

Next:

1. **Attachments**: the envelope's encoded length, with escaping, against max_payload.
2. **Roster**: a rate of heartbeats per instance, and whether the re-discovery they
   trigger can starve.
3. **PageBlocks**: the range of lengths that varuints and u32 may take.
