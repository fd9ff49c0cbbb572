---------------------------- MODULE FrameParser ----------------------------
(***************************************************************************)
(* The inbound half of nats/NatsClient: bytes arrive in segments of any    *)
(* size, and onReadyRead() cuts them into control lines and the payloads   *)
(* that MSG and HMSG lines announce by length.                             *)
(*                                                                         *)
(* A byte is a tuple. CR and LF are themselves, a payload may hold them    *)
(* anywhere; the text of a control line is one byte that carries what      *)
(* handleControl() reads from it, and a payload may hold such text too.    *)
(* What a line other than MSG and HMSG does is in the module NatsClient.   *)
(***************************************************************************)
EXTENDS Naturals, Sequences, SequencesExt, FiniteSetsExt

CONSTANTS MaxPayload,     \* model bound: bytes of a frame's payload
          MaxFrames,      \* model bound: frames on a connection
          MaxConnections  \* model bound: connections

ASSUME FrameAssumption ==
  MaxPayload \in Nat /\ MaxFrames \in Nat /\ MaxConnections \in Nat

VARIABLES parser,    \* m_buffer, m_state and m_pending, and what was emitted
          sent,      \* ghost: the frames the server sent on this connection
          transit,   \* their bytes that have not arrived yet
          dials      \* connections so far, for the bound

frameVars == <<parser, sent, transit, dials>>
------------------------------------------------------------------------------
CR == <<"CR">>
LF == <<"LF">>
CRLF == <<CR, LF>>
Text == <<"text">>                            \* or PING, INFO, +OK, -ERR, ...
Msg(head, total) == <<"MSG", head, total>>    \* HMSG when head > 0

Bytes == {CR, LF, Text}
           \cup {Msg(head, total) : head, total \in 0 .. MaxPayload}

(* m_pending after a MSG or HMSG line; the lengths of the code's int.      *)
Pending == [head : 0 .. MaxPayload, total : 0 .. MaxPayload]
Parsers == [buffer : Seq(Bytes), state : {"Control", "Payload"},
            pending : Pending,
            out : Seq([headers : Seq(Bytes), payload : Seq(Bytes)])]
NewParser == [buffer |-> <<>>, state |-> "Control",
              pending |-> [head |-> 0, total |-> 0], out |-> <<>>]

(* readControlLine(): up to the first CRLF, if there is one.               *)
LineEnds(b) == {i \in 1 .. Len(b) - 1 : b[i] = CR /\ b[i + 1] = LF}
Rest(b, n) == SubSeq(b, n + 1, Len(b))

(* handleControl() of a line: MSG and HMSG announce a payload.             *)
HandleControlSwapped(p, line) ==
  IF line # <<>> /\ line[1][1] = "MSG"
  THEN [p EXCEPT !.state = "Payload",
                 !.pending = [head |-> line[1][3], total |-> line[1][2]]]
  ELSE p
HandleControl(p, line) ==
  IF line # <<>> /\ line[1][1] = "MSG"
  THEN [p EXCEPT !.state = "Payload",
                 !.pending = [head |-> line[1][2], total |-> line[1][3]]]
  ELSE p
ReadLine(p) ==
  LET end == Min(LineEnds(p.buffer))
  IN HandleControl([p EXCEPT !.buffer = Rest(@, end + 1)],
                   SubSeq(p.buffer, 1, end - 1))

(* deliverPending(): the announced bytes, and the CRLF after them.         *)
DeliverPending(p) ==
  LET frame == SubSeq(p.buffer, 1, p.pending.total)
  IN [p EXCEPT !.buffer = Rest(@, p.pending.total + 2), !.state = "Control",
               !.out = Append(@, [headers |-> SubSeq(frame, 1, p.pending.head),
                                  payload |-> Rest(frame, p.pending.head)])]

(* processBuffer(): turns of the loop until more bytes are needed. One     *)
(* that does anything takes two bytes at least, so that as many turns as   *)
(* the buffer has bytes are enough.                                        *)
PayloadHere(p) == Len(p.buffer) >= p.pending.total + 2
Turn(p) ==
  IF p.state = "Control"
  THEN IF LineEnds(p.buffer) = {} THEN p ELSE ReadLine(p)
  ELSE IF PayloadHere(p) THEN DeliverPending(p) ELSE p
ProcessBuffer(p) ==
  LET after[n \in 0 .. Len(p.buffer)] ==
        IF n = 0 THEN p ELSE Turn(after[n - 1])
  IN after[Len(p.buffer)]

(* onReadyRead()                                                           *)
OnReadyRead(p, segment) == ProcessBuffer([p EXCEPT !.buffer = @ \o segment])

(* The disconnected() lambda and connectToServer() both clear the parser;  *)
(* m_pending stays, and the next MSG line overwrites it.                   *)
ClearKeepsState(p) == [p EXCEPT !.buffer = <<>>, !.out = <<>>]
ClearParser(p) == [p EXCEPT !.buffer = <<>>, !.state = "Control", !.out = <<>>]
------------------------------------------------------------------------------
(* The server's side: a frame is a message, or any other line.             *)
Payloads == SeqOf({CR, LF, Text, Msg(0, MaxPayload)}, MaxPayload)
Encode(f) ==
  IF f.line THEN <<Text>> \o CRLF
  ELSE <<Msg(Len(f.headers), Len(f.headers) + Len(f.payload))>> \o CRLF
         \o f.headers \o f.payload \o CRLF

(* The bytes of the first n frames, and what they are to make the parser   *)
(* emit.                                                                   *)
Encodings(frames) ==
  LET bytes[n \in 0 .. Len(frames)] ==
        IF n = 0 THEN <<>> ELSE bytes[n - 1] \o Encode(frames[n])
  IN bytes
Emissions(frames) ==
  LET out[n \in 0 .. Len(frames)] ==
        IF n = 0 THEN <<>>
        ELSE IF frames[n].line THEN out[n - 1]
        ELSE Append(out[n - 1], [headers |-> frames[n].headers,
                                 payload |-> frames[n].payload])
  IN out

FrameInit ==
  parser = NewParser /\ sent = <<>> /\ transit = <<>> /\ dials = 0

ServerSends(headers, payload, line) ==
  /\ Len(sent) < MaxFrames /\ Len(headers) + Len(payload) <= MaxPayload
  /\ LET f == [headers |-> headers, payload |-> payload, line |-> line]
     IN sent' = Append(sent, f) /\ transit' = transit \o Encode(f)
  /\ UNCHANGED <<parser, dials>>

Arrive(n) ==
  /\ parser' = OnReadyRead(parser, SubSeq(transit, 1, n))
  /\ transit' = Rest(transit, n)
  /\ UNCHANGED <<sent, dials>>

Reconnect ==
  /\ dials < MaxConnections /\ dials' = dials + 1
  /\ parser' = ClearParser(parser) /\ sent' = <<>> /\ transit' = <<>>

FrameNext ==
  \/ \E headers, payload \in Payloads : ServerSends(headers, payload, FALSE)
  \/ ServerSends(<<>>, <<>>, TRUE)
  \/ \E n \in 1 .. Len(transit) : Arrive(n)
  \/ Reconnect

FrameSpec == FrameInit /\ [][FrameNext]_frameVars
------------------------------------------------------------------------------
(* Types; a frame's headers are never longer than the frame, and the       *)
(* parser holds back no more than the frame under way.                     *)
FrameTypeOK ==
  /\ parser \in Parsers
  /\ parser.pending.head <= parser.pending.total
  /\ Len(parser.buffer) <= Max({MaxPayload, 1}) + 1
  /\ transit \in Seq(Bytes)
  /\ dials \in 0 .. MaxConnections

(* Whatever the segments, what was emitted is what was sent and arrived:   *)
(* each message of a frame whose last byte is here, once, in order, with   *)
(* its headers and its payload apart, and nothing else; payloads that hold *)
(* line ends or look like control lines do not derail the parser, nor does *)
(* what an earlier connection left behind.                                 *)
Arrived == Len(Encodings(sent)[Len(sent)]) - Len(transit)
Complete(n) == Len(Encodings(sent)[n]) <= Arrived
WholeFrames == Max({n \in 0 .. Len(sent) : Complete(n)})
EmitsWhatArrived == parser.out = Emissions(sent)[WholeFrames]
=============================================================================
