---------------------------- MODULE PromptStream ----------------------------
(***************************************************************************)
(* What agents/AgentProtocol.h promises the caller of sendPrompt(): while  *)
(* a request is open, responses in the order the agent sent them, without  *)
(* repetition (a lost one is skipped); after an error no more responses,   *)
(* and at the end an error, or completion if the agent did end its stream, *)
(* but never both; once the request is closed, nothing; and closed it is,  *)
(* some day.                                                               *)
(***************************************************************************)
EXTENDS Naturals, Sequences

CONSTANTS Prompts, MaxChunks

VARIABLES open,       \* requests that may still emit signals
          signals,    \* what each request emitted so far
          ended       \* requests whose stream the agent has ended

streamVars == <<open, signals>>
------------------------------------------------------------------------------
Error == [kind |-> "error"]
Complete == [kind |-> "complete"]

Failed(r) == \E i \in DOMAIN signals[r] : signals[r][i] = Error
Emits(r, signal) == signals' = [signals EXCEPT ![r] = Append(@, signal)]
Closes(r) == r \in open /\ open' = open \ {r}

Open(r) ==
  /\ r \notin open /\ signals[r] = <<>>
  /\ open' = open \cup {r} /\ UNCHANGED signals

(* A response the agent sent after all those emitted so far.               *)
Respond(r, n) ==
  /\ r \in open /\ ~ Failed(r)
  /\ \A i \in DOMAIN signals[r] : signals[r][i].n < n
  /\ Emits(r, [kind |-> "response", n |-> n])
  /\ UNCHANGED open

Report(r) == r \in open /\ ~ Failed(r) /\ Emits(r, Error) /\ UNCHANGED open
Succeed(r) ==
  r \in ended /\ Closes(r) /\ ~ Failed(r) /\ Emits(r, Complete)
Fail(r) == Closes(r) /\ Emits(r, Error)
EndFailed(r) == Closes(r) /\ Failed(r) /\ UNCHANGED signals

StreamInit == open = {} /\ signals = [r \in Prompts |-> <<>>]

StreamNext ==
  \E r \in Prompts :
    \/ Open(r) \/ \E n \in 1 .. MaxChunks : Respond(r, n)
    \/ Report(r) \/ Succeed(r) \/ Fail(r) \/ EndFailed(r)

RequestsEnd == \A r \in Prompts : r \in open ~> r \notin open

StreamSpec == StreamInit /\ [][StreamNext]_streamVars
=============================================================================
