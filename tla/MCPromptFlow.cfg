SPECIFICATION FlowSpec
CONSTANTS
  Subjects = {a, b}
  NoSubject = NoSubject
  Requests = {p1, p2}
  Prompts = {p1, p2}
  NoRequest = NoRequest
  Deltas = {1, 2}
  ErrorMark = ErrorMark
  Cap = 2
  MaxText = 4
  MaxChunks = 2
  MaxConnects = 2
  Chatty = FALSE
  ErrorEndsStream = FALSE
SYMMETRY Symmetry
INVARIANTS
  ChatTypeOK RoutingExact ViewMatches PairedHistory
  AnswersAddressee ShowsWhatWasHeard PromptsPublished
PROPERTIES OffscreenStable
CHECK_DEADLOCK FALSE
