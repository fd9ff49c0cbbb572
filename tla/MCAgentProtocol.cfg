SPECIFICATION FairProtocolSpec
CONSTANTS
  Prompts = {p1, p2}
  MaxChunks = 2
  MaxConnects = 2
  Chatty = TRUE
  ErrorEndsStream = TRUE
INVARIANTS ProtocolTypeOK NoOrphanInbox
PROPERTIES ImplementsStream StreamsEnd
CHECK_DEADLOCK FALSE
