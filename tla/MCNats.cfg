SPECIFICATION MCSpec
CONSTANTS
  MaxDials = 2
  MaxSubs = 3
  MaxPongs = 1
  MaxPayload = 2
  MaxFrames = 2
  MaxConnections = 1
INVARIANTS
  ClientTypeOK HandshakeFirst NeverCleartext SignsOwnNonce SignalsAgree
  NeverReused ServerRegistry FrameTypeOK EmitsWhatArrived
PROPERTIES ImplementsPipe DialEnds
CHECK_DEADLOCK FALSE
