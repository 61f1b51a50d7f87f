SPECIFICATION Spec
CONSTANTS
  RetryMax = 2
  AutoReconnect = TRUE
  DelayOf <- MCDelayOf
  HandshakeTimeout = 2
  PingInterval = 1
  PingTimeout = 2
  AgeMax = 3
  Reachable = FALSE
  Packets <- Packet
  MaxInbox = 1
INVARIANTS
  HandshakeWasSent
  CallbackKnowsState
PROPERTIES
  ErrorOnlyLeftByDisconnect
  ReadyOnlyByAnswer
