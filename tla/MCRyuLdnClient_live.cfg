SPECIFICATION FairSpec
CONSTANTS
  RetryMax = 1
  AutoReconnect = TRUE
  DelayOf <- MCDelayOf
  HandshakeTimeout = 2
  PingInterval = 0
  PingTimeout = 2
  AgeMax = 3
  Reachable = TRUE
  Packets <- LivePackets
  MaxInbox = 1
PROPERTIES
  HandshakeTerminates
  BackoffEndsWhenSocketDown
