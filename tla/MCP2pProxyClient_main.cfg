SPECIFICATION Spec
CONSTANTS
  MaxClients = 3
  MaxPackets = 3
CHECK_DEADLOCK FALSE
INVARIANTS
  ReadyIsConnected
  OneConnectThread

  
