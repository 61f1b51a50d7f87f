SPECIFICATION Spec
CONSTANTS
  Threads = {ipc1, ipc2}
  Sessions = {s1}
  Fds = {fd3, fd4}
  EphemeralPorts = {5}
  OtherPorts = {7}
  LdnIps = {1}
  MaxProxySockets = 2
  MaxPendingPackets = 1
  MaxTargets = 2
  MaxDescriptors = 2
SYMMETRY Symmetry
CHECK_DEADLOCK FALSE
INVARIANTS
  TypeOK
  
  
