SPECIFICATION Spec
CONSTANTS
  Sessions = {p1, p2}
  Tokens = {k1, k2}
  MaxPlayers = 2
  MaxZombieSessions = 2
  MaxWaitingTokens = 2
  MaxClaims = 1
CHECK_DEADLOCK FALSE
INVARIANTS
  
  TokenAdmitsOnce
  
PROPERTIES
  StopReturns
