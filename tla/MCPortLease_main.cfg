SPECIFICATION LeaseFairSpec
CONSTANTS
  NPorts = 3
  LeaseLength = 6
  LeaseRenew = 5
INVARIANTS
  LeaseHeld
  NothingLeftBehind
  OthersSpared
PROPERTIES
  ReleaseReturns
