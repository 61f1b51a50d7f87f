SPECIFICATION StoreSpec
CONSTANTS
  Order <- MCOrder
  Default <- MCDefault
  None = None
INVARIANTS
  SavedSurvives
PROPERTIES
  RelayKept
