SPECIFICATION DelaySpec
CONSTANTS
  Limit = 2048
  CountMax = 6
  Configs <- AllConfigs
INVARIANTS
  ProductNeverWraps
  DelayFollowsFormula
