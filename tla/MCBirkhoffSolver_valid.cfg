SPECIFICATION Spec
CONSTANTS
  Order = 101
  Configs <- AllConfigs
  SignerSets <- AllSignerSets
INVARIANTS
  ValidSetsInterpolate
CHECK_DEADLOCK FALSE
