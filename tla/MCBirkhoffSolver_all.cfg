SPECIFICATION Spec
CONSTANTS
  Order = 101
  Configs <- AllConfigs
  SignerSets <- AllSignerSets
INVARIANTS
  CoefficientsReconstruct
  SingularIffDeterminantZero
  RankedSetsInterpolate
  SurplusSignersObeyTheRule
CHECK_DEADLOCK FALSE
