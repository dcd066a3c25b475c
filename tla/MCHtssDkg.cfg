SPECIFICATION Spec
CONSTANTS
  Devices <- Group
  ConfigOf <- Policies
  MaxDraws <- Draws
INVARIANTS
  EveryoneContributed
  AgreementUnlessReleasedTwice
  FinalizedPoliciesAgree
  AgreeingDevicesCanFinalize
