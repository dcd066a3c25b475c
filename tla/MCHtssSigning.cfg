SPECIFICATION Spec
CONSTANTS
  keyA = keyA
  Order = 101
  Degree = 2
  Devices <- Group
  LocalShare <- Shares
  ConfigOf <- Policies
  Requests <- AllRequests
  SessionIds = {1, 2}
  MaxNonces <- Nonces
INVARIANTS
  AggregateSpeaksForSigners
  SingleUseKeepsSignaturesApart
  ReuseStaysInSession
  HonestRoundVerifies
CHECK_DEADLOCK FALSE
