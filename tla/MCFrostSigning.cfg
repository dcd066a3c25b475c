SPECIFICATION Spec
CONSTANTS
  keyA = keyA
  keyB = keyB
  Devices <- Group
  ShareKey <- Keys
  Handles <- AllHandles
  Request <- AllRequests
  PolicyOf <- AllPolicies
  MaxNonces <- Draws
  Broken = {2}
INVARIANTS
  TypeOK
  NonceSignsOnce
  AggregateSpeaksForSigners
  NoNonceInTwoSignatures
