SPECIFICATION SpendSpec
CONSTANTS
  Order = 7
  Configs <- AllConfigs
  SignerLists <- AllSignerLists
  Random = {1, 3, 4}
  Policies <- AllPolicies
  Hashes <- AllHashes
  Payments = {1, 2, 4, 6}
  Challenges = {0, 1, 5}
INVARIANTS
  EverySetOpensTheKey
  SharesServeThePolicy
  TweakOpensOutput
  TweakFitsAddress
  SpendsVerify
  WellRankedQuorumsPass
CHECK_DEADLOCK FALSE
