SPECIFICATION Spec
CONSTANTS
  N = 2
  Sessions <- Group
  MaxDraws <- Draws
  Broken = {2}
INVARIANTS
  TypeOK
  EveryoneContributed
  AgreementUnlessReleasedTwice
  OutsiderNeverFinalizes
