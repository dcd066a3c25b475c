SPECIFICATION FairServiceSpec
CONSTANTS
  N = 2
  Sessions <- Ids
  Broken = {}
  MaxDraws <- Draws
  Histories <- AllHistories
INVARIANTS
  CountingCollectsEveryone
  FinalizedSharesAreOfThisRun
PROPERTY
  CompletesUnlessFault
CHECK_DEADLOCK FALSE
