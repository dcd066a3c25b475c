SPECIFICATION FairSpec
CONSTANTS
  Devices <- Pair
  Messages <- AllMessages
  Directory <- Keys
  Stamps = {1}
  MaxConnects <- Connects
  MaxPublishes <- Publishes
INVARIANTS
  TypeOK
  ConnectionHasItsThread
  OneCopyPerEventAndThread
PROPERTIES
  ImplementsMailbox
  CallsReturn
  AbandonedThreadsEnd
CHECK_DEADLOCK FALSE
