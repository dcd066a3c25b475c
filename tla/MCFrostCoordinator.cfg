SPECIFICATION Spec
CONSTANTS
  Backends <- Both
  Messages <- AllMessages
  Calls <- AllCalls
  MaxPublished = 3
INVARIANTS
  TypeOK
  EveryMessageInOnePlace
  LossHasCause
  DeliveredAsAddressed
PROPERTY
  ImplementsMailbox
