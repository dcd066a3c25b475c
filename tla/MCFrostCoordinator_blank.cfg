SPECIFICATION Spec
CONSTANTS
  Backends = {"LocalNostrEventTransport"}
  Messages <- AllMessages
  Calls <- AllCalls
  MaxPublished = 3
INVARIANTS
  LossIsSelective
