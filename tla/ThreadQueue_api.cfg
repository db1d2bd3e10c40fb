SPECIFICATION Spec
CONSTANTS
  c1 = c1
  c2 = c2
  NoThread = NoThread
  Consumers <- TwoConsumers
  Limit = 2
  MaxInserts = 5
  Ops <- EveryOp
INVARIANTS
  TypeOK
  MutexHolder
  NoLostWakeup
  FreshestSuffix
  DeliveredInOrder
PROPERTIES
  MonotoneReads
  ImplementsWindow
