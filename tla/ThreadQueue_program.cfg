SPECIFICATION FairSpec
CONSTANTS
  c1 = c1
  c2 = c2
  NoThread = NoThread
  Consumers <- OneConsumer
  Limit = 10
  MaxInserts = 13
  Ops <- ProgramOps
INVARIANTS
  OnlyStaleDropped
PROPERTIES
  ImplementsFairWindow
  EveryItemLeaves
  ExpiryFreesBlocked
