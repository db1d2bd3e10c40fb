SPECIFICATION FairSpec
CONSTANTS
  a = a
  b = b
  Clients <- TwoClients
  Detector = Detector
  NoThread = NoThread
  NoClient = NoClient
  DefaultAddress = DefaultAddress
  Limit = 1
  MaxInserts = 4
INVARIANTS
  TypeOK
  ReplyToFirstClient
  NoFrameVanishes
PROPERTIES
  AddressNotRaced
  EveryFrameSettled
  ImplementsService
CHECK_DEADLOCK FALSE
