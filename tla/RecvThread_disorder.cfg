SPECIFICATION FairSpec
CONSTANTS
  a = a
  b = b
  NoDatagram = NoDatagram
  DefaultAddress = DefaultAddress
  ListenPort = ListenPort
  Clients <- TwoClients
  Strangers <- OneStranger
  NFrames = 3
  FrameLen <- PlainLengths
  FrameId <- PlainIds
  IntSize = 4
  PackSize = 16
  WordMod = 64
  Words <- AnyWords
  AllocLimit = 50
  FaultKinds <- AnyFault
  MaxFaults = 3
INVARIANTS
  TypeOK
PROPERTIES
  EveryFrameAgainOrCrash
  ImplementsReceiver
CHECK_DEADLOCK FALSE
