SPECIFICATION FairSpec
CONSTANTS
  a = a
  b = b
  NoDatagram = NoDatagram
  DefaultAddress = DefaultAddress
  ListenPort = ListenPort
  Clients <- OneClient
  Strangers <- NoStrangers
  NFrames = 4
  FrameLen <- PlainLengths
  FrameId <- PlainIds
  IntSize = 4
  PackSize = 16
  WordMod = 64
  Words <- AnyWords
  AllocLimit = 63
  FaultKinds <- Losses
  MaxFaults = 1
INVARIANTS
  AcceptedIsGenuine
  CopyFits
PROPERTIES
  EveryFrameAgain
