SPECIFICATION FairSpec
CONSTANTS
  a = a
  b = b
  NoDatagram = NoDatagram
  DefaultAddress = DefaultAddress
  ListenPort = ListenPort
  Clients <- OneClient
  Strangers <- NoStrangers
  NFrames = 48
  FrameLen <- AllLengths
  FrameId <- AllIds
  IntSize = 4
  PackSize = 16
  WordMod = 64
  Words <- AnyWords
  AllocLimit = 48
  FaultKinds <- NoFaults
  MaxFaults = 0
INVARIANTS
  AcceptedIsGenuine
  CopyFits
PROPERTIES
  EveryFrameAgain
