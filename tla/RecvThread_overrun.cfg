SPECIFICATION Spec
CONSTANTS
  a = a
  b = b
  NoDatagram = NoDatagram
  DefaultAddress = DefaultAddress
  ListenPort = ListenPort
  Clients <- OneClient
  Strangers <- NoStrangers
  NFrames = 3
  FrameLen <- PlainLengths
  FrameId <- SmallIds
  IntSize = 4
  PackSize = 16
  WordMod = 64
  Words <- AnyWords
  AllocLimit = 63
  FaultKinds <- Losses
  MaxFaults = 1
INVARIANTS
  CopyFits
CHECK_DEADLOCK FALSE
