SPECIFICATION Spec
CONSTANTS
  MaxFrames = 3
INVARIANTS
  TypeOK
  TransientsReleased
  OneBufferPerFrame
  ReleasedOnce
  FreedByItsAllocator
  FinalizeReleasesAll
PROPERTIES
  ImplementsDetectLoop
CHECK_DEADLOCK FALSE
