SPECIFICATION Spec
CONSTANTS
  MaxFrames = 1
INVARIANTS
  ContextWasCreated
CHECK_DEADLOCK FALSE
