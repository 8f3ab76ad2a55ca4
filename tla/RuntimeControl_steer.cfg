SPECIFICATION Spec
CONSTANTS
  QueueCapacity = 1
  SteerCapacity = 1
  MaxFrames = 3
  MaxOf <- OneTurn
  MaxRepeats = 0
INVARIANT AcceptedSteersAreApplied
CHECK_DEADLOCK FALSE
