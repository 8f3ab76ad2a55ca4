SPECIFICATION FairSpec
CONSTANTS
  QueueCapacity = 2
  SteerCapacity = 1
  MaxFrames = 4
  MaxOf <- AnyOrder
  MaxRepeats = 1
INVARIANTS ConnectionIsSound RequestsRunOnce ControlsHitTheirTurn
PROPERTIES ControlsArrive RequestsAreAnswered
CHECK_DEADLOCK FALSE
