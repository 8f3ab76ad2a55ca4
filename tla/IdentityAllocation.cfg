SPECIFICATION AllocationSpec
CONSTANTS
  MaxId = 4
  MaxRestarts = 2
INVARIANT RefusalsAreBounded
PROPERTY OnlyThePastRefuses
CHECK_DEADLOCK FALSE
