SPECIFICATION Spec
CONSTANTS
  N = 2
  None = None
  MaxSaves = 2
  MaxFaults = 2
INVARIANTS WorkspaceIsSound AllOrNothing ReportsAreTrue
PROPERTY KnownSavesSurvive
CHECK_DEADLOCK FALSE
