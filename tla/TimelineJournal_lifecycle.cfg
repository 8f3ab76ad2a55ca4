SPECIFICATION Spec
CONSTANTS
  t1 = t1  t2 = t2  i1 = i1  i2 = i2  i3 = i3
  Turns = {t1, t2}
  Items = {i1, i2, i3}
  Reserved = {}
  NoTurn = NoTurn
  Sessions = {s1}
  Requests <- LifecycleRequests
  PreviewItems <- NoPreview
  Clock = {1, 2}
  MaxSafe = 6
  MaxCheckpointTurns = 2  MaxCheckpointItems = 1
  MaxFloorTurns = 2  MaxFloorItems = 2
  MaxSessionEvents = 4
  MaxTotalEvents = 5
  MaxCrashes = 0
INVARIANTS RestoreIsFaithful PreparedEventsFit PruneIsSafe TurnsAreWellFormed
SYMMETRY TurnSymmetry
CHECK_DEADLOCK FALSE
