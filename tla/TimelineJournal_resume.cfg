SPECIFICATION Spec
CONSTANTS
  t1 = t1  t2 = t2  i1 = i1  i2 = i2  i3 = i3
  Turns = {t1, t2}
  Items = {i1, i2}
  Reserved = {}
  NoTurn = NoTurn
  Sessions = {s1}
  Requests <- ShortRequests
  PreviewItems <- NoPreview
  Clock = {1}
  MaxSafe = 5
  MaxCheckpointTurns = 2  MaxCheckpointItems = 2
  MaxFloorTurns = 2  MaxFloorItems = 2
  MaxSessionEvents = 4
  MaxTotalEvents = 4
  MaxCrashes = 1
PROPERTIES NewTurnsAfterRestart
CHECK_DEADLOCK FALSE
