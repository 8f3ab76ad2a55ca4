SPECIFICATION Spec
CONSTANTS
  t1 = t1  t2 = t2  i1 = i1  i2 = i2  i3 = i3
  Turns = {t1}
  Items = {i1, i2, i3}
  Reserved = {i2}
  NoTurn = NoTurn
  Sessions = {s1, s2}
  Requests <- CrashRequests
  PreviewItems <- OnePreview
  Clock = {1}
  MaxSafe = 8
  MaxCheckpointTurns = 1  MaxCheckpointItems = 3
  MaxFloorTurns = 1  MaxFloorItems = 3
  MaxSessionEvents = 6
  MaxTotalEvents = 7
  MaxCrashes = 1
INVARIANTS JournalIsSound SequencerFollowsJournal PreviewTurnsAreWhole
PROPERTIES PurgeIsFinal ImplementsEventLog
CHECK_DEADLOCK FALSE
