SPECIFICATION Spec
CONSTANTS
  Owners = {o1, o2}
  o1 = o1
  o2 = o2
  Observer = o1
  None = None
  MaxAttempts = 2
  Backoff = 1
  Ttl = 1
  MaxTime = 2
  MaxGeneration = 4
  MaxLease = 2
  MaxSpawned = 1
INVARIANTS
  RowsAreSound
  RetriesAreSafe
  EveryJobCanEnd
  DecisionsAreSound
PROPERTIES
  CancelIsNotLost
CHECK_DEADLOCK FALSE
