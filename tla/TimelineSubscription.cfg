SPECIFICATION Spec
CONSTANTS
  s1 = s1  s2 = s2  d1 = d1  d2 = d2
  Sessions = {s1, s2}
  Ids = {d1, d2}
  NoSession = NoSession
  MaxHead = 3
  PageLimit = 1
  PendingLimit = 2
  IdLimit = 2
  MaxConnections = 2
INVARIANTS RegistryIsSound NothingIsSkipped SubscribersAreCurrent ClientKnows
SYMMETRY SubscriptionSymmetry
CHECK_DEADLOCK FALSE
