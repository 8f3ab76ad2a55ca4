SPECIFICATION FairSpec
CONSTANTS
  t1 = t1  t2 = t2  k1 = k1  k2 = k2
  Sessions = {s1}  ThisSession = s1
  Turns = {t1, t2}
  Items = {i1, user, error}
  Reserved = {}
  ProviderItems = {i1}  UserItem = user  ErrorItem = error
  Keys = {k1, k2}
  NoTurn = NoTurn  NoKey = NoKey
  Observations <- SomeObservations
  Clock = {1}
  MaxSafe = 7
  MaxCheckpointTurns = 2  MaxCheckpointItems = 3
  MaxCrashes = 1
INVARIANTS LedgerIsSound TurnsEndOnce AtMostOneDispatch AnswersAreTrue
PROPERTY CallsEnd
