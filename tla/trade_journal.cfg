SPECIFICATION FairSpec
CONSTANTS
  Requests = {q1, q2, q3, q4}
  Trades = {t1}
  Prices = {p1}
  Results = {win, loss}
  NULL = NULL
INVARIANTS
  TypeOK
  NoSilentChange
  ReflectionIsRemembered
  OnlyCommittedShows
PROPERTIES
  ClosedIsFinal
  FollowsLifecycle
  RequestsEnd
CHECK_DEADLOCK FALSE
