SPECIFICATION Spec
CONSTANTS
  Requests = {q1, q2, q3, q4}
  Trades = {t1}
  Prices = {p1}
  Results = {win}
  NULL = NULL
SYMMETRY Symmetry
INVARIANT ClosedOnce
CHECK_DEADLOCK FALSE
