SPECIFICATION Spec
CONSTANTS
  Requests = {q1, q2, q3, q4, q5}
  Sessions = {s1}
  Ranges = {0, 1, 3, 9}
  Interval = 2
  MaxFrames = 4
  Crowds = {1, 5}
  NULL = NULL
SYMMETRY Symmetry
INVARIANTS
  TypeOK
  StandsOnAFrame
  NothingSilent
PROPERTIES
  FollowsPlayback
CHECK_DEADLOCK FALSE
