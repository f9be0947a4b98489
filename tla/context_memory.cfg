SPECIFICATION Spec
CONSTANTS
  Requests = {q1, q2, q3, q4, q5}
  Crowds = {1, 5}
  Budget = 2
SYMMETRY Symmetry
INVARIANTS
  TypeOK
  OnlyWholeAnalyses
PROPERTIES
  FollowsConversation
CHECK_DEADLOCK FALSE
