SPECIFICATION FairSpec
CONSTANTS
  NONE = NONE
  w1 = w1
  w2 = w2
  w3 = w3
  Workers = {w1, w2, w3}
  Image <- Images
  MaxStops = 2
  MaxRollbacks = 1
INVARIANTS
  TypeOK
  WholeUpgrades
  TablesAreThere
PROPERTIES
  NewestServe
CHECK_DEADLOCK FALSE
