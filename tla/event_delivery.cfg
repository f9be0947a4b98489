SPECIFICATION Spec
CONSTANTS
  Clients = {c1, c2}
  Channels = {"trading"}
  Changes = {1, 2}
  ChannelOf <- OneChannel
  MaxConnections = 1
  MaxRepeats = 1
  SnapshotsFail = TRUE
  MaxDrops = 1
  MaxMessages = 1
SYMMETRY Symmetry
INVARIANTS
  TypeOK
  EventsInOrder
  LimitKept
CHECK_DEADLOCK FALSE
