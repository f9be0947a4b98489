SPECIFICATION Spec
CONSTANTS
  Clients = {c1}
  Channels = {"trading"}
  Changes = {1}
  ChannelOf <- OneChannel
  MaxConnections = 2
  MaxRepeats = 0
  SnapshotsFail = FALSE
  MaxDrops = 0
  MaxMessages = 2
INVARIANTS
  SnapshotPlusStream
CHECK_DEADLOCK FALSE
