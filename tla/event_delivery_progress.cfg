SPECIFICATION FairSpec
CONSTANTS
  Clients = {c1, c2}
  Channels = {"trading"}
  Changes = {1}
  ChannelOf <- OneChannel
  MaxConnections = 2
  MaxRepeats = 0
  SnapshotsFail = TRUE
  MaxDrops = 0
  MaxMessages = 1
INVARIANTS
  FanOutReachesAll
PROPERTIES
  PlacesReturn
  EventsArrive
CHECK_DEADLOCK FALSE
