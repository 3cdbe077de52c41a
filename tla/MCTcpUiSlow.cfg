CONSTANTS
  Connections = 2
  Slow = {1}
  Leaving = {}
  CLIENTS_MAX = 2
  Lists <- TwoLists
  NoStations <- Empty
  MaxUpdates = 2
  None = None
SPECIFICATION FairTcpSpec
PROPERTY ReadersAreServed
CHECK_DEADLOCK FALSE
