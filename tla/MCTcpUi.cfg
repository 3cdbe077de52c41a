CONSTANTS
  Connections = 3
  Slow = {}
  Leaving = {1}
  CLIENTS_MAX = 2
  Lists <- TwoLists
  NoStations <- Empty
  MaxUpdates = 2
  None = None
SPECIFICATION FairTcpSpec
INVARIANTS TcpTypeOK CountMatchesHandlers UpdatesGoToTheirClient
PROPERTY ReadersAreServed
CHECK_DEADLOCK FALSE
