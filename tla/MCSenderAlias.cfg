CONSTANTS
  Size = 2
  Packets = 4
  MaxRequests = 1
  Base = 3
  Room = 5
  psize = 2
  Uninitialised <- Zero
  Senders <- BothSenders
  Messages <- Indices
  Attempts = 1
  NetworkMayFail = FALSE
SPECIFICATION Spec
INVARIANT SentIsWhole
CHECK_DEADLOCK FALSE
