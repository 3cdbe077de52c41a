CONSTANTS
  Size = 2
  Packets = 4
  MaxRequests = 1
  Base = 3
  Room = 5
  psize = 2
  Uninitialised <- Zero
  Senders <- BothSenders
  Messages <- Indices
  Attempts = 1
  NetworkMayFail = TRUE
SPECIFICATION Spec
INVARIANTS
  SenderTypeOK  EndsWhenAllIsSent
  QueuedIsWholeWhileKept NoWakeupIsLost
PROPERTIES RequestIsNotLost 
CHECK_DEADLOCK FALSE
