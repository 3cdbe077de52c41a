CONSTANTS
  AudioReceiver = receiver
  AudioPlayer = player
  RexmitRequester = requester
  Threads = {receiver, player, requester}
  SocketMayFail = TRUE
  Radios = {1, 2}
  Expected = {2}
  Unsteady = {}
  Moves <- Up
  None = None
SPECIFICATION SessionSpec
INVARIANTS SessionTypeOK BufferHoldsOneStation 
PROPERTY ImplementsBarrier
