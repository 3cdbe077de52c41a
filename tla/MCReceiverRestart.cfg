CONSTANTS
  AudioReceiver = receiver
  AudioPlayer = player
  RexmitRequester = requester
  Threads = {receiver, player, requester}
  SocketMayFail = FALSE
  Radios = {1}
  Expected = {}
  Unsteady = {}
  Moves = {}
  None = None
SPECIFICATION FairSessionSpec
INVARIANTS ReadyMeansParked RoundsDoNotMix
PROPERTIES BarrierCompletes 
