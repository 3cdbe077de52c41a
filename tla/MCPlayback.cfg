CONSTANTS
  Size = 3
  psize = 4
  FirstPacket = 1
  LastPacket = 5
SPECIFICATION PlaybackSpec
INVARIANTS
  PlaybackTypeOK NewestIsKept HoldsSaved
  PlayedIsThatPacket NothingIsSkipped
 
CHECK_DEADLOCK FALSE
