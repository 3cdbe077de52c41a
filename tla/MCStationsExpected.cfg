CONSTANTS
  Radios = {1, 2, 3}
  Expected = {2}
  Unsteady = {1, 2, 3}
  Moves = {}
  None = None
SPECIFICATION StationsSpec
INVARIANT ExpectedPlays
CHECK_DEADLOCK FALSE
