CONSTANTS
  Radios = {1, 2, 3}
  Expected = {2, 3}
  Unsteady = {1, 2, 3}
  Moves <- UpAndDown
  None = None
SPECIFICATION FairStationsSpec
INVARIANTS StationsTypeOK ChosenIsListed
PROPERTIES PlayingIsNotDisturbed SilentIsDropped
