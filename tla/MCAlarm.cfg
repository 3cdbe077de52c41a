CONSTANTS
  duration = 5
  Strays = 2
SPECIFICATION FairAlarmSpec
INVARIANTS AlarmTypeOK OneRoundIsUnderWay
PROPERTIES QuietRoundsAreApart KeepsReporting
