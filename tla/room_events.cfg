SPECIFICATION Spec
CONSTANTS
  Scenes <- MCScenes
  Tunings <- MCTunings
  Dts = {1, 2}
  VocRise = 5
  OnDelta = 2
  OffDelta = 1
  Co2Rise = 5
  Creep = 1
  OnAfter = 2
  OffAfter = 3
  Fall = 2
  Co2Fall = 5
  Stopped = 1
  OpenAfter = 2
  MinOpen = 3
  TimeCap = 5
INVARIANT TypeOK
PROPERTIES AlarmSound NoChatter ReleasedLate
