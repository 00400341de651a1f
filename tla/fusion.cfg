SPECIFICATION Spec
CONSTANTS
  Sources = {1, 2, 3}
  Readings = {0, 2, 99}
  MinValid <- MCMin
  MaxValid = 40
  Tunings <- MCTunings
  MaxStep = 1
  Quota = 1
  Dts = {1}
  AgeCap = 3
  Watched = 2
INVARIANTS TypeOK NotSuppressedForever
PROPERTIES DeadDropsOut SuspectsWitnessed
