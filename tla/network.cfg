SPECIFICATION NetworkSpec
CONSTANTS
  Addresses = {1, 2}
  MaxFlaps = 2
  MaxState = 1
  MaxCommands = 1
INVARIANTS NetworkTypeOK StationRecovers
PROPERTIES AdapterCatchesUp
CHECK_DEADLOCK FALSE
