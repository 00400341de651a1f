SPECIFICATION Spec
CONSTANTS
  MaxSelections = 1
  MaxLinks = 1
  MaxFaults = 1
  MaxWrites = 2
  MaxBoots = 1
  MaxItems = 32
  UintMax = 200000
  Owners <- MCOwners
  Texts <- MCTexts
  Length <- MCLength
  Multicast <- MCMulticast
INVARIANTS TypeOK SessionEnds SettingsTold
PROPERTIES RadioFollows
CHECK_DEADLOCK FALSE
