SPECIFICATION FairSpec
CONSTANTS
  Frames <- SingleFrames
  MaxFrames = 2
  BusSetpoints = {}
  SpMin = 160
  SpMax = 280
  OobBauds = {}
  SelectTicks = 2
  Presses = 1
  Reboots = 0
  MayFail = {}
PROPERTIES WriteRecognised
