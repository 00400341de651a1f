SPECIFICATION FairSpec
CONSTANTS
  Frames <- BlockFrames
  MaxFrames = 2
  BusSetpoints = {280}
  SpMin = 160
  SpMax = 280
  OobBauds = {4}
  SelectTicks = 1
  Presses = 2
  Reboots = 1
  MayFail = {"store", "start"}
INVARIANTS TypeOK NoEcho AtMostOnce
CHECK_DEADLOCK FALSE
PROPERTIES FollowsProgrammingMode
