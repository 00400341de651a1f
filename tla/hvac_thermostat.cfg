SPECIFICATION Spec
CONSTANTS
  Cfgs <- MCCfgs
  Inputs <- MCInputs
  Dts = {1, 2}
  TimerCap = 4
INVARIANTS TypeOK NeverBoth OutputsSafe RoomServed
PROPERTIES ChangeoverKept
