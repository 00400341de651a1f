SPECIFICATION Spec
CONSTANTS
  Cfgs <- MCBoth
  Inputs <- FewInputs
  Dts = {1, 2}
  TimerCap = 4
INVARIANTS NeverBoth
