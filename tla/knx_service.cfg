SPECIFICATION Spec
CONSTANTS
  Objects = {"humidity", "enable", "fault", "window", "setpoint"}
  Kind <- MCKind
  Parameters <- MCParameters
  Defaults <- Plain
  Asked = {22}
  Readings = {2}
  Top = 3
  Budget = 3
  MaxJitter = 1
  MaxAge = 2
  MaxChanges = 2
INVARIANTS TypeOK TickHeld ReadsAgree AlarmPrompt
PROPERTIES BusCatchesUp
