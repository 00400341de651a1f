SPECIFICATION FairSpec
CONSTANTS
  Images <- MCImages
  Timeout = 3
  TickMod = 16
  CtlPeriod = 2
  MaxDue = 1
  Prio <- MCPrio
INVARIANTS TypeOK WindowBounded OneIndication
PROPERTIES OnTime Lapses
