SPECIFICATION Spec
CONSTANTS
  Plans <- MCPlans
  Rooms <- MCRooms
  Flows = {0, 30}
  Air <- MCAir
  DewTable <- MCDew
  ContentTable <- MCContent
  MaxAsks <- MCAsks
INVARIANTS TypeOK BusWins
PROPERTIES EachIsServed DewHeld
