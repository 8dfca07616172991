SPECIFICATION Spec
CONSTANTS
  MaxCommands = 1
  MaxVersion = 3
  MaxSeq = 3
  MaxInFlight = 2
INVARIANTS
  PauseDoesNotStop
