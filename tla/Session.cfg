SPECIFICATION FairSpec
CONSTANTS
  MaxCommands = 2
  MaxVersion = 3
  MaxSeq = 3
  MaxInFlight = 2
INVARIANTS
  TypeOK
  Inductive
  DecidesOnSettledWorld
  NoLostWakeup
  ReplyIsKept
  TableHoldsOnlyInFlight
PROPERTIES
  WorldOnlyAdvances
  ReadsItsWrites
  PumpDeathStopsRunner
  CommandEnds
  SnapshotWakesIdle
