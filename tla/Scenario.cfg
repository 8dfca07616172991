SPECIFICATION FairScriptSpec
CONSTANTS
  MaxCommands = 6
  MaxVersion = 10
  MaxSeq = 10
  MaxInFlight = 4
  MaxStrays = 1
INVARIANTS
  HandledBeforeSending
  NoSpuriousFailure
  CompletedIsComplete
PROPERTIES
  EndsOrAwaits
  CompletesExercise
