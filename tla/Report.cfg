SPECIFICATION FairLogSpec
CONSTANTS
  MaxEvents = 5
  MaxInterrupts = 1
  MaxFailures = 1
  MaxTick = 2
  MaxTransactions = 1
INVARIANTS
  TypeOK
  OneRenderAtATime
  FinalReportIsComplete
  LoggedOnce
  SettledIsLogged
  PageTellsTheRun
PROPERTIES
  PageOnlyAdvances
  RefreshIsRendered
  ShutdownEnds
