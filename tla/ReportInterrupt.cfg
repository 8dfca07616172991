SPECIFICATION Spec
CONSTANTS
  MaxEvents = 2
  MaxInterrupts = 1
  MaxFailures = 0
PROPERTIES
  CompletedReportStays
