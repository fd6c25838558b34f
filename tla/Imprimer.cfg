CONSTANTS
  MaxTypes = 5
  MaxPrinters = 1
  MaxJobs = 3
  Conversions <- MCConversions
  MaxConversions = 7
  WithJobs = 1
SPECIFICATION Spec
INVARIANTS TypeOK  PipelineSound MissedOnly
PROPERTY SearchAdvances
CHECK_DEADLOCK FALSE
