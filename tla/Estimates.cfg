\* the analytical tools over four budgets, two passes, two failures
CONSTANTS
  None = None
  MaxGpus = 4
  Slo = 300
  Rows <- MCRows
  Rate <- MCRate
  Requests <- MCRequests
  TTFT <- MCTTFT
  Answers <- MCAnswers
  MaxPasses = 2
  MaxFaults = 2
SPECIFICATION EstimateSpec
INVARIANTS
  CallsCoverTopologies
  RepeatedRecordsAgree
  PlottedFiguresBelongTogether
CHECK_DEADLOCK FALSE
