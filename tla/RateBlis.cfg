\* BLISRunner.evaluate_config
CONSTANTS
  InitialRate <- Start
  MaxRate <- Cap
  Iters = 5
  ConfirmIters = 4
  Capacities <- SloRates
  Limits <- TimeRates
  MaxNoise = 1
SPECIFICATION Spec
INVARIANTS
  ReportIsMeasured
  WithinCap
  ConfirmedIsConservative
  ConfirmedIsTight
  ScreeningIsTight
CHECK_DEADLOCK FALSE
