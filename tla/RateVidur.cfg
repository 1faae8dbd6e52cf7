\* Vidur's search, simulator rates rounded to 0.01
CONSTANTS
  StartRate <- Start
  MinRate <- VidurMin
  MaxRate <- Cap
  Iters = 8
  Tick <- Hundredth
  Capacities <- Interesting
  Limits <- Interesting
  MaxNoise = 1
SPECIFICATION FairSpec
INVARIANTS
  ReportIsMeasured
  ReturnsHighestGood
  WithinFactorTwo
  Accurate
PROPERTIES
  Terminates
CHECK_DEADLOCK FALSE
