\* successive halving with its real stages, one misled score, one failure
CONSTANTS
  Topology = {"tp1", "tp8"}
  Size <- MCSize
  Keep <- MCKeep
  MinSurvivors = 1
  Truths <- MCTruths
  MaxNoise = 1
  MaxFaults = 1
SPECIFICATION Spec
INVARIANTS
  CoverageKept
  BestIsRecorded
  FinalistsAreRecorded
