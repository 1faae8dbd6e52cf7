\* compute_pareto_front and select_top_k, and compute_upper_envelope
CONSTANTS
  Count = 4
  Prices <- SomePrices
  Throughputs <- SomeThroughputs
  TopK = 2
  MinThroughput = 1
SPECIFICATION Spec
INVARIANTS
  FrontCovers
  FrontUndominated
  NoneBothBetter
  CheapestIsSelected
CHECK_DEADLOCK FALSE
