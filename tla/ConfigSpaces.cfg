\* enumerated spaces up to 8 GPUs, pruning passes over up to four topologies
CONSTANTS
  None = None
  MaxGpus = 8
  MaxEvaluated = 4
  Slo = 300
  TTFTs <- MCTTFTs
SPECIFICATION PruneSpec
INVARIANTS
  PruningRoundTrip
  PruningKeepsBehaviours
  HashesTellApart
CHECK_DEADLOCK FALSE
