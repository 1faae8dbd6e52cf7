\* the sweep with workers under every fault, orphans, changed worker counts and hashes
CONSTANTS
  NL = NL
  Torn = Torn
  N = 3
  Widths = {2, 3}
  Hashes <- MCHashes
  HashFns <- TwoSeeds
  FaultKinds = {"worker", "cut", "write", "parent"}
  MaxFaults = 2
  MaxSweeps = 2
SPECIFICATION Spec
INVARIANTS
  LossIsBounded
  DuplicatesAreExplained
PROPERTIES
  SealedShardsSurvive
CHECK_DEADLOCK FALSE
