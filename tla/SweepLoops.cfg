\* run_batch, run_full_sweep and blis_shard under kills, failed writes and raises
CONSTANTS
  NL = NL
  Torn = Torn
  N = 3
  Hashes <- StableHashes
  HashFns <- StableHash
  Policies = {"record", "log", "die"}
  FaultKinds = {"kill", "cut", "write", "raise"}
  MaxFaults = 3
  MaxRuns = 3
SPECIFICATION Spec
INVARIANTS
  NoDuplicates
  CleanRunIsComplete
  LossIsBounded
PROPERTIES
  SealedRecordsSurvive
  NoRework
  KeepsLedger
CHECK_DEADLOCK FALSE
