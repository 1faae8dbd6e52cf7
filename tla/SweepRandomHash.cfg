\* the per-process hash of the brute-force BLIS sweep
CONSTANTS
  NL = NL
  Torn = Torn
  N = 2
  Hashes <- PerProcessHashes
  HashFns <- PerProcessHash
  Policies = {"log"}
  FaultKinds = {"kill"}
  MaxFaults = 1
  MaxRuns = 2
SPECIFICATION Spec
PROPERTIES
  NoRework
CHECK_DEADLOCK FALSE
