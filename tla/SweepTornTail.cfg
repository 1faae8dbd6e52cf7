\* a cut write, then a restart
CONSTANTS
  NL = NL
  Torn = Torn
  N = 3
  Hashes <- StableHashes
  HashFns <- StableHash
  Policies = {"record"}
  FaultKinds = {"kill", "cut"}
  MaxFaults = 1
  MaxRuns = 3
SPECIFICATION Spec
INVARIANTS
  SafeToRestart
CHECK_DEADLOCK FALSE
