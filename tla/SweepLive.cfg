\* the loops that handle exceptions, run again while results are missing
CONSTANTS
  NL = NL
  Torn = Torn
  N = 3
  Hashes <- StableHashes
  HashFns <- StableHash
  Policies = {"record", "log"}
  FaultKinds = {"kill", "cut", "write", "raise"}
  MaxFaults = 3
  MaxRuns = 7
SPECIFICATION ResubmittedSpec
PROPERTIES
  SweepFinishes
  MissingAreMadeUpFor
CHECK_DEADLOCK FALSE
