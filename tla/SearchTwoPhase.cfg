\* run_search and run_tpe_search with crashes and reruns
CONSTANTS
  TPs <- Lean
  Searches <- SomeSearches
  Scores <- SomeScores
  MaxCrashes = 1
  MaxRuns = 2
SPECIFICATION FairSpec
INVARIANTS
  WithinBudget
  SecondPhaseIsExplained
  DoneIsLogged
  LossIsBounded
PROPERTIES
  Terminates
CHECK_DEADLOCK FALSE
