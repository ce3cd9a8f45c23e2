CONSTANTS
  Configs <- MCConfigs
  Scenarios <- MCScenarios
  MaxRound = 2
SPECIFICATION MCSpec
CHECK_DEADLOCK FALSE
INVARIANTS
  Agreement
  OneVotePerRound
  DecisionIsStable
  LockIsBacked
  TimelyDecision
