CONSTANTS
  N = 4
  F = 1
  c1 = c1
  c2 = c2
  Commands <- MCCommands
  Configs <- MCConfigs
  Scenarios <- MCScenarios
  MaxView = 5
SPECIFICATION MCSpec
CHECK_DEADLOCK FALSE
INVARIANTS
  Agreement
  OneQCPerView
  LogIsBranch
  CommitIsLocked
  TimelyCommit
