CONSTANTS
  r1 = r1
  r2 = r2
  F = 1
  Requests = {r1, r2}
  MaxView = 2
  Configurations <- MCConfigurations
  Scenarios <- MCScenarios
SPECIFICATION MCSpec
CHECK_DEADLOCK FALSE
INVARIANTS
  Agreement
  CommitBacked
  CertificateBacked
  StalledIsWatched
  TimelyProgress
PROPERTIES
  NoVoteForOlderView
