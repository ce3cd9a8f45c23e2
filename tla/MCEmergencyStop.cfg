CONSTANTS
  c1 = c1
  c2 = c2
  stop = stop
  free = free
  F = 1
  Byzantine = {3}
  Clients = {c1, c2}
  Ids = {stop, free}
  Launches <- MCLaunches
  MaxView = 1
  Foreign <- MCForeign
SPECIFICATION MCSpec
CHECK_DEADLOCK FALSE
INVARIANTS
  ReleaseJustified
  WaitingIsTimed
  DecisionBacked
PROPERTIES
  FailSafeIsFinal
  EveryWaitEnds
