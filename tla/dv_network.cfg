CONSTANTS
  Routers <- MCRouters
  CostInfinity = 6
  Links <- MCLinks
  MaxChanges = 1
SPECIFICATION MCFairSpec
INVARIANTS SettledIsShortest
PROPERTIES Settles
CHECK_DEADLOCK FALSE
