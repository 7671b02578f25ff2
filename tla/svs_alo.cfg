CONSTANTS
  MaxBoot = 2
  MaxPubs = 5
  Threshold = 1
  MaxBreaks = 1
  Limits <- MCLimits
SPECIFICATION FairSpec
CHECK_DEADLOCK FALSE
INVARIANTS QueueInOrder CommittedWasHandled
PROPERTIES EverythingArrives
