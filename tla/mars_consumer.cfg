CONSTANTS
  MaxPackets = 2
  MaxTier = 1
  RehearsalBudget = 1
  OtherFlows = 1
  Setups <- MCSetups
SPECIFICATION FairSpec
INVARIANTS OutstandingMatches ResentIsMarked FinishedIsComplete
PROPERTIES DiscoveryEnds TransmissionFinishes
CHECK_DEADLOCK FALSE
