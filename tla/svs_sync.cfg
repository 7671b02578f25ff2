CONSTANTS
  Nodes = {1, 2, 3}
  Keys <- MCKeys
  Passive = {3}
  Setups <- MCSetups
  MaxPubs = 2
  MaxRestarts = 1
SPECIFICATION FairSpec
INVARIANTS NumberedAsRead PassiveKeepsAll
PROPERTIES SilenceIsCoveredProp 
