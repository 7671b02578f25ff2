CONSTANTS
  None = None
  con = con
  peer = peer
  up = up
  x = x
  y = y
  Names <- MCAllNames
  Nonces = {x, y}
  DnlLifetime = 0
  DnlBatch = 1
  Faces = {con, peer, up}
  LocalFaces = {con}
  AdHocFaces = {peer}
  Hints <- MCHints
  RegionHints <- MCRegion
  LocalhostNames <- MCLocalhost
  LocalhopNames <- MCLocalhop
  FibNextHops <- MCFib
  FindStrategy <- MCStrategies
  Interests <- MCAllInterests
  DataPackets <- MCAllData
  CsConfigs <- MCAllConfigs
  PitTokenSlots = 2
  Suppression = 1
  MaxInterests = 3
SPECIFICATION MCSpec
INVARIANTS TokenTableSound LruMatchesStore
PROPERTIES SolicitedDeliveryProp EndedNonceIsDeadProp TimedTablesDrain
