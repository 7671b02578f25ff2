CONSTANTS
  p = p
  Routers <- MCRouters
  CostInfinity = 4
  Self = 1
  Neighbors <- MCNeighbors
  Faces = {1, 2}
  LinkFaces <- MCLinkFaces
  Published <- MCPublished
  PfxNames = {p}
  None = None
  MaxEvents = 4
  PfxCosts = {0}
SPECIFICATION Spec
INVARIANTS RibFollowsAdverts SettledTablesAgree SyncRoutesMatchFaces
CHECK_DEADLOCK FALSE
