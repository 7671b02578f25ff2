CONSTANTS
  Names <- MCNames
  Faces = {1, 2}
  Costs = {1, 2}
  Strategies = {"multicast"}
  DefaultStrategy = "best-route"
  Registrations <- MCRegistrations
  FibEdits <- MCFibEdits
  ChoiceNames <- MCChoiceNames
  LookupNames <- MCLookupNames
  MaxRoutes = 3
  VirtLen = 1
SPECIFICATION Spec
INVARIANTS LookupIsLongestPrefix FibFollowsRib AdvertisedMatchesRib
PROPERTIES TreeImplementsFib HashImplementsFib
