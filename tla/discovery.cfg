CONSTANTS
  a = a
  b = b
  c = c
  d = d
  Faces = {a, b, c, d}
  Fibs <- MCFibs
  Roles <- MCRoles
  ProbeIndices = {0, 1}
SPECIFICATION Spec
INVARIANTS CollectionsAgree
PROPERTIES ConvergenceHonestProp DtStartsWithValidProp NackSparesCurrentTierProp
