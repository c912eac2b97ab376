CONSTANTS
  p = p  q = q  s = s  i1 = i1  i2 = i2  n1 = n1
  None = None
  Clients = {p, q, s}
  Mortal = {}
  Roles <- RaceRoles
  Ids = {i1}
  Names = {}
  Size = 1
  MaxTokens = 2
  MaxRoots = 2
SPECIFICATION Spec
SYMMETRY Projectors
CHECK_DEADLOCK FALSE
INVARIANT LeasedTreesWhole
PROPERTIES ScrubKeepsLiveTrees LiveScratchKept
