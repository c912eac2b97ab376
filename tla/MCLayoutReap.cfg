CONSTANTS
  p = p  q = q  s = s  i1 = i1  i2 = i2  n1 = n1
  None = None
  Clients = {p, s}
  Mortal = {p}
  Roles <- ReapRoles
  Ids = {i1}
  Names = {n1}
  Size = 1
  MaxTokens = 2
  MaxRoots = 1
SPECIFICATION FairSpec
CHECK_DEADLOCK FALSE
PROPERTY LeftoversGo
