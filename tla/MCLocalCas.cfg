\* Two processes, one object to put, one ref, one tree; two calls beside the
\* sweeps, one death, and one object gone bad or one path exchanged.
SPECIFICATION FairSpec
CONSTANTS
  None = None
  Torn = Torn
  c1 = c1
  c2 = c2
  x = x
  y = y
  z = z
  main = main
  tree = tree
  e1 = e1
  Clients = {c1, c2}
  Contents = {x, y, z}
  Resident = {y, z}
  Puttable = {x}
  Names = {main}
  Trees = {tree}
  Entries = {e1}
  Menu <- MCMenu
  MaxCalls = 2
  MaxDeaths = 1
  MaxMishaps = 1
CHECK_DEADLOCK FALSE
INVARIANT ObjectsAreSound
PROPERTIES SwapsAreAtomic LiveTempsKept LeftoversReclaimed
