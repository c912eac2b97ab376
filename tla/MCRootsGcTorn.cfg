CONSTANTS
  c1 = c1  c2 = c2
  a = a   ma = ma  mb = mb
  w1 = w1  None = None
  Clients = {c1, c2}
  Roles <- MCRoles
  Data = {a}
  Manifests = {ma, mb}
  Refs <- MCRefs
  Remote = {ma}
  Workspaces = {w1}
  MaxEpoch = 3
  MaxGen = 2
  MaxIncarnations = 2
SPECIFICATION MCSpec
CHECK_DEADLOCK FALSE
INVARIANTS RootsResident
