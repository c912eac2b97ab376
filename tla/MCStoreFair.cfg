CONSTANTS
  w1 = w1  w2 = w2  d1 = d1  d2 = d2
  None = None  Collector = Collector
  Writers = {w1, w2}
  Digests = {d1}
  Claims = {None}
  MaxTemps = 2
  Faults = {"kill", "remove", "reap"}
SPECIFICATION FairSpec
CHECK_DEADLOCK FALSE
PROPERTIES ImplementsCas CallsEnd LeftoversReclaimed
