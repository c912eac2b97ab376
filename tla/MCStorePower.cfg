CONSTANTS
  w1 = w1  w2 = w2  d1 = d1  d2 = d2
  None = None  Collector = Collector
  Writers = {w1, w2}
  Digests = {d1, d2}
  Claims = {d2}
  MaxTemps = 2
  Faults = {"kill", "killCollectors", "power", "decay", "remove", "reap"}
SPECIFICATION Spec
CHECK_DEADLOCK FALSE
SYMMETRY Alike
INVARIANTS ResidentWhole
PROPERTIES ImplementsDurableCas LeasedTempKept
