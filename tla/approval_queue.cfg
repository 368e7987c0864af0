SPECIFICATION Spec
CONSTANTS
  b1 = b1
  b2 = b2
  c1 = c1
  c2 = c2
  k1 = k1
  k2 = k2
  i1 = i1
  None = None
  Bridges = {b1, b2}
  Calls = {c1, c2}
  Callers = {k1, k2}
  Keys = {i1}
  MaxCrashes = 1
  MaxFailures = 0
SYMMETRY Symmetry
INVARIANTS
  DedupIndexExact
  WaitersHaveEntry
PROPERTIES
  ImplementsVerdict
