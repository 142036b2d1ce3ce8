SPECIFICATION FairLifecycleSpec
CONSTANTS
  p = p
  q = q
  r = r
  a = a
  g1 = g1
  g2 = g2
  g3 = g3
  g4 = g4
  None = None
  Proc = {p, q}
  Gen = {g1, g2, g3, g4}
  First = g1
  Archive = {a}
  MaxFaults = 3
INVARIANT LifecycleConsistent
PROPERTIES
  StoresKept
  RepairsConverge
CHECK_DEADLOCK FALSE
