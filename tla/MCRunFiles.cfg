SPECIFICATION FilesSpec
CONSTANTS
  p = p
  q = q
  r = r
  s = s
  t = t
  w = w
  Nothing = Nothing
  Proc = {p, q, t}
  Run = {r, s}
  Source = {w}
  SourceOf <- OneSource
  MaxCrashes = 2
SYMMETRY FilesSymmetry
INVARIANT FilesConsistent
PROPERTY PruneSparesResumed
CHECK_DEADLOCK FALSE
