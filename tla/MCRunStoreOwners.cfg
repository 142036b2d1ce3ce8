SPECIFICATION Spec
CONSTANTS
  a = a
  b = b
  c = c
  r = r
  s = s
  Leaves <- FlatLeaves
  Groups <- FlatGroups
  Root = r
  Path <- FlatPath
  Parent <- FlatParent
  Strategy <- AllQuorum
  Quorum <- CapTwo
  Cap <- CapTwo
  MaxLeaf = 2
  Signals <- TwoLeaves
  Timed <- FlatLeaves
  MaxAttempts = 2
  MaxEpoch = 3
SYMMETRY FlatSymmetry
INVARIANTS
  CountsAreRight
  OneRecordOfWork
  PausedRunIsIdle
PROPERTIES
  FencedResults
  WaitsEndOnce
  WorkIsExclusive
CHECK_DEADLOCK FALSE
