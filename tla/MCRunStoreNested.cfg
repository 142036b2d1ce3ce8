SPECIFICATION Spec
CONSTANTS
  a = a
  b = b
  c = c
  r = r
  s = s
  Leaves <- FlatLeaves
  Groups <- NestedGroups
  Root = r
  Path <- NestedPath
  Parent <- NestedParent
  Strategy <- AllOfRace
  Quorum <- CapOne
  Cap <- CapTwo
  MaxLeaf = 2
  Signals <- LastLeaf
  Timed <- OneLeaf
  MaxAttempts = 2
  MaxEpoch = 1
INVARIANTS
  GroupsConsistent
  NeverIdle
PROPERTIES
  SuccessIsFinal
  RetryMakesProgress
CHECK_DEADLOCK FALSE
