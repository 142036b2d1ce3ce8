SPECIFICATION FairPumpSpec
CONSTANTS
  a = a
  b = b
  r = r
  Leaves <- TwoTasks
  Groups <- OneGroup
  Root = r
  Path <- FlatPath
  Parent <- Flat
  Strategy <- AllAll
  Quorum <- CapTwo
  Cap <- CapTwo
  MaxLeaf = 2
  Signals <- NoLeaf
  Timed <- NoLeaf
  MaxAttempts = 3
  MaxEpoch = 3
  MaxControls = 1
PROPERTIES
  QueueMovesOn
  RunIsDriven
CHECK_DEADLOCK FALSE
