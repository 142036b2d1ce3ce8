SPECIFICATION PumpSpec
CONSTANTS
  a = a
  b = b
  r = r
  Leaves <- TwoTasks
  Groups <- OneGroup
  Root = r
  Path <- FlatPath
  Parent <- Flat
  Strategy <- AllAll
  Quorum <- CapTwo
  Cap <- CapTwo
  MaxLeaf = 2
  Signals <- NoLeaf
  Timed <- OneTask
  MaxAttempts = 3
  MaxEpoch = 3
  MaxControls = 2
INVARIANTS
  PumpConsistent
  NoLostWakeup
  OneExecution
PROPERTIES
  OldWorkFirst
CHECK_DEADLOCK FALSE
