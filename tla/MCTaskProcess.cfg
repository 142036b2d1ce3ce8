SPECIFICATION FairTaskSpec
CONSTANTS
  MaxWrites = 2
INVARIANTS
  TaskConsistent
PROPERTIES
  NoLateArtifact
  StoppedTaskEnds
CHECK_DEADLOCK FALSE
