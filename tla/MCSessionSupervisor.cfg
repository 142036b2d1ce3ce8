SPECIFICATION FairSupervisorSpec
CONSTANTS
  Sessions = {s1, s2}
  MaxLeases = 2
  MaxBatches = 1
  MaxStarts = 2
INVARIANTS
  SupervisorConsistent
PROPERTIES
  CommitIsSafe
  
CHECK_DEADLOCK FALSE
