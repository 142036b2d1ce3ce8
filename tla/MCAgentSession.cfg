SPECIFICATION FairAgentSpec
CONSTANTS
  MaxAttempts = 2
  MaxTurns = 2
  MaxSteers = 2
  MaxDrives = 2
  MaxControls = 2
INVARIANT AgentConsistent
PROPERTIES
  NoBlindRedispatch
  GoesOnWithEvidence
  DrainingEnds
CHECK_DEADLOCK FALSE
