SPECIFICATION FairTurnSpec
CONSTANTS
  MaxTurns = 2
  MaxUpdates = 2
  Policies = {"cancelled", "sink"}
INVARIANTS
  TurnConsistent
PROPERTIES
  FirstPolicyWins
  StoppedTurnEnds
CHECK_DEADLOCK FALSE
