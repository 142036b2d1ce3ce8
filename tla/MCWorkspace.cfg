CONSTANTS
  Procs = {p1, p2}
  Requests = {q1}
  MaxRuns = 2
  Length <- LongAndShort
  Poisoned <- ForkPoisoned
  MaxFaults = 1
SPECIFICATION FairWsSpec
INVARIANTS WsConsistent HandedInOrder
PROPERTIES IdleStopLeavesForks RunsSettle
