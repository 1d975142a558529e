SPECIFICATION FairContainment
CONSTANTS
  Pids = {p1, p2, p3, p4}
  Root = root
  None = none
  Rounds = 3
INVARIANTS ContainmentTypeOK NothingSurvives StrangersAreSpared
PROPERTY CleanUpEnds
CHECK_DEADLOCK FALSE
