SPECIFICATION FairSpec
CONSTANTS
  Operators = {o1, o2}
  Timer = Timer
  Guard = Guard
  Nobody = Nobody
  Bodies = {plain, legacy, ambiguous}
  SystemBodies = {plain}
  AmbiguousBodies = {ambiguous}
  NoState = NoState
  BadState = BadState
  NoBackup = NoBackup
  NoConfig = NoConfig
  NoSnapshot = NoSnapshot
  Faults = {"term", "systemd-run", "daemon"}
  MaxFaults = 1
  MaxTrials = 2
  MaxBoots = 1
PROPERTY TrialEnds
INVARIANT NoRestartDeadlock
INVARIANT SnapshotIsCurrent
