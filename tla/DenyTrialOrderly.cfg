SPECIFICATION FairSpec
CONSTANTS
  Operators = {o1}
  Timer = Timer
  Guard = Guard
  Nobody = Nobody
  Bodies = {plain, legacy, ambiguous}
  SystemBodies = {plain}
  AmbiguousBodies = {ambiguous}
  NoState = NoState
  BadState = BadState
  NoBackup = NoBackup
  NoConfig = NoConfig
  NoSnapshot = NoSnapshot
  Faults = {"term", "systemd-run", "lock-timeout", "daemon", "snapshot", "corrupt"}
  MaxFaults = 2
  MaxTrials = 2
  MaxBoots = 2
INVARIANT DenyNeverLingers
PROPERTY StartJobEnds
