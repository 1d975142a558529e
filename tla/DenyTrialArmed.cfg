SPECIFICATION Spec
CONSTANTS
  Operators = {o1}
  Timer = Timer
  Guard = Guard
  Nobody = Nobody
  Bodies = {plain, legacy, ambiguous}
  SystemBodies = {plain}
  AmbiguousBodies = {ambiguous}
  NoState = NoState
  BadState = BadState
  NoBackup = NoBackup
  NoConfig = NoConfig
  NoSnapshot = NoSnapshot
  Faults = {"kill", "term", "systemd-run", "stop-timer", "stop-timeout", "restart", "lock-timeout", "daemon", "snapshot"}
  MaxFaults = 2
  MaxTrials = 2
  MaxBoots = 2
INVARIANT TrialIsArmed
