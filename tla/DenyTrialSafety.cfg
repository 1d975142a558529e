SPECIFICATION Spec
CONSTANTS
  Operators = {o1}
  Timer = Timer
  Guard = Guard
  Nobody = Nobody
  Bodies = {plain, legacy, ambiguous}
  SystemBodies = {plain}
  AmbiguousBodies = {ambiguous}
  NoState = NoState
  BadState = BadState
  NoBackup = NoBackup
  NoConfig = NoConfig
  NoSnapshot = NoSnapshot
  Faults = {"kill", "term", "interrupt", "io", "snapshot", "systemd-run", "stop-timer", "stop-timeout", "restart", "lock-timeout", "daemon", "edit", "corrupt"}
  MaxFaults = 2
  MaxTrials = 2
  MaxBoots = 2
INVARIANT TypeOK
INVARIANT DenyRecorded
INVARIANT NoStaleDeny
INVARIANT MarkerOfThisTrial
INVARIANT GuardSparesThisBoot
INVARIANT TimerRevertsItsTrial
