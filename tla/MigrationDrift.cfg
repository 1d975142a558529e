SPECIFICATION Spec
CONSTANTS
  Operators = {o1, o2}
  Nobody = Nobody
  Legacies = {legacy}
  System = System
  Foreign = {edited}
  NoFile = NoFile
  NoRecord = NoRecord
  Faults = {"interrupt", "systemctl", "conflict", "unit", "edit"}
  MaxFaults = 3
  MaxTransactions = 1
PROPERTY DaemonStopsOnDrift
