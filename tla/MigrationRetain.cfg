SPECIFICATION Spec
CONSTANTS
  Operators = {o1}
  Nobody = Nobody
  Legacies = {legacy}
  System = System
  Foreign = {edited}
  NoFile = NoFile
  NoRecord = NoRecord
  Faults = {"retain", "edit"}
  MaxFaults = 2
  MaxTransactions = 1
PROPERTY DaemonStopsOnDrift
