SPECIFICATION FairSpec
CONSTANTS
  Operators = {o1}
  Nobody = Nobody
  Legacies = {legacy, reformatted}
  System = System
  Foreign = {edited}
  NoFile = NoFile
  NoRecord = NoRecord
  Faults = {"kill", "io", "retain", "systemctl", "conflict", "unit", "edit"}
  MaxFaults = 3
  MaxTransactions = 2
INVARIANT TypeOK
INVARIANT OperatorConfigSurvives
INVARIANT SystemIsJournaled
PROPERTY RollbackCompletes
