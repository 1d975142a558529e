SPECIFICATION FairSpec
CONSTANTS
  Bases <- MCBases
  BadKernel = 0
  Policies <- MCPolicies
  Pins <- MCPins
  NoImage = NoImage
  NoTag = NoTag
  NoRun = NoRun
  NoBase = NoBase
  MaxRuns = 3
  MaxAttempts = 3
  Faults = {"lost", "promote", "delete"}
  MaxFaults = 1
PROPERTY LegacyIsChannel
PROPERTY SystemIsChannel
PROPERTY HonestRunLands
CHECK_DEADLOCK FALSE
