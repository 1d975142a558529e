SPECIFICATION Spec
CONSTANTS
  Bases <- MCBases
  BadKernel = 0
  Policies <- MCPolicies
  Pins <- MCPins
  NoImage = NoImage
  NoTag = NoTag
  NoRun = NoRun
  NoBase = NoBase
  MaxRuns = 3
  MaxAttempts = 3
  Faults = {"fail", "lost", "forge", "swap", "promote", "delete"}
  MaxFaults = 1
INVARIANT TypeOK
INVARIANT ChannelIsTruthful
INVARIANT AliasTrails
PROPERTY NoDowngrade
PROPERTY PointerHasOwnEvidence
CHECK_DEADLOCK FALSE
