SPECIFICATION Spec
CONSTANTS
  Pids = {p1, p2}
  Root = root
  None = none
  Rounds = 2
  Defects <- DefectKinds
  Holes <- HoleKinds
INVARIANTS TypeOK NoDefectShips NothingForeignCrosses ShippedIsBuiltTwice ScannerEvidenceHolds
PROPERTY RootTreesIntact
SYMMETRY Symmetry
CONSTRAINT Alone
CHECK_DEADLOCK FALSE
