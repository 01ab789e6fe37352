SPECIFICATION Spec
CONSTANTS
  Member = {1, 2, 3}
  MaxVersion = 2
  FaultKind = {"crash", "error", "convert", "race"}
  MaxFaults = 1
  MaxMoves = 1
INVARIANTS
  TypeOK
  UpgradeInductive
PROPERTY HeldBack
