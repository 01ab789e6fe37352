SPECIFICATION FairSpec
CONSTANTS
  Member = {1, 2, 3}
  MaxVersion = 2
  FaultKind = {"crash", "error", "convert", "race"}
  MaxFaults = 2
  MaxMoves = 0
PROPERTY UpgradeHappens
PROPERTY LoopsEnd
