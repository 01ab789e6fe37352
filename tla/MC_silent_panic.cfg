SPECIFICATION Spec
CONSTANTS
  Member = {1}
  MaxVersion = 2
  FaultKind = {}
  MaxFaults = 0
  MaxMoves = 1
PROPERTY SilentWithoutCentral
