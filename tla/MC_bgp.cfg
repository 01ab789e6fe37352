SPECIFICATION Spec
CONSTRAINT Scenario
CONSTANTS
  n1 = n1
  n2 = n2
  Node = {n1, n2}
  Iface = {"eth"}
  UserBridge = {b1, b2}
  UserMapping = UserMapping
  Req = {r1, r2}
  Op = {"enable", "setup", "disable", "tags"}
  FaultKind = {"error", "lost", "cancel", "crash"}
  Table = {10, 11, 12}
  Taken = {10}
  MemberId <- Ids
  MinAsn = 1
  MaxAsn = 2
  Prefixed <- NamesNested
  MaxIssued = 3
  MaxFaults = 1
  Choice <- Offered
SYMMETRY Symmetry
INVARIANTS
  TypeOK
  NothingLeft
  SetupAgrees
  ConfirmedStays
  AsnUnique
