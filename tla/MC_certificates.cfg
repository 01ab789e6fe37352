SPECIFICATION Spec
CONSTRAINT FewFaults
CONSTANTS
  Node = {n1, n2}
  Service = {"chassis", "switch"}
  Start <- Chassis
  Generated = {1, 2, 3}
  Custom = {9}
  NoReq = NoReq
  Req = {r1, r2}
  Op = {"regenerate", "set", "reissue", "reissueAll", "enable", "disable"}
  FaultKind = {"lost", "cancel", "error", "crash"}
  MaxIssued = 2
  MaxFaults = 1
SYMMETRY CertSymmetry
INVARIANTS
  TypeOK
  CertInductive
  CertificatesFollowCa
  KeysMatch
PROPERTY CertReplicates
