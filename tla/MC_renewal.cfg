SPECIFICATION FairSpec
CONSTANTS
  Node = {n1, n2}
  Service = {"chassis", "switch"}
  Start <- OneSwitch
  Generated = {1, 2, 3, 4}
  Custom = {}
  NoReq = NoReq
  Req = {r1, r2}
  Op = {"renew"}
  FaultKind = {"lost"}
  MaxIssued = 0
  MaxFaults = 1
PROPERTY CaRenewed
PROPERTY CertRenewed
