SPECIFICATION Spec
CONSTANTS
  Node = {1, 2}
  Cluster = {1, 2}
  Service = {"central"}
  NoReq = NoReq
  Req = {r1, r2}
  Entry = {1}
  MaxIssued = 2
  MaxFaults = 0
PROPERTY LastCentralConfirmed
