SPECIFICATION FairSpec
CONSTANTS
  Node = {1, 2}
  Cluster = {1, 2}
  Service = {"central"}
  NoReq = NoReq
  Req = {r1, r2}
  Entry = {2}
  MaxIssued = 2
  MaxFaults = 0
PROPERTY RequestsEnd
