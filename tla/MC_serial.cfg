SPECIFICATION Spec
CONSTANTS
  Node = {1, 2, 3}
  Cluster = {1, 2, 3}
  Service = {"central", "chassis", "switch"}
  NoReq = NoReq
  Req = {r1}
  Entry = {2}
  MaxIssued = 4
  MaxFaults = 0
INVARIANTS
  OneDatabase
  RuntimeMatchesDesired
  RemoteFollowsCentrals
PROPERTY DataKept
