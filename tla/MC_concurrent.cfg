SPECIFICATION Spec
CONSTANTS
  Node = {1, 2, 3}
  Cluster = {1, 2, 3}
  Service = {"central"}
  NoReq = NoReq
  Req = {r1, r2}
  Entry = {2}
  MaxIssued = 2
  MaxFaults = 0
SYMMETRY ReqSymmetry
INVARIANTS
  EnvInductive
  RemoteInductive
  EnvFollowsCentrals
  NoSplitBrain
PROPERTY EnvReplicates
