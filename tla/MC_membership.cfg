SPECIFICATION Spec
CONSTRAINT Scenario
CONSTANTS
  Node = {1, 2, 3}
  Cluster = {1, 2, 3}
  Service = {"central", "chassis", "switch"}
  External = 9
  AutoChoice = AutoChoice
  Choice <- Choices
  Enough = 2
  FaultKind = {"error", "lost"}
  MaxConfig = 2
  MaxLeaves = 1
  MaxFaults = 1
INVARIANTS
  TypeOK
  MembershipInductive
  MembersFollow
  OneDatabase
PROPERTY CentralsBounded
 
