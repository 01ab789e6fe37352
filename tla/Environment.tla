---------------------------- MODULE Environment ---------------------------
(***************************************************************************)
(* Desired state and the two places it is copied to on every node.         *)
(*                                                                         *)
(* The dqlite table `services` says which services every member should     *)
(* run.  Its "central" rows are copied to the environment file ovn.env,    *)
(* which the snap services read when they start, and to the key ovn-remote *)
(* of the local Open vSwitch database, which ovn-controller follows.  A    *)
(* copy is a read of the table and, later, a write: the table may change   *)
(* in between.  With the option ovn.central-ips set other addresses are    *)
(* copied: see Membership; ServiceControl takes it to be unset.            *)
(*                                                                         *)
(* lapsed, overwritten and missed are history variables: no action reads   *)
(* them.  They name the nodes whose copies the code gives up on.           *)
(***************************************************************************)
EXTENDS OvnCluster

CONSTANT Service   \* the MicroOVN services under control

ASSUME ServiceAssumption ==
  /\ Service \subseteq {"central", "chassis", "switch"}
  /\ "central" \in Service

VARIABLES
  services,     \* rows of the table: pairs <<member, service>>
  env,          \* env[n]: central nodes written in ovn.env of node n
  remote,       \* remote[n]: central nodes in ovn-remote of node n
  lapsed,       \* nodes some change of the table was never carried to
  overwritten,  \* nodes where an outdated copy was written outside muHook
  missed        \* nodes whose last refresh left ovn-remote as it was

envVars == <<services, env, remote>>
ghostVars == <<lapsed, overwritten, missed>>

EnvTypeOK ==
  /\ services \subseteq Node \X Service
  /\ env \in [Node -> SUBSET Node]
  /\ remote \in [Node -> SUBSET Node]
  /\ lapsed \subseteq Node
  /\ overwritten \subseteq Node
  /\ missed \subseteq Node

Enabled(n, svc) == <<n, svc>> \in services
Centrals == {n \in Node : Enabled(n, "central")}

\* Services that are not under control are taken to be enabled everywhere.
HasService_Unchecked(n, svc) == TRUE

HasService(n, svc) == svc \in Service => Enabled(n, svc)
EnabledOn(n) == {svc \in Service : Enabled(n, svc)}

AddService(n, svc) == services' = services \cup {<<n, svc>>}
RemoveService(n, svc) == services' = services \ {<<n, svc>>}

\* The first address of the list: rows of core_cluster_members come in the
\* order of their ids.
FirstOf(S) == CHOOSE n \in S : \A m \in S : n <= m

\* OVN_INITIAL_NB and OVN_INITIAL_SB of node n, for the central nodes C.
InitialHost_FirstCentral(n, C) == IF C = {} THEN None ELSE FirstOf(C)

InitialHost_Local(n, C) ==
  IF Cardinality(C) = 1 THEN FirstOf(C)
  ELSE IF n \in C THEN n ELSE None

InitialHost(n, C) ==
  IF Cardinality(C) = 1 THEN FirstOf(C)
  ELSE IF C \ {n} = {} THEN None
  ELSE FirstOf(C \ {n})

\* ovs-vsctl set or, without central nodes, remove of ovn-remote.
SetRemote_KeepsLast(n, C) ==
  remote' = IF C = {} THEN remote ELSE [remote EXCEPT ![n] = C]

SetRemote(n, C) == remote' = [remote EXCEPT ![n] = C]

\* A node's copies are up to date.
EnvFresh(n) == env[n] = Centrals
RemoteFresh(n) == remote[n] = Centrals
===========================================================================
