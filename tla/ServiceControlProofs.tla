----------------------- MODULE ServiceControlProofs -----------------------
(***************************************************************************)
(* Proofs about ServiceControl, for any number of nodes, of requests in    *)
(* flight and of faults.  The last part is about commands that are given   *)
(* one at a time and meet no fault, on any finite set of nodes.            *)
(***************************************************************************)
EXTENDS ServiceControl, FiniteSetTheorems, TLAPS

---------------------------------------------------------------------------
(* Operators of the model.                                                 *)

\* The first element of a nonempty set of ids is an element of it.
LEMMA FirstOfType ==
  ASSUME NEW S, S \subseteq Nat, S # {}
  PROVE  FirstOf(S) \in S
<1> DEFINE T == {0..x : x \in S}
<1>1. T \subseteq FiniteSubsetsOf(Nat) /\ T # {}
  <2>1. \A x \in S : IsFiniteSet(0..x) /\ 0..x \subseteq Nat
    BY FS_Interval
  <2> QED BY <2>1 DEF FiniteSubsetsOf
<1>2. PICK U \in T : \A V \in T : <<V, U>> \notin StrictSubsetOrdering(Nat)
  <2>1. IsWellFoundedOn(StrictSubsetOrdering(Nat), FiniteSubsetsOf(Nat))
    BY FS_StrictSubsetOrderingWellFounded
  <2> HIDE DEF T
  <2> QED BY <1>1, <2>1, WFMin, Zenon
<1>3. PICK x \in S : U = 0..x
  OBVIOUS
<1>4. \A y \in S : x <= y
  <2> SUFFICES ASSUME NEW y \in S, y < x PROVE FALSE
    OBVIOUS
  <2>1. 0..y \in T
    OBVIOUS
  <2>2. 0..y \subseteq 0..x /\ 0..y # 0..x
    <3>1. x \in 0..x /\ x \notin 0..y
      OBVIOUS
    <3> QED BY <3>1
  <2>3. 0..y \in SUBSET Nat /\ 0..x \in SUBSET Nat
    OBVIOUS
  <2>4. <<0..y, 0..x>> \in StrictSubsetOrdering(Nat)
    BY <2>2, <2>3, Zenon DEF StrictSubsetOrdering
  <2> QED BY <1>2, <1>3, <2>1, <2>4
<1> QED BY <1>4 DEF FirstOf

\* The initial host is a node or nobody.
LEMMA InitialHostType ==
  ASSUME NEW n \in Node, NEW C \in SUBSET Node
  PROVE  InitialHost(n, C) \in Node \cup {None}
<1>1. \A S \in SUBSET Node : S # {} => FirstOf(S) \in Node
  BY FirstOfType, NodeAssumption
<1>2. Cardinality(C) = 1 => C # {}
  BY FS_EmptySet
<1> QED BY <1>1, <1>2 DEF InitialHost

\* Only snap services of microovn are started for a service.
LEMMA AppSetType ==
  ASSUME NEW svc \in {"central", "chassis", "switch"}
  PROVE  /\ AppSet(svc) \subseteq App
         /\ Len(AppsOf(svc)) \in Nat
         /\ \A k \in 0..Len(AppsOf(svc)) :
              {AppsOf(svc)[i] : i \in 1..k} \subseteq App
<1>1. CASE svc = "central"
  BY <1>1 DEF AppSet, AppsOf, App
<1>2. CASE svc # "central"
  BY <1>2 DEF AppSet, AppsOf, App
<1> QED BY <1>1, <1>2

LEMMA CentralsType == Centrals \in SUBSET Node
BY DEF Centrals

---------------------------------------------------------------------------
(* What the daemon and raft do keeps the types.                            *)

LEMMA SnapStartType ==
  ASSUME ClusterTypeOK, NEW n \in Node, NEW started \in SUBSET App,
         NEW initial \in Node \cup {None}, SnapStart(n, started, initial)
  PROVE  ClusterTypeOK'
<1>1. apps' \in [Node -> SUBSET App]
  BY DEF SnapStart, ClusterTypeOK
<1>2. CASE UNCHANGED <<db, servers>>
  BY <1>1, <1>2 DEF ClusterTypeOK
<1>3. CASE ServerStarted(n, initial)
  <2>1. Joining(initial) \in Database
    BY DEF Joining, Database, DatabaseWith
  <2>2. \A c \in FreeCluster : c \in Cluster /\ MemberOf(c) \in Database
    BY DEF FreeCluster, MemberOf, Database, DatabaseWith
  <2>3. db' \in [Node -> Database] /\ servers' \in [Cluster -> SUBSET Node]
    BY <1>3, <2>1, <2>2 DEF ServerStarted, ClusterTypeOK
  <2> QED BY <1>1, <2>3 DEF ClusterTypeOK
<1> QED BY <1>2, <1>3 DEF SnapStart

LEMMA SnapStopType ==
  ASSUME ClusterTypeOK, NEW n \in Node, NEW stopped \in SUBSET App,
         SnapStop(n, stopped)
  PROVE  ClusterTypeOK'
<1>1. NoDatabase \in Database
  BY DEF NoDatabase, Database, DatabaseWith
<1> QED BY <1>1 DEF SnapStop, ClusterTypeOK

LEMMA LeaveCommandType ==
  ASSUME ClusterTypeOK, NEW n \in Node, LeaveCommand(n)
  PROVE  ClusterTypeOK'
BY DEF LeaveCommand, ClusterTypeOK, Database, DatabaseWith

LEMMA MoveAsideType ==
  ASSUME ClusterTypeOK, NEW n \in Node, MoveAside(n)
  PROVE  ClusterTypeOK'
BY DEF MoveAside, ClusterTypeOK, Database, DatabaseWith, NoDatabase

LEMMA DatabaseStepType ==
  ASSUME ClusterTypeOK, NEW n \in Node, Joined(n) \/ Departed(n)
  PROVE  ClusterTypeOK'
<1>1. db[n] \in Database
  BY DEF ClusterTypeOK
<1>2. CASE Joined(n)
  BY <1>1, <1>2 DEF Joined, CanJoin, ClusterTypeOK, Database, DatabaseWith
<1>3. CASE Departed(n)
  BY <1>1, <1>3 DEF Departed, CanDepart, ClusterTypeOK, Database, DatabaseWith
<1> QED BY <1>2, <1>3

---------------------------------------------------------------------------
(* Steps of the handlers that several actions share.                       *)

LEMMA TimedOutType ==
  ASSUME TypeOK, NEW r \in Req, TimedOut(r)
  PROVE  ctx' \in [Req -> BOOLEAN]
<1>1. PICK c \in {ctx[r], FALSE} : ctx' = [ctx EXCEPT ![r] = c]
  BY DEF TimedOut
<1>2. ctx \in [Req -> BOOLEAN] /\ c \in BOOLEAN
  BY <1>1 DEF TypeOK
<1> QED BY <1>1, <1>2

LEMMA FaultType ==
  ASSUME TypeOK, Fault
  PROVE  faults' \in 0..MaxFaults
BY BoundAssumption DEF TypeOK, Fault

LEMMA UnlockType ==
  ASSUME TypeOK, NEW n \in Node, Unlock(n)
  PROVE  /\ hook' \in [Node -> Req \cup {NoReq}]
         /\ hpc' \in [Node -> {"free", "read", "env", "remote", "set"}]
         /\ hview' \in [Node -> SUBSET Node]
         /\ hhas' \in [Node -> SUBSET {"central", "switch"}]
         /\ todo' \in [Req -> SUBSET Node]
<1>1. hook' \in [Node -> Req \cup {NoReq}]
  BY DEF TypeOK, Unlock
<1>2. hpc' \in [Node -> {"free", "read", "env", "remote", "set"}]
  BY DEF TypeOK, Unlock
<1>3. hview' \in [Node -> SUBSET Node]
  BY DEF TypeOK, Unlock
<1>4. hhas' \in [Node -> SUBSET {"central", "switch"}]
  BY DEF TypeOK, Unlock
<1>5. todo' \in [Req -> SUBSET Node]
  BY DEF TypeOK, Unlock
<1> QED BY <1>1, <1>2, <1>3, <1>4, <1>5

---------------------------------------------------------------------------
(* Type correctness.                                                       *)

\* Initially every variable is in its type.
LEMMA InitType == Init => TypeOK
<1> SUFFICES ASSUME Init PROVE TypeOK
  OBVIOUS
<1>1. FirstOf(Node) \in Node /\ FirstOf(Cluster) \in Cluster
  BY FirstOfType, NodeAssumption, ClusterAssumption
<1>2. PICK C \in SUBSET Node : InitWith(C)
  BY DEF Init
<1>3. MemberOf(FirstOf(Cluster)) \in Database /\ NoDatabase \in Database
  BY <1>1 DEF MemberOf, NoDatabase, Database, DatabaseWith
<1>4. ClusterTypeOK
  <2>1. AppSet("central") \subseteq App
    BY AppSetType
  <2>2. apps \in [Node -> SUBSET App]
    BY <1>2, <2>1 DEF InitWith, App
  <2>3. db \in [Node -> Database] /\ servers \in [Cluster -> SUBSET Node]
    BY <1>2, <1>3 DEF InitWith
  <2> QED BY <2>2, <2>3 DEF ClusterTypeOK
<1>5. EnvTypeOK
  BY <1>2, ServiceAssumption DEF InitWith, EnvTypeOK
<1>6. ask \in [Req -> Ask]
  <2>1. [op |-> "enable", node |-> FirstOf(Node), svc |-> "central",
         allow |-> FALSE, via |-> FirstOf(Node)] \in Ask
    BY <1>1, ServiceAssumption DEF Ask
  <2> QED BY <2>1 DEF Init
<1> QED
  BY <1>4, <1>5, <1>6, BoundAssumption DEF Init, TypeOK

\* No step leaves the types.
LEMMA NextType == TypeOK /\ [Next]_vars => TypeOK'
<1> SUFFICES ASSUME TypeOK, [Next]_vars PROVE TypeOK'
  OBVIOUS
<1> USE DEF TypeOK, Goto, At, Fault, EndUncarried, TimedOut, Undecided, Applied,
            reqVars, hookVars, bootVars, boundVars, clusterVars, envVars,
            ghostVars
<1>1. ASSUME NEW r \in Req, Issue(r) PROVE TypeOK'
  <2>1. ask' \in [Req -> Ask]
    BY <1>1 DEF Issue
  <2>2. issued' \in 0..MaxIssued
    BY <1>1, BoundAssumption DEF Issue
  <2> QED BY <1>1, <2>1, <2>2 DEF Issue, ClusterTypeOK, EnvTypeOK
<1>2. ASSUME NEW r \in Req, Cancel(r) PROVE TypeOK'
  BY <1>2, BoundAssumption DEF Cancel, ClusterTypeOK, EnvTypeOK
<1>3. ASSUME NEW r \in Req, Check(r) PROVE TypeOK'
  BY <1>3 DEF Check, ClusterTypeOK, EnvTypeOK
<1>4. ASSUME NEW r \in Req, LastCheck(r) PROVE TypeOK'
  BY <1>4, CentralsType DEF LastCheck, ClusterTypeOK, EnvTypeOK
<1>5. ASSUME NEW r \in Req, CreateRow(r) PROVE TypeOK'
  <2>1. ask[r].node \in Node /\ ask[r].svc \in Service
    BY DEF Ask
  <2>2. services' \subseteq Node \X Service
    <3>1. \/ services' = services
          \/ services' = services \cup {<<ask[r].node, ask[r].svc>>}
      BY <1>5 DEF CreateRow, AddService
    <3> QED BY <2>1, <3>1 DEF EnvTypeOK
  <2>3. pc' \in [Req -> {"idle", "regen"} \cup Undecided \cup Applied]
    BY <1>5 DEF CreateRow
  <2> QED BY <1>5, <2>2, <2>3 DEF CreateRow, ClusterTypeOK, EnvTypeOK
<1>6. ASSUME NEW r \in Req, ReadEnv(r) PROVE TypeOK'
  BY <1>6, CentralsType DEF ReadEnv, ClusterTypeOK, EnvTypeOK
<1>7. ASSUME NEW r \in Req, WriteEnv(r) PROVE TypeOK'
  <2>1. ask[r].node \in Node
    BY DEF Ask
  <2> QED BY <1>7, <2>1 DEF WriteEnv, Overwrites, ClusterTypeOK, EnvTypeOK
<1>8. ASSUME NEW r \in Req, StartApps(r) PROVE TypeOK'
  <2> DEFINE n == ask[r].node
             order == AppsOf(ask[r].svc)
  <2>1. n \in Node /\ ask[r].svc \in {"central", "chassis", "switch"}
    BY ServiceAssumption DEF Ask
  <2>2. PICK k \in 0..Len(order) :
           SnapStart(n, {order[i] : i \in 1..k}, InitialHost(n, env[n]))
    BY <1>8 DEF StartApps
  <2>3. {order[i] : i \in 1..k} \in SUBSET App
    BY <2>1, AppSetType
  <2>4. InitialHost(n, env[n]) \in Node \cup {None}
    BY <2>1, InitialHostType DEF EnvTypeOK
  <2>5. ClusterTypeOK'
    BY <2>1, <2>2, <2>3, <2>4, SnapStartType
  <2>6. faults' \in 0..MaxFaults
    BY <1>8, BoundAssumption DEF StartApps
  <2>7. pc' \in [Req -> {"idle", "regen"} \cup Undecided \cup Applied]
    BY <1>8 DEF StartApps
  <2> HIDE DEF Undecided, Applied
  <2> QED BY <1>8, <2>5, <2>6, <2>7 DEF StartApps, EnvTypeOK
<1>9. ASSUME NEW r \in Req, Listen(r) PROVE TypeOK'
  <2>1. ctx' \in [Req -> BOOLEAN] /\ faults' \in 0..MaxFaults
    <3> HIDE DEF TypeOK, Fault, TimedOut
    <3>1. ctx \in [Req -> BOOLEAN] /\ faults \in 0..MaxFaults
      BY DEF TypeOK
    <3> QED BY <1>9, <3>1, TimedOutType, FaultType DEF Listen
  <2>2. pc' \in [Req -> {"idle", "regen"} \cup Undecided \cup Applied]
    BY <1>9 DEF Listen
  <2> HIDE DEF Undecided, Applied
  <2> QED BY <1>9, <2>1, <2>2 DEF Listen, ClusterTypeOK, EnvTypeOK
<1>10. ASSUME NEW r \in Req, Rollback(r) PROVE TypeOK'
  BY <1>10 DEF Rollback, RemoveService, ClusterTypeOK, EnvTypeOK
<1>11. ASSUME NEW r \in Req, DeleteRow(r) PROVE TypeOK'
  BY <1>11 DEF DeleteRow, RemoveService, ClusterTypeOK, EnvTypeOK
<1>12. ASSUME NEW r \in Req, Leave(r) PROVE TypeOK'
  <2>1. ask[r].node \in Node
    BY DEF Ask
  <2>2. ClusterTypeOK'
    BY <1>12, <2>1, LeaveCommandType DEF Leave, ClusterTypeOK
  <2> QED BY <1>12, <2>2 DEF Leave, EnvTypeOK
<1>13. ASSUME NEW r \in Req, WaitRemoved(r) PROVE TypeOK'
  <2>1. ctx' \in [Req -> BOOLEAN] /\ faults' \in 0..MaxFaults
    <3> HIDE DEF TypeOK, Fault, TimedOut
    <3>1. ctx \in [Req -> BOOLEAN] /\ faults \in 0..MaxFaults
      BY DEF TypeOK
    <3> QED BY <1>13, <3>1, TimedOutType, FaultType DEF WaitRemoved
  <2>2. pc' \in [Req -> {"idle", "regen"} \cup Undecided \cup Applied]
    BY <1>13 DEF WaitRemoved
  <2> HIDE DEF Undecided, Applied
  <2> QED BY <1>13, <2>1, <2>2 DEF WaitRemoved, ClusterTypeOK, EnvTypeOK
<1>14. ASSUME NEW r \in Req, Rename(r) PROVE TypeOK'
  <2>1. ask[r].node \in Node
    BY DEF Ask
  <2>2. ClusterTypeOK'
    BY <1>14, <2>1, MoveAsideType DEF Rename
  <2> QED BY <1>14, <2>2 DEF Rename, EnvTypeOK
<1>15. ASSUME NEW r \in Req, StopApps(r) PROVE TypeOK'
  <2>1. ask[r].node \in Node /\ ask[r].svc \in {"central", "chassis", "switch"}
    BY ServiceAssumption DEF Ask
  <2>2. ClusterTypeOK'
    <3>1. CASE SnapStop(ask[r].node, AppSet(ask[r].svc))
      BY <2>1, <3>1, AppSetType, SnapStopType
    <3>2. CASE UNCHANGED clusterVars
      BY <3>2 DEF ClusterTypeOK
    <3> QED BY <1>15, <3>1, <3>2 DEF StopApps
  <2>3. faults' \in 0..MaxFaults
    BY <1>15, BoundAssumption DEF StopApps
  <2> QED BY <1>15, <2>2, <2>3 DEF StopApps, EnvTypeOK
<1>16. ASSUME NEW r \in Req, Reply(r) PROVE TypeOK'
  <2>1. Refreshed(r) \in SUBSET Node
    BY DEF Refreshed, Ask
  <2>2. todo' \in [Req -> SUBSET Node] /\ lapsed' \subseteq Node
    BY <1>16, <2>1 DEF Reply, EnvTypeOK
  <2>3. pc' \in [Req -> {"idle", "regen"} \cup Undecided \cup Applied]
    BY <1>16 DEF Reply
  <2> HIDE DEF Undecided, Applied
  <2> QED BY <1>16, <2>2, <2>3 DEF Reply, ClusterTypeOK, EnvTypeOK
<1>17. ASSUME NEW r \in Req, RegenEnd(r) PROVE TypeOK'
  BY <1>17 DEF RegenEnd, ClusterTypeOK, EnvTypeOK
<1>18. ASSUME NEW r \in Req, NEW n \in Node, RefreshLock(r, n) PROVE TypeOK'
  BY <1>18 DEF RefreshLock, ClusterTypeOK, EnvTypeOK
<1>19. ASSUME NEW r \in Req, NEW n \in Node, RefreshLost(r, n) PROVE TypeOK'
  BY <1>19, BoundAssumption DEF RefreshLost, ClusterTypeOK, EnvTypeOK
<1>20. ASSUME NEW n \in Node, RefreshStep(n) PROVE TypeOK'
  <2>1. CASE RefreshRead(n)
    <3>1. CASE Unlock(n)
      BY <2>1, <3>1, UnlockType DEF RefreshRead, ClusterTypeOK, EnvTypeOK
    <3>2. CASE UNCHANGED <<hook, hhas, todo>>
      <4>1. hview' \in [Node -> SUBSET Node]
        BY <2>1, CentralsType DEF RefreshRead, Unlock
      <4>2. hpc' \in [Node -> {"free", "read", "env", "remote", "set"}]
        BY <2>1 DEF RefreshRead, Unlock
      <4>3. lapsed' \subseteq Node /\ overwritten' \subseteq Node
        BY <2>1 DEF RefreshRead, EnvTypeOK
      <4> QED BY <2>1, <3>2, <4>1, <4>2, <4>3
              DEF RefreshRead, ClusterTypeOK, EnvTypeOK
    <3> QED BY <2>1, <3>1, <3>2 DEF RefreshRead
  <2>2. CASE RefreshEnv(n)
    <3>1. ClusterTypeOK'
      BY <2>2 DEF RefreshEnv, ClusterTypeOK, App
    <3>2. env' \in [Node -> SUBSET Node] /\ missed' \subseteq Node
      BY <2>2 DEF RefreshEnv, EnvTypeOK
    <3>3. CASE Unlock(n)
      BY <2>2, <3>1, <3>2, <3>3, UnlockType DEF RefreshEnv, EnvTypeOK
    <3>4. CASE UNCHANGED <<hook, hview, hhas, todo, missed>>
      BY <2>2, <3>1, <3>2, <3>4 DEF RefreshEnv, Unlock, EnvTypeOK
    <3> QED BY <2>2, <3>3, <3>4 DEF RefreshEnv
  <2>3. CASE RefreshRemoteRead(n)
    <3>1. CASE Unlock(n)
      BY <2>3, <3>1, UnlockType DEF RefreshRemoteRead, ClusterTypeOK, EnvTypeOK
    <3>2. CASE UNCHANGED <<hook, hhas, todo, missed>>
      BY <2>3, <3>2, CentralsType, SMTT(30)
         DEF RefreshRemoteRead, Unlock, ClusterTypeOK, EnvTypeOK
    <3> QED BY <2>3, <3>1, <3>2 DEF RefreshRemoteRead
  <2>4. CASE RefreshRemoteSet(n)
    <3>1. remote' \in [Node -> SUBSET Node] /\ missed' \subseteq Node
      BY <2>4 DEF RefreshRemoteSet, SetRemote, EnvTypeOK
    <3>2. Unlock(n)
      BY <2>4 DEF RefreshRemoteSet
    <3> QED BY <2>4, <3>1, <3>2, UnlockType
            DEF RefreshRemoteSet, ClusterTypeOK, EnvTypeOK
  <2> QED BY <1>20, <2>1, <2>2, <2>3, <2>4 DEF RefreshStep
<1>21. ASSUME NEW n \in Node, Crash(n) PROVE TypeOK'
  <2>1. pc' \in [Req -> {"idle", "regen"} \cup Undecided \cup Applied]
    BY <1>21 DEF Crash
  <2>2. ctx' \in [Req -> BOOLEAN] /\ lapsed' \subseteq Node
    BY <1>21 DEF Crash, EnvTypeOK
  <2>3. faults' \in 0..MaxFaults
    BY <1>21, FaultType DEF Crash
  <2>4. daemon' \in [Node -> {"down", "activate", "read", "write", "remote",
                              "set", "up"}]
    BY <1>21 DEF Crash
  <2> HIDE DEF Undecided, Applied
  <2>5. CASE Unlock(n)
    BY <1>21, <2>1, <2>2, <2>3, <2>4, <2>5, UnlockType
       DEF Crash, ClusterTypeOK, EnvTypeOK
  <2>6. CASE UNCHANGED <<hookVars, todo>>
    BY <1>21, <2>1, <2>2, <2>3, <2>4, <2>6 DEF Crash, ClusterTypeOK, EnvTypeOK
  <2> QED BY <1>21, <2>5, <2>6 DEF Crash
<1>22. ASSUME NEW n \in Node, BootStep(n) PROVE TypeOK'
  <2>1. CASE Restart(n)
    BY <2>1 DEF Restart, ClusterTypeOK, EnvTypeOK
  <2>2. CASE BootActivate(n)
    <3> DEFINE started == UNION {AppSet(svc) : svc \in EnabledOn(n)}
    <3>1. \A svc \in EnabledOn(n) : AppSet(svc) \subseteq App
      BY AppSetType, ServiceAssumption DEF EnabledOn
    <3>2. started \in SUBSET App
      BY <3>1
    <3>3. InitialHost(n, env[n]) \in Node \cup {None}
      BY InitialHostType DEF EnvTypeOK
    <3>4. SnapStart(n, started, InitialHost(n, env[n]))
      BY <2>2 DEF BootActivate
    <3>5. ClusterTypeOK'
      BY <3>2, <3>3, <3>4, SnapStartType
    <3> QED BY <2>2, <3>5 DEF BootActivate, EnvTypeOK
  <2>3. CASE BootRead(n)
    BY <2>3, CentralsType DEF BootRead, ClusterTypeOK, EnvTypeOK
  <2>4. CASE BootWrite(n)
    BY <2>4 DEF BootWrite, Overwrites, ClusterTypeOK, EnvTypeOK
  <2>5. CASE BootRemoteRead(n)
    BY <2>5, CentralsType DEF BootRemoteRead, ClusterTypeOK, EnvTypeOK
  <2>6. CASE BootRemoteSet(n)
    BY <2>6 DEF BootRemoteSet, SetRemote, ClusterTypeOK, EnvTypeOK
  <2> QED BY <1>22, <2>1, <2>2, <2>3, <2>4, <2>5, <2>6 DEF BootStep
<1>23. ASSUME NEW n \in Node, DatabaseStep(n) PROVE TypeOK'
  BY <1>23, DatabaseStepType DEF DatabaseStep, EnvTypeOK
<1>24. CASE UNCHANGED vars
  BY <1>24 DEF vars, ClusterTypeOK, EnvTypeOK
<1> QED
  BY <1>1, <1>2, <1>3, <1>4, <1>5, <1>6, <1>7, <1>8, <1>9, <1>10, <1>11,
     <1>12, <1>13, <1>14, <1>15, <1>16, <1>17, <1>18, <1>19, <1>20, <1>21,
     <1>22, <1>23, <1>24 DEF Next, Handle, Settled

\* Every reachable state is in the types, for all values of the constants.
THEOREM TypeCorrect == Spec => []TypeOK
<1>1. Init => TypeOK
  BY InitType
<1>2. TypeOK /\ [Next]_vars => TypeOK'
  BY NextType
<1> QED BY <1>1, <1>2, PTL DEF Spec

---------------------------------------------------------------------------
(* One request after the other, and no faults.                             *)

\* Commands are given one at a time and none fails, on a cluster of any size.
Serial(r) == Req = {r} /\ MaxFaults = 0 /\ IsFiniteSet(Node)

\* The nodes of C are the raft members of one cluster, nobody else has a database.
Formed(C) ==
  /\ \A m \in Node \ C : db[m] = NoDatabase
  /\ C # {} => \E c \in Cluster : servers[c] = C /\ \A m \in C : db[m] = MemberOf(c)

\* The other central nodes are a cluster that n has not joined yet.
Joins(n) ==
  /\ \A m \in Node \ Centrals : db[m] = NoDatabase
  /\ \E p \in Centrals \ {n} : db[n] = Joining(p)
  /\ \E c \in Cluster : /\ servers[c] = Centrals \ {n}
                        /\ \A m \in Centrals \ {n} : db[m] = MemberOf(c)

\* n leaves the cluster of the central nodes, or has left; it has its file or not.
Departing(n, file) ==
  /\ \A m \in Node \ (Centrals \cup {n}) : db[m] = NoDatabase
  /\ \E c \in Cluster :
       /\ \A m \in Centrals : db[m] = MemberOf(c)
       /\ \/ /\ servers[c] = Centrals \cup {n}
             /\ db[n] = [st |-> "leaving", peer |-> None, cid |-> c, file |-> file]
          \/ /\ servers[c] = Centrals
             /\ db[n] = [st |-> "left", peer |-> None, cid |-> None, file |-> file]

\* Steps of a request between its change of the table and what follows from it.
Enables == {"readEnv", "writeEnv", "start"}
Disables == {"leave", "wait", "rename", "stop"}

\* What the request found in the table still holds.
FlowKept(r) ==
  LET a == ask[r]
      confirmed == Cardinality(view[r]) = 1 => a.allow
  IN
  /\ faults = 0 /\ ctx[r] /\ pc[r] # "rollback"
  /\ \A m \in Node : daemon[m] = "up"
  /\ pc[r] = "create" => a.op = "enable" /\ ~Enabled(a.node, a.svc)
  /\ pc[r] \in Enables \cup {"listen"} => a.op = "enable" /\ Enabled(a.node, a.svc)
  /\ pc[r] \in {"last", "delete"} => a.op = "disable" /\ Enabled(a.node, a.svc)
  /\ pc[r] \in Disables => a.op = "disable" /\ ~Enabled(a.node, a.svc)
  /\ pc[r] \in {"last", "listen", "leave", "wait", "rename"} => a.svc = "central"
  /\ pc[r] = "writeEnv" => view[r] = Centrals
  /\ pc[r] = "start" => env[a.node] = Centrals
  /\ pc[r] = "delete" /\ a.svc = "central" => view[r] = Centrals /\ confirmed
  /\ pc[r] = "leave" => view[r] = Centrals \cup {a.node} /\ confirmed

\* A refresh runs for the request, on a node that it still waits for, and what it
\* found of central is true.
HooksKept(r) ==
  \A m \in Node :
    hpc[m] # "free" =>
      /\ hook[m] = r /\ pc[r] = "regen" /\ m \in todo[r]
      /\ "central" \in hhas[m] => Enabled(m, "central")

Runs(m, svc) ==
  IF Enabled(m, svc) THEN AppSet(svc) \subseteq apps[m] ELSE AppSet(svc) \cap apps[m] = {}

\* Snap services follow the table, but for the service the request is about.
AppsKept(r) ==
  \A m \in Node, svc \in Service :
    IF m = ask[r].node /\ svc = ask[r].svc /\ pc[r] \in Enables \cup Disables
    THEN IF pc[r] \in Enables THEN AppSet(svc) \cap apps[m] = {}
                              ELSE AppSet(svc) \subseteq apps[m]
    ELSE Runs(m, svc)

\* Who has which database at every step of the request.
DbKept(r) ==
  LET n == ask[r].node
      central == ask[r].svc = "central"
  IN
  /\ ~central \/ pc[r] \notin Enables \cup Disables \cup {"listen"} => Formed(Centrals)
  /\ central /\ pc[r] \in Enables => Formed(Centrals \ {n})
  /\ pc[r] = "listen" => Formed(Centrals) \/ Joins(n)
  /\ pc[r] = "leave" => Formed(Centrals \cup {n})
  /\ pc[r] = "wait" => Departing(n, TRUE) /\ Centrals # {}
  /\ pc[r] = "rename" => Departing(n, TRUE)
  /\ central /\ pc[r] = "stop" => Departing(n, FALSE)
  /\ central /\ pc[r] \in {"rename", "stop"} => Centrals = {} \/ db[n].st = "left"

\* However often services are enabled and disabled, one request after the other,
\* the table, the snap services and the databases are at most one request apart.
SerialKept(r) == FlowKept(r) /\ HooksKept(r) /\ AppsKept(r) /\ DbKept(r)

---------------------------------------------------------------------------
(* The steps of the one request.                                           *)

\* What the request asks for, and what is known of its steps.
LEMMA SerialParts ==
  ASSUME NEW r, Serial(r), TypeOK
  PROVE  /\ r \in Req /\ ask[r] \in Ask
         /\ ask[r].node \in Node /\ ask[r].svc \in Service
         /\ ask[r].svc \in {"central", "chassis", "switch"}
         /\ ask[r].op \in {"enable", "disable"}
         /\ pc[r] \in {"idle", "regen"} \cup Undecided \cup Applied
         /\ ~Fault
         /\ \A step : Goto(r, step) => pc'[r] = step
<1>1. r \in Req /\ ask[r] \in Ask
  BY DEF Serial, TypeOK
<1>2. ~Fault
  BY DEF Serial, TypeOK, Fault
<1>3. \A step : Goto(r, step) => pc'[r] = step
  BY <1>1 DEF TypeOK, Goto
<1> QED BY <1>1, <1>2, <1>3, ServiceAssumption DEF Ask, TypeOK

\* The nodes of a change of the table.
LEMMA CentralsMove ==
  ASSUME NEW n \in Node, NEW svc \in Service
  PROVE  /\ AddService(n, svc) =>
              /\ Centrals' = IF svc = "central" THEN Centrals \cup {n} ELSE Centrals
              /\ \A m, s : Enabled(m, s)' <=> Enabled(m, s) \/ (m = n /\ s = svc)
         /\ RemoveService(n, svc) =>
              /\ Centrals' = IF svc = "central" THEN Centrals \ {n} ELSE Centrals
              /\ \A m, s : Enabled(m, s)' <=> Enabled(m, s) /\ ~(m = n /\ s = svc)
<1>1. ASSUME AddService(n, svc)
      PROVE  \A m, s : Enabled(m, s)' <=> Enabled(m, s) \/ (m = n /\ s = svc)
  BY <1>1 DEF AddService, Enabled
<1>2. ASSUME RemoveService(n, svc)
      PROVE  \A m, s : Enabled(m, s)' <=> Enabled(m, s) /\ ~(m = n /\ s = svc)
  BY <1>2 DEF RemoveService, Enabled
<1>3. ASSUME AddService(n, svc)
      PROVE  Centrals' = IF svc = "central" THEN Centrals \cup {n} ELSE Centrals
  BY <1>1, <1>3 DEF Centrals
<1>4. ASSUME RemoveService(n, svc)
      PROVE  Centrals' = IF svc = "central" THEN Centrals \ {n} ELSE Centrals
  BY <1>2, <1>4 DEF Centrals
<1> QED BY <1>1, <1>2, <1>3, <1>4

\* A step that does not touch table, snap services and databases.
LEMMA ViewSame ==
  ASSUME services' = services
  PROVE  /\ Centrals' = Centrals
         /\ \A m, s : Enabled(m, s)' <=> Enabled(m, s)
BY DEF Centrals, Enabled

LEMMA AppsSame ==
  ASSUME NEW r, AppsKept(r), UNCHANGED <<apps, services>>,
         ask'[r] = ask[r] \/ pc[r] \notin Enables \cup Disables,
         pc'[r] \in Enables <=> pc[r] \in Enables,
         pc'[r] \in Disables <=> pc[r] \in Disables
  PROVE  AppsKept(r)'
BY ViewSame DEF AppsKept, Runs

LEMMA HooksSame ==
  ASSUME NEW r, HooksKept(r), pc[r] # "regen", hpc' = hpc
  PROVE  HooksKept(r)'
BY DEF HooksKept

LEMMA DbSame ==
  ASSUME NEW r, UNCHANGED <<db, servers, services>>, NEW C, NEW n, NEW file
  PROVE  /\ Formed(Centrals)' <=> Formed(Centrals)
         /\ Formed(Centrals \ {n})' <=> Formed(Centrals \ {n})
         /\ Formed(Centrals \cup {n})' <=> Formed(Centrals \cup {n})
         /\ Joins(n)' <=> Joins(n)
         /\ Departing(n, file)' <=> Departing(n, file)
<1>1. Centrals' = Centrals
  BY ViewSame
<1>2. Formed(Centrals)' <=> Formed(Centrals)
  BY <1>1 DEF Formed
<1>3. Formed(Centrals \ {n})' <=> Formed(Centrals \ {n})
  BY <1>1 DEF Formed
<1>4. Formed(Centrals \cup {n})' <=> Formed(Centrals \cup {n})
  BY <1>1 DEF Formed
<1>5. Joins(n)' <=> Joins(n)
  BY <1>1 DEF Joins
<1>6. Departing(n, file)' <=> Departing(n, file)
  BY <1>1 DEF Departing
<1> QED BY <1>2, <1>3, <1>4, <1>5, <1>6

\* A request is issued.
LEMMA IssueSerial ==
  ASSUME NEW r, Serial(r), TypeOK, SerialKept(r), Issue(r)
  PROVE  SerialKept(r)'
<1>1. pc[r] = "idle" /\ pc'[r] = "check" /\ ctx'[r] /\ faults' = faults
  BY SerialParts DEF Issue, TypeOK
<1>2. UNCHANGED <<apps, db, servers, services, hpc, daemon, env>>
  BY DEF Issue, clusterVars, envVars, hookVars, bootVars
<1>3. FlowKept(r)'
  BY <1>1, <1>2 DEF SerialKept, FlowKept, Enables, Disables
<1>4. AppsKept(r)'
  BY <1>1, <1>2, AppsSame DEF SerialKept, Enables, Disables
<1>5. DbKept(r)'
  BY <1>1, <1>2, DbSame DEF SerialKept, DbKept, Enables, Disables
<1> QED BY <1>1, <1>2, <1>3, <1>4, <1>5, HooksSame DEF SerialKept

\* The checks of both handlers.
LEMMA CheckSerial ==
  ASSUME NEW r, Serial(r), TypeOK, SerialKept(r), Check(r) \/ LastCheck(r)
  PROVE  SerialKept(r)'
<1>1. UNCHANGED <<apps, db, servers, services, ask, ctx, hpc, daemon, env, faults>>
  BY DEF Check, LastCheck, clusterVars, envVars, hookVars, bootVars, boundVars
<1>2. /\ pc[r] \in {"check", "last"}
      /\ pc'[r] \in {"idle", "create", "last", "delete"}
      /\ pc'[r] = "create" => ask[r].op = "enable" /\ ~Enabled(ask[r].node, ask[r].svc)
      /\ pc'[r] \in {"last", "delete"} =>
           ask[r].op = "disable" /\ Enabled(ask[r].node, ask[r].svc)
      /\ pc'[r] = "last" => ask[r].svc = "central"
      /\ pc'[r] = "delete" /\ ask[r].svc = "central" =>
           view'[r] = Centrals /\ (Cardinality(view'[r]) = 1 => ask[r].allow)
  <2>1. CASE Check(r)
    BY <2>1, SerialParts DEF Check, At, SerialKept, FlowKept
  <2>2. CASE LastCheck(r)
    <3>1. pc[r] = "last" /\ view'[r] = Centrals
      BY <2>2, SerialParts DEF LastCheck, At, TypeOK
    <3>2. pc'[r] = "idle" \/ (pc'[r] = "delete" /\ ~LastRefused(r))
      BY <2>2, SerialParts DEF LastCheck
    <3> QED BY <3>1, <3>2 DEF SerialKept, FlowKept, LastRefused
  <2> QED BY <2>1, <2>2
<1>3. FlowKept(r)'
  BY <1>1, <1>2, ViewSame DEF SerialKept, FlowKept, Enables, Disables
<1>4. AppsKept(r)'
  BY <1>1, <1>2, AppsSame DEF SerialKept, Enables, Disables
<1>5. DbKept(r)'
  BY <1>1, <1>2, DbSame DEF SerialKept, DbKept, Enables, Disables
<1> QED BY <1>1, <1>2, <1>3, <1>4, <1>5, HooksSame DEF SerialKept

\* The row is created: what there is belongs to the other central nodes.
LEMMA CreateSerial ==
  ASSUME NEW r, Serial(r), TypeOK, SerialKept(r), CreateRow(r)
  PROVE  SerialKept(r)'
<1> DEFINE n == ask[r].node
           svc == ask[r].svc
<1>1. UNCHANGED <<apps, db, servers, ask, ctx, hpc, daemon, env, faults>>
  BY DEF CreateRow, clusterVars, hookVars, bootVars, boundVars
<1>2. /\ pc[r] = "create" /\ pc'[r] = "readEnv" /\ AddService(n, svc)
      /\ ask[r].op = "enable" /\ ~Enabled(n, svc)
  BY SerialParts DEF CreateRow, At, SerialKept, FlowKept
<1>3. /\ Centrals' = IF svc = "central" THEN Centrals \cup {n} ELSE Centrals
      /\ \A m, s : Enabled(m, s)' <=> Enabled(m, s) \/ (m = n /\ s = svc)
  BY <1>2, SerialParts, CentralsMove
<1>4. FlowKept(r)'
  <2>1. Enabled(ask[r].node, ask[r].svc)'
    BY <1>1, <1>3 DEF Enabled
  <2> QED BY <1>1, <1>2, <2>1 DEF SerialKept, FlowKept, Enables, Disables
<1>5. AppsKept(r)'
  BY <1>1, <1>2, <1>3 DEF SerialKept, AppsKept, Runs, Enables, Disables
<1>6. DbKept(r)'
  <2>1. Formed(Centrals)
    BY <1>2 DEF SerialKept, DbKept, Enables, Disables
  <2>2. CASE svc = "central"
    <3>1. n \notin Centrals
      BY <1>2, <2>2 DEF Centrals
    <3>2. Centrals' \ {n} = Centrals
      BY <1>3, <2>2, <3>1
    <3>3. Formed(Centrals \ {ask[r].node})'
      BY <1>1, <2>1, <3>2 DEF Formed
    <3> QED BY <1>1, <1>2, <2>2, <3>3 DEF DbKept, Enables, Disables
  <2>3. CASE svc # "central"
    <3>1. Formed(Centrals)'
      BY <1>1, <1>3, <2>1, <2>3 DEF Formed
    <3> QED BY <1>1, <1>2, <2>3, <3>1 DEF DbKept, Enables, Disables
  <2> QED BY <2>2, <2>3
<1> QED BY <1>1, <1>2, <1>4, <1>5, <1>6, HooksSame DEF SerialKept

\* The environment file is written: it lists the central nodes.
LEMMA EnvSerial ==
  ASSUME NEW r, Serial(r), TypeOK, SerialKept(r), ReadEnv(r) \/ WriteEnv(r)
  PROVE  SerialKept(r)'
<1>1. UNCHANGED <<apps, db, servers, services, ask, ctx, hpc, daemon, faults>>
  BY DEF ReadEnv, WriteEnv, clusterVars, envVars, hookVars, bootVars, boundVars
<1>2. \/ pc[r] = "readEnv" /\ pc'[r] = "writeEnv" /\ view'[r] = Centrals
      \/ pc[r] = "writeEnv" /\ pc'[r] = "start" /\ env'[ask[r].node] = Centrals
  <2>1. CASE ReadEnv(r)
    BY <2>1, SerialParts DEF ReadEnv, At, TypeOK, SerialKept, FlowKept
  <2>2. CASE WriteEnv(r)
    BY <2>2, SerialParts DEF WriteEnv, At, TypeOK, EnvTypeOK, SerialKept, FlowKept
  <2> QED BY <2>1, <2>2
<1>3. FlowKept(r)'
  BY <1>1, <1>2, ViewSame DEF SerialKept, FlowKept, Enables, Disables
<1>4. AppsKept(r)'
  BY <1>1, <1>2, AppsSame DEF SerialKept, Enables, Disables
<1>5. DbKept(r)'
  BY <1>1, <1>2, DbSame DEF SerialKept, DbKept, Enables, Disables
<1> QED BY <1>1, <1>2, <1>3, <1>4, <1>5, HooksSame DEF SerialKept

---------------------------------------------------------------------------
(* The databases.                                                          *)

\* The snap services of the three services.
LEMMA AppSets ==
  /\ AppSet("central") = {"ovsdb", "northd"}
  /\ AppSet("chassis") = {"chassis"} /\ AppSet("switch") = {"switch"}
<1>1. AppSet("central") = {"ovsdb", "northd"}
  BY DEF AppSet, AppsOf
<1>2. AppSet("chassis") = {"chassis"} /\ AppSet("switch") = {"switch"}
  BY DEF AppSet, AppsOf
<1> QED BY <1>1, <1>2

\* A database some of whose parts change.
LEMMA DatabaseFields ==
  ASSUME NEW d \in Database, NEW x
  PROVE  /\ [d EXCEPT !.st = x]
            = [st |-> x, peer |-> d.peer, cid |-> d.cid, file |-> d.file]
         /\ [d EXCEPT !.file = x]
            = [st |-> d.st, peer |-> d.peer, cid |-> d.cid, file |-> x]
         /\ [d EXCEPT !.cid = x]
            = [st |-> d.st, peer |-> d.peer, cid |-> x, file |-> d.file]
         /\ x \in {"member", "left"} => [d EXCEPT !.st = x] \in Database
         /\ x \in {None} => [d EXCEPT !.peer = x] \in Database
BY DEF Database, DatabaseWith

LEMMA DatabaseLeft ==
  ASSUME NEW d \in Database
  PROVE  [d EXCEPT !.st = "left", !.cid = None]
         = [st |-> "left", peer |-> d.peer, cid |-> None, file |-> d.file]
<1> DEFINE e == [d EXCEPT !.st = "left"]
<1>1. e \in Database /\ e = [st |-> "left", peer |-> d.peer, cid |-> d.cid, file |-> d.file]
  BY DatabaseFields
<1>2. e.st = "left" /\ e.peer = d.peer /\ e.file = d.file
  BY <1>1
<1>3. [e EXCEPT !.cid = None]
      = [st |-> "left", peer |-> d.peer, cid |-> None, file |-> d.file]
  <2> HIDE DEF e
  <2> QED BY <1>1, <1>2, DatabaseFields
<1> QED BY <1>3

LEMMA DatabaseJoined ==
  ASSUME NEW d \in Database, NEW c
  PROVE  [d EXCEPT !.st = "member", !.peer = None, !.cid = c]
         = [st |-> "member", peer |-> None, cid |-> c, file |-> d.file]
<1> DEFINE e == [d EXCEPT !.st = "member"]
           f == [e EXCEPT !.peer = None]
<1>1. e \in Database /\ e.st = "member" /\ e.file = d.file
  BY DatabaseFields DEF Database, DatabaseWith
<1>2. f \in Database /\ f.st = "member" /\ f.peer = None /\ f.file = d.file
  <2> HIDE DEF e
  <2> QED BY <1>1 DEF Database, DatabaseWith
<1>3. [f EXCEPT !.cid = c]
      = [st |-> "member", peer |-> None, cid |-> c, file |-> d.file]
  <2> HIDE DEF f
  <2> QED BY <1>2, DatabaseFields
<1> QED BY <1>3

\* Servers that all run are a quorum.
LEMMA AllServe ==
  ASSUME IsFiniteSet(Node), NEW c, servers[c] \in SUBSET Node, servers[c] # {},
         \A m \in servers[c] :
           Running(m) /\ db[m].cid = c /\ db[m].st \in {"member", "leaving"}
  PROVE  Quorum(c)
<1>1. Serving(c) = servers[c]
  BY DEF Serving
<1>2. Cardinality(servers[c]) \in Nat /\ Cardinality(servers[c]) # 0
  BY FS_Subset, FS_CardinalityType, FS_EmptySet
<1> QED BY <1>1, <1>2 DEF Quorum

\* In a cluster whose servers all run, everybody is connected and nobody comes or
\* goes.
LEMMA FormedRests ==
  ASSUME IsFiniteSet(Node), ClusterTypeOK, NEW C \in SUBSET Node, Formed(C),
         \A m \in C : Running(m)
  PROVE  /\ \A m \in C : Connected(m)
         /\ \A m \in Node : ~CanJoin(m) /\ ~CanDepart(m)
<1>1. ASSUME NEW m \in Node PROVE db[m].st \in {"none", "member"}
  <2>1. CASE m \in C
    <3>1. PICK c \in Cluster : \A k \in C : db[k] = MemberOf(c)
      BY <2>1 DEF Formed
    <3>2. db[m] = MemberOf(c)
      BY <2>1, <3>1
    <3> QED BY <3>2 DEF MemberOf
  <2>2. CASE m \notin C
    BY <2>2 DEF Formed, NoDatabase
  <2> QED BY <2>1, <2>2
<1>2. ASSUME NEW m \in C PROVE Connected(m)
  <2>1. PICK c \in Cluster : servers[c] = C /\ \A k \in C : db[k] = MemberOf(c)
    BY <1>2 DEF Formed
  <2>2. \A k \in C : db[k].cid = c /\ db[k].st = "member"
    BY <2>1 DEF MemberOf
  <2>3. Quorum(c)
    BY <1>2, <2>1, <2>2, AllServe
  <2> QED BY <1>2, <2>2, <2>3 DEF Connected
<1> QED BY <1>1, <1>2 DEF CanJoin, CanDepart

\* The central nodes run their databases.
LEMMA CentralsRun ==
  ASSUME NEW r, Serial(r), TypeOK, SerialKept(r)
  PROVE  /\ \A m \in Centrals :
              (ask[r].svc = "central" /\ pc[r] \in Enables => m # ask[r].node) => Running(m)
         /\ ask[r].svc = "central" /\ pc[r] \in Disables => Running(ask[r].node)
<1>1. "central" \in Service /\ Enables \cap Disables = {}
  BY ServiceAssumption DEF Enables, Disables
<1>2. ASSUME NEW m \in Centrals, ask[r].svc = "central" /\ pc[r] \in Enables => m # ask[r].node
      PROVE  Running(m)
  <2>1. m \in Node /\ Enabled(m, "central")
    BY DEF Centrals
  <2>2. Runs(m, "central")
    <3>1. ~(m = ask[r].node /\ ask[r].svc = "central" /\ pc[r] \in Disables)
      BY <2>1 DEF SerialKept, FlowKept
    <3>2. ~(m = ask[r].node /\ "central" = ask[r].svc /\ pc[r] \in Enables \cup Disables)
      BY <1>2, <3>1
    <3> QED BY <1>1, <2>1, <3>2 DEF SerialKept, AppsKept
  <2> QED BY <2>1, <2>2, AppSets DEF Runs, Running
<1>3. ASSUME ask[r].svc = "central", pc[r] \in Disables PROVE Running(ask[r].node)
  <2>1. AppSet("central") \subseteq apps[ask[r].node]
    BY <1>1, <1>3, SerialParts DEF SerialKept, AppsKept
  <2> QED BY <2>1, AppSets DEF Running
<1> QED BY <1>2, <1>3

\* A node that joins can do so, and nobody else comes or goes.
LEMMA JoinsRests ==
  ASSUME IsFiniteSet(Node), ClusterTypeOK, NEW n \in Centrals, Joins(n),
         \A m \in Centrals : Running(m)
  PROVE  /\ CanJoin(n) /\ ~Connected(n)
         /\ \A m \in Node : ~CanDepart(m) /\ (m # n => ~CanJoin(m))
<1>1. PICK p \in Centrals \ {n}, c \in Cluster :
        /\ db[n] = Joining(p) /\ servers[c] = Centrals \ {n}
        /\ \A m \in Centrals \ {n} : db[m] = MemberOf(c)
  BY DEF Joins
<1>2. n \in Node /\ p \in Node /\ Centrals \subseteq Node
  BY DEF Centrals
<1>3. db[n].st = "joining" /\ db[n].peer = p
  BY <1>1 DEF Joining
<1>4. \A m \in Centrals \ {n} : db[m].st = "member" /\ db[m].cid = c
  BY <1>1 DEF MemberOf
<1>5. \A m \in Node \ Centrals : db[m].st = "none"
  BY DEF Joins, NoDatabase
<1>6. Quorum(c)
  BY <1>1, <1>2, <1>4, AllServe
<1> QED BY <1>1, <1>2, <1>3, <1>4, <1>5, <1>6 DEF CanJoin, CanDepart, Connected

\* A node that leaves can do so while it has not, and nobody else comes or goes.
LEMMA DepartingRests ==
  ASSUME IsFiniteSet(Node), ClusterTypeOK, NEW n \in Node, n \notin Centrals,
         NEW file, Departing(n, file), Running(n), \A m \in Centrals : Running(m)
  PROVE  /\ db[n].st = "leaving" => CanDepart(n)
         /\ db[n].st \in {"leaving", "left"} /\ db[n].file = file
         /\ \A m \in Node : ~CanJoin(m) /\ (m # n => ~CanDepart(m))
<1>1. PICK c \in Cluster :
        /\ \A m \in Centrals : db[m] = MemberOf(c)
        /\ \/ /\ servers[c] = Centrals \cup {n}
              /\ db[n] = [st |-> "leaving", peer |-> None, cid |-> c, file |-> file]
           \/ /\ servers[c] = Centrals
              /\ db[n] = [st |-> "left", peer |-> None, cid |-> None, file |-> file]
  BY DEF Departing
<1>2. Centrals \subseteq Node
  BY DEF Centrals
<1>3. \A m \in Centrals : db[m].st = "member" /\ db[m].cid = c
  BY <1>1 DEF MemberOf
<1>4. \A m \in Node \ (Centrals \cup {n}) : db[m].st = "none"
  BY DEF Departing, NoDatabase
<1>5. db[n].st \in {"leaving", "left"} /\ db[n].file = file
  BY <1>1
<1>6. ASSUME db[n].st = "leaving" PROVE CanDepart(n)
  <2>1. servers[c] = Centrals \cup {n} /\ db[n].cid = c
    BY <1>1, <1>6
  <2>2. Quorum(c)
    BY <1>2, <1>3, <1>6, <2>1, AllServe
  <2> QED BY <1>6, <2>1, <2>2 DEF CanDepart
<1> QED BY <1>2, <1>3, <1>4, <1>5, <1>6 DEF CanJoin, CanDepart

\* The only central node creates the databases, any other joins one that has them.
LEMMA InitialHostOf ==
  ASSUME IsFiniteSet(Node), NEW n \in Node, NEW C \in SUBSET Node, n \in C
  PROVE  /\ C = {n} => InitialHost(n, C) = n
         /\ C # {n} => InitialHost(n, C) \in C \ {n}
<1>1. \A S \in SUBSET Node : S # {} => FirstOf(S) \in S
  BY FirstOfType, NodeAssumption
<1>2. CASE C = {n}
  <2>1. Cardinality(C) = 1
    BY <1>2, FS_Singleton
  <2>2. FirstOf(C) = n
    BY <1>1, <1>2
  <2> QED BY <1>2, <2>1, <2>2 DEF InitialHost
<1>3. CASE C # {n}
  <2>1. Cardinality(C) # 1
    <3> SUFFICES ASSUME Cardinality(C) = 1 PROVE FALSE
      OBVIOUS
    <3>1. IsFiniteSet(C)
      BY FS_Subset
    <3>2. \E x : C = {x}
      BY <3>1, FS_Singleton
    <3> QED BY <1>3, <3>2
  <2>2. C \ {n} # {} /\ FirstOf(C \ {n}) \in C \ {n}
    BY <1>1, <1>3
  <2> QED BY <1>3, <2>1, <2>2 DEF InitialHost
<1> QED BY <1>2, <1>3

\* The snap services are started: the databases are created, or joined.
LEMMA StartSerial ==
  ASSUME NEW r, Serial(r), TypeOK, SerialKept(r), StartApps(r)
  PROVE  SerialKept(r)'
<1>0. PICK n \in Node, svc \in Service : n = ask[r].node /\ svc = ask[r].svc
  BY SerialParts
<1> DEFINE h == InitialHost(n, Centrals)
<1>1. /\ UNCHANGED <<services, ask, ctx, hpc, daemon>> /\ pc[r] = "start"
      /\ ask[r].op = "enable" /\ Enabled(n, svc) /\ ctx[r] /\ env[n] = Centrals
      /\ r \in Req /\ svc \in {"central", "chassis", "switch"} /\ ~Fault
  BY <1>0, SerialParts
     DEF StartApps, At, envVars, hookVars, bootVars, SerialKept, FlowKept, Enables
<1>2. /\ SnapStart(n, AppSet(svc), h)
      /\ pc'[r] = IF svc = "central" THEN "listen" ELSE "reply"
      /\ faults' = faults
  <2> DEFINE order == AppsOf(svc)
  <2>1. PICK k \in 0..Len(order) :
          /\ SnapStart(n, {order[i] : i \in 1..k}, h)
          /\ k = Len(order) /\ faults' = faults
          /\ Goto(r, IF k < Len(order) THEN "rollback"
                     ELSE IF svc = "central" THEN "listen" ELSE "reply")
    BY <1>0, <1>1 DEF StartApps
  <2>2. {order[i] : i \in 1..Len(order)} = AppSet(svc) /\ ~(Len(order) < Len(order))
    BY <1>1, AppSetType DEF AppSet, AppsOf
  <2> HIDE DEF order, h
  <2>3. Goto(r, IF svc = "central" THEN "listen" ELSE "reply")
    BY <2>1, <2>2
  <2>4. pc'[r] = IF svc = "central" THEN "listen" ELSE "reply"
    BY <2>3, SerialParts
  <2> QED BY <2>1, <2>2, <2>4
<1>3. Centrals' = Centrals /\ \A m, s : Enabled(m, s)' <=> Enabled(m, s)
  BY <1>1, ViewSame
<1>4. FlowKept(r)'
  BY <1>0, <1>1, <1>2, <1>3 DEF SerialKept, FlowKept, Enables, Disables
<1>5. apps' = [apps EXCEPT ![n] = @ \cup AppSet(svc)]
  BY <1>2 DEF SnapStart
<1>6. AppsKept(r)'
  <2> SUFFICES ASSUME NEW m \in Node, NEW s \in Service PROVE Runs(m, s)'
    BY <1>1, <1>2 DEF AppsKept, Enables, Disables
  <2>1. apps'[m] = IF m = n THEN apps[m] \cup AppSet(svc) ELSE apps[m]
    BY <1>1, <1>5 DEF TypeOK, ClusterTypeOK
  <2>2. CASE m = n /\ s = svc
    BY <1>1, <1>3, <2>1, <2>2 DEF Runs
  <2>3. CASE ~(m = n /\ s = svc)
    <3>1. Runs(m, s)
      BY <1>0, <2>3 DEF SerialKept, AppsKept
    <3>2. s # svc => AppSet(s) \cap AppSet(svc) = {}
      BY <1>1, AppSets, ServiceAssumption
    <3> QED BY <1>3, <2>1, <2>3, <3>1, <3>2 DEF Runs
  <2> QED BY <2>2, <2>3
<1>7. DbKept(r)'
  <2>1. CASE svc # "central"
    <3>1. UNCHANGED <<db, servers>>
      BY <1>1, <1>2, <2>1, AppSets DEF SnapStart
    <3>2. Formed(Centrals)
      BY <1>0, <1>1, <2>1 DEF SerialKept, DbKept
    <3>3. Formed(Centrals)'
      BY <1>1, <3>1, <3>2, DbSame
    <3> QED BY <1>0, <1>1, <1>2, <2>1, <3>3 DEF DbKept, Enables, Disables
  <2>2. CASE svc = "central"
    <3>1. n \in Centrals /\ Centrals \in SUBSET Node
      BY <1>1, <2>2 DEF Centrals
    <3>2. Formed(Centrals \ {n}) /\ "ovsdb" \notin apps[n]
      <4>1. AppSet("central") \cap apps[n] = {}
        BY <1>0, <1>1, <2>2 DEF SerialKept, AppsKept, Enables
      <4> QED BY <1>0, <1>1, <2>2, <4>1, AppSets DEF SerialKept, DbKept, Enables
    <3>3. ServerStarted(n, h)
      <4>1. "ovsdb" \in AppSet(svc) \ apps[n]
        BY <2>2, <3>2, AppSets
      <4> QED BY <1>2, <4>1 DEF SnapStart
    <3>4. db[n].st = "none" /\ \A m \in Node \ Centrals : db[m] = NoDatabase
      <4>1. \A m \in Node \ (Centrals \ {n}) : db[m] = NoDatabase
        BY <3>2 DEF Formed
      <4>2. db[n] = NoDatabase
        BY <4>1
      <4> QED BY <4>1, <4>2 DEF NoDatabase
    <3>5. Centrals = {n} => h = n
      BY <3>1, InitialHostOf DEF Serial
    <3>6. Centrals # {n} => h \in Centrals \ {n}
      BY <3>1, InitialHostOf DEF Serial
    <3> HIDE DEF h
    <3>7. CASE Centrals = {n}
      <4>1. PICK c \in FreeCluster :
              db' = [db EXCEPT ![n] = MemberOf(c)] /\ servers' = [servers EXCEPT ![c] = {n}]
        BY <3>3, <3>4, <3>5, <3>7 DEF ServerStarted
      <4>2. c \in Cluster /\ servers'[c] = {n}
        BY <4>1 DEF FreeCluster, TypeOK, ClusterTypeOK
      <4>3. db'[n] = MemberOf(c) /\ \A m \in Node \ {n} : db'[m] = NoDatabase
        BY <3>4, <3>7, <4>1 DEF TypeOK, ClusterTypeOK
      <4>4. Formed(Centrals)'
        BY <1>3, <3>7, <4>2, <4>3 DEF Formed
      <4> QED BY <1>0, <1>1, <1>2, <2>2, <4>4 DEF DbKept, Enables, Disables
    <3>8. CASE Centrals # {n}
      <4>1. h \in Centrals \ {n} /\ h \in Node /\ h # None
        BY <3>1, <3>6, <3>8, NodeAssumption
      <4>2. db' = [db EXCEPT ![n] = Joining(h)] /\ servers' = servers
        BY <3>3, <3>4, <4>1 DEF ServerStarted
      <4>3. db'[n] = Joining(h) /\ \A m \in Node \ {n} : db'[m] = db[m]
        BY <4>2 DEF TypeOK, ClusterTypeOK
      <4>4. PICK c \in Cluster : /\ servers[c] = Centrals \ {n}
                                 /\ \A m \in Centrals \ {n} : db[m] = MemberOf(c)
        BY <3>2, <4>1 DEF Formed
      <4>5. \A m \in Node \ Centrals : db'[m] = NoDatabase
        BY <3>1, <3>4, <4>3
      <4>6. servers'[c] = Centrals \ {n} /\ \A m \in Centrals \ {n} : db'[m] = MemberOf(c)
        BY <3>1, <4>2, <4>3, <4>4
      <4>7. \E p \in Centrals \ {n} : db'[n] = Joining(p)
        BY <4>1, <4>3
      <4>8. Joins(n)'
        BY <1>3, <4>5, <4>6, <4>7 DEF Joins
      <4> QED BY <1>0, <1>1, <1>2, <2>2, <4>8 DEF DbKept, Enables, Disables
    <3> QED BY <3>7, <3>8
  <2> QED BY <2>1, <2>2
<1> QED BY <1>0, <1>1, <1>4, <1>6, <1>7, HooksSame DEF SerialKept

\* The wait for the database ends when it is connected, not earlier.
LEMMA ListenSerial ==
  ASSUME NEW r, Serial(r), TypeOK, SerialKept(r), Listen(r)
  PROVE  SerialKept(r)'
<1> DEFINE n == ask[r].node
<1>1. /\ UNCHANGED <<apps, db, servers, services, ask, hpc, daemon, env>>
      /\ pc[r] = "listen" /\ ask[r].svc = "central" /\ ctx[r] /\ ~Fault
      /\ n \in Centrals /\ Centrals \in SUBSET Node
  BY SerialParts DEF Listen, At, clusterVars, envVars, hookVars, bootVars, SerialKept,
     FlowKept, Enables, Centrals
<1>2. \A m \in Centrals : Running(m)
  BY <1>1, CentralsRun DEF Enables
<1>3. Formed(Centrals) \/ Joins(n)
  BY <1>1 DEF SerialKept, DbKept
<1>4. Connected(n) \/ CanJoin(n)
  BY <1>1, <1>2, <1>3, FormedRests, JoinsRests DEF Serial, TypeOK
<1>5. Connected(n) /\ pc'[r] = "reply" /\ ctx' = ctx /\ faults' = faults
  BY <1>1, <1>4, SerialParts DEF Listen
<1>6. Formed(Centrals)
  BY <1>1, <1>2, <1>3, <1>5, JoinsRests DEF Serial, TypeOK
<1>7. FlowKept(r)'
  BY <1>1, <1>5 DEF SerialKept, FlowKept, Enables, Disables
<1>8. AppsKept(r)'
  BY <1>1, <1>5, AppsSame DEF SerialKept, Enables, Disables
<1>9. DbKept(r)'
  BY <1>1, <1>5, <1>6, DbSame DEF DbKept, Enables, Disables
<1> QED BY <1>1, <1>7, <1>8, <1>9, HooksSame DEF SerialKept

\* The row is deleted: the node still runs what belongs to it.
LEMMA DeleteSerial ==
  ASSUME NEW r, Serial(r), TypeOK, SerialKept(r), DeleteRow(r)
  PROVE  SerialKept(r)'
<1>0. PICK n \in Node, svc \in Service : n = ask[r].node /\ svc = ask[r].svc
  BY SerialParts
<1>1. /\ UNCHANGED <<apps, db, servers, ask, ctx, view, hpc, daemon, env, faults>>
      /\ pc[r] = "delete" /\ ask[r].op = "disable" /\ Enabled(n, svc) /\ ctx[r]
      /\ svc = "central" =>
           view[r] = Centrals /\ (Cardinality(view[r]) = 1 => ask[r].allow)
  BY <1>0 DEF DeleteRow, At, clusterVars, hookVars, bootVars, boundVars, SerialKept,
     FlowKept
<1>2. RemoveService(n, svc) /\ pc'[r] = IF svc = "central" THEN "leave" ELSE "stop"
  BY <1>0, <1>1, SerialParts DEF DeleteRow
<1>3. /\ Centrals' = IF svc = "central" THEN Centrals \ {n} ELSE Centrals
      /\ \A m, s : Enabled(m, s)' <=> Enabled(m, s) /\ ~(m = n /\ s = svc)
  BY <1>2, CentralsMove
<1>4. svc = "central" => Centrals' \cup {n} = Centrals
  BY <1>1, <1>3 DEF Centrals
<1>5. FlowKept(r)'
  BY <1>0, <1>1, <1>2, <1>3, <1>4 DEF SerialKept, FlowKept, Enables, Disables
<1>6. AppsKept(r)'
  BY <1>0, <1>1, <1>2, <1>3 DEF SerialKept, AppsKept, Runs, Enables, Disables
<1>7. DbKept(r)'
  <2>1. Formed(Centrals)
    BY <1>1 DEF SerialKept, DbKept, Enables, Disables
  <2>2. CASE svc = "central"
    <3>1. Formed(Centrals \cup {n})'
      BY <1>1, <1>4, <2>1, <2>2 DEF Formed
    <3> QED BY <1>0, <1>1, <1>2, <2>2, <3>1 DEF DbKept, Enables, Disables
  <2>3. CASE svc # "central"
    <3>1. Formed(Centrals)'
      BY <1>1, <1>3, <2>1, <2>3 DEF Formed
    <3> QED BY <1>0, <1>1, <1>2, <2>3, <3>1 DEF DbKept, Enables, Disables
  <2> QED BY <2>2, <2>3
<1> QED BY <1>1, <1>5, <1>6, <1>7, HooksSame DEF SerialKept

\* The database leaves its cluster; the last one does not wait for that.
LEMMA LeaveSerial ==
  ASSUME NEW r, Serial(r), TypeOK, SerialKept(r), Leave(r)
  PROVE  SerialKept(r)'
<1>0. PICK n \in Node : n = ask[r].node
  BY SerialParts
<1>1. /\ UNCHANGED <<apps, servers, services, ask, ctx, view, hpc, daemon, env, faults>>
      /\ pc[r] = "leave" /\ ask[r].op = "disable" /\ ask[r].svc = "central"
      /\ n \notin Centrals /\ view[r] = Centrals \cup {n} /\ LeaveCommand(n)
      /\ Formed(Centrals \cup {n})
  BY <1>0 DEF Leave, At, LeaveCommand, envVars, hookVars, bootVars, boundVars, SerialKept,
     FlowKept, DbKept, Disables, Centrals
<1>2. pc'[r] = (IF LastCentral(r) THEN "rename" ELSE "wait") /\ Centrals' = Centrals
  BY <1>1, SerialParts, ViewSame DEF Leave
<1>3. LastCentral(r) <=> Centrals = {}
  <2>1. Centrals \subseteq Node
    BY DEF Centrals
  <2>2. Centrals = {} => Cardinality(view[r]) = 1
    <3>1. Centrals = {} => view[r] = {n}
      BY <1>1
    <3> QED BY <3>1, FS_Singleton
  <2>3. ASSUME Cardinality(view[r]) = 1 PROVE Centrals = {}
    <3>1. IsFiniteSet(view[r])
      BY <1>1, <2>1, FS_Subset DEF Serial
    <3>2. PICK x : view[r] = {x}
      BY <2>3, <3>1, FS_Singleton
    <3> QED BY <1>1, <3>2
  <2> QED BY <2>2, <2>3 DEF LastCentral
<1>4. PICK c \in Cluster :
        servers[c] = Centrals \cup {n} /\ \A m \in Centrals \cup {n} : db[m] = MemberOf(c)
  BY <1>1 DEF Formed
<1>5. /\ db'[n] = [st |-> "leaving", peer |-> None, cid |-> c, file |-> TRUE]
      /\ \A m \in Node \ {n} : db'[m] = db[m]
  <2>1. db[n] = MemberOf(c) /\ Running(n)
    BY <1>0, <1>1, <1>4, CentralsRun DEF Disables
  <2>2. db' = [db EXCEPT ![n] = [db[n] EXCEPT !.st = "leaving"]]
    BY <1>1, <2>1 DEF LeaveCommand, MemberOf
  <2>3. [db[n] EXCEPT !.st = "leaving"]
        = [st |-> "leaving", peer |-> db[n].peer, cid |-> db[n].cid, file |-> db[n].file]
    BY DatabaseFields DEF TypeOK, ClusterTypeOK
  <2>4. db[n].peer = None /\ db[n].cid = c /\ db[n].file = TRUE
    BY <2>1 DEF MemberOf
  <2> QED BY <2>2, <2>3, <2>4 DEF TypeOK, ClusterTypeOK
<1>6. Departing(n, TRUE)'
  <2>1. \A m \in Node \ (Centrals \cup {n}) : db'[m] = NoDatabase
    BY <1>1, <1>5 DEF Formed
  <2>2. \A m \in Centrals : db'[m] = MemberOf(c)
    BY <1>1, <1>4, <1>5 DEF Centrals
  <2> QED BY <1>1, <1>2, <1>4, <1>5, <2>1, <2>2 DEF Departing
<1>7. FlowKept(r)'
  BY <1>1, <1>2, ViewSame DEF SerialKept, FlowKept, Enables, Disables
<1>8. AppsKept(r)'
  BY <1>1, <1>2, AppsSame DEF SerialKept, Enables, Disables
<1>9. DbKept(r)'
  BY <1>0, <1>1, <1>2, <1>3, <1>6 DEF DbKept, Enables, Disables
<1> QED BY <1>1, <1>7, <1>8, <1>9, HooksSame DEF SerialKept

\* The wait ends when the node has left, not earlier.
LEMMA WaitSerial ==
  ASSUME NEW r, Serial(r), TypeOK, SerialKept(r), WaitRemoved(r)
  PROVE  SerialKept(r)'
<1>0. PICK n \in Node : n = ask[r].node
  BY SerialParts
<1>1. /\ UNCHANGED <<apps, db, servers, services, ask, hpc, daemon, env>>
      /\ pc[r] = "wait" /\ ask[r].svc = "central" /\ ctx[r] /\ ~Fault
      /\ n \notin Centrals /\ Departing(n, TRUE)
  BY <1>0, SerialParts
     DEF WaitRemoved, At, clusterVars, envVars, hookVars, bootVars, SerialKept, FlowKept,
         DbKept, Disables, Centrals
<1>2. db[n].st = "left" \/ CanDepart(n)
  <2>1. Running(n) /\ \A m \in Centrals : Running(m)
    BY <1>0, <1>1, CentralsRun DEF Enables, Disables
  <2> QED BY <1>1, <2>1, DepartingRests DEF Serial, TypeOK
<1>3. db[n].st = "left" /\ pc'[r] = "rename" /\ ctx' = ctx /\ faults' = faults
  BY <1>0, <1>1, <1>2, SerialParts DEF WaitRemoved
<1>4. FlowKept(r)'
  BY <1>1, <1>3, ViewSame DEF SerialKept, FlowKept, Enables, Disables
<1>5. AppsKept(r)'
  BY <1>1, <1>3, AppsSame DEF SerialKept, Enables, Disables
<1>6. DbKept(r)'
  BY <1>0, <1>1, <1>3, DbSame DEF DbKept, Enables, Disables
<1> QED BY <1>1, <1>4, <1>5, <1>6, HooksSame DEF SerialKept

\* The database file is moved away.
LEMMA RenameSerial ==
  ASSUME NEW r, Serial(r), TypeOK, SerialKept(r), Rename(r)
  PROVE  SerialKept(r)'
<1>0. PICK n \in Node : n = ask[r].node
  BY SerialParts
<1>1. /\ UNCHANGED <<apps, servers, services, ask, ctx, hpc, daemon, env, faults>>
      /\ pc[r] = "rename" /\ pc'[r] = "stop" /\ ask[r].svc = "central"
      /\ ask[r].op = "disable" /\ n \notin Centrals /\ Departing(n, TRUE) /\ MoveAside(n)
      /\ Centrals = {} \/ db[n].st = "left"
  BY <1>0, SerialParts
     DEF Rename, At, MoveAside, envVars, hookVars, bootVars, boundVars, SerialKept,
         FlowKept, DbKept, Disables, Centrals
<1>2. Centrals' = Centrals
  BY <1>1, ViewSame
<1>3. /\ db'[n] = [db[n] EXCEPT !.file = FALSE]
      /\ \A m \in Node \ {n} : db'[m] = db[m]
  <2>1. Running(n)
    BY <1>0, <1>1, CentralsRun DEF Disables
  <2> QED BY <1>1, <2>1 DEF MoveAside, TypeOK, ClusterTypeOK
<1>4. PICK c \in Cluster :
        /\ \A m \in Centrals : db[m] = MemberOf(c)
        /\ \/ /\ servers[c] = Centrals \cup {n}
              /\ db[n] = [st |-> "leaving", peer |-> None, cid |-> c, file |-> TRUE]
           \/ /\ servers[c] = Centrals
              /\ db[n] = [st |-> "left", peer |-> None, cid |-> None, file |-> TRUE]
  BY <1>1 DEF Departing
<1>5. \A m \in Node \ (Centrals \cup {n}) : db'[m] = NoDatabase
  BY <1>1, <1>3 DEF Departing
<1>6. \A m \in Centrals : db'[m] = MemberOf(c)
  BY <1>1, <1>3, <1>4 DEF Centrals
<1>7. /\ \/ /\ servers[c] = Centrals \cup {n}
            /\ db'[n] = [st |-> "leaving", peer |-> None, cid |-> c, file |-> FALSE]
         \/ /\ servers[c] = Centrals
            /\ db'[n] = [st |-> "left", peer |-> None, cid |-> None, file |-> FALSE]
      /\ Centrals = {} \/ db'[n].st = "left"
  <2>1. db'[n] = [st |-> db[n].st, peer |-> db[n].peer, cid |-> db[n].cid, file |-> FALSE]
    BY <1>3, DatabaseFields DEF TypeOK, ClusterTypeOK
  <2>2. db'[n].st = db[n].st
    BY <2>1
  <2>3. CASE db[n] = [st |-> "leaving", peer |-> None, cid |-> c, file |-> TRUE]
    <3>1. db[n].st = "leaving" /\ db[n].peer = None /\ db[n].cid = c
      BY <2>3
    <3>2. servers[c] = Centrals \cup {n}
      BY <1>4, <3>1
    <3> QED BY <1>1, <2>1, <2>2, <3>1, <3>2
  <2>4. CASE db[n] = [st |-> "left", peer |-> None, cid |-> None, file |-> TRUE]
    <3>1. db[n].st = "left" /\ db[n].peer = None /\ db[n].cid = None
      BY <2>4
    <3>2. servers[c] = Centrals
      BY <1>4, <3>1
    <3> QED BY <2>1, <2>2, <3>1, <3>2
  <2> QED BY <1>4, <2>3, <2>4
<1>8. Departing(n, FALSE)'
  BY <1>1, <1>2, <1>5, <1>6, <1>7 DEF Departing
<1>9. FlowKept(r)'
  BY <1>1, ViewSame DEF SerialKept, FlowKept, Enables, Disables
<1>10. AppsKept(r)'
  BY <1>1, AppsSame DEF SerialKept, Enables, Disables
<1>11. DbKept(r)'
  BY <1>0, <1>1, <1>2, <1>7, <1>8 DEF DbKept, Enables, Disables
<1> QED BY <1>1, <1>9, <1>10, <1>11, HooksSame DEF SerialKept

\* The snap services are stopped: of the database nothing is left.
LEMMA StopSerial ==
  ASSUME NEW r, Serial(r), TypeOK, SerialKept(r), StopApps(r)
  PROVE  SerialKept(r)'
<1>0. PICK n \in Node, svc \in Service : n = ask[r].node /\ svc = ask[r].svc
  BY SerialParts
<1>1. /\ UNCHANGED <<servers, services, ask, ctx, hpc, daemon, env, faults>>
      /\ pc[r] = "stop" /\ pc'[r] = "reply" /\ ask[r].op = "disable" /\ ~Enabled(n, svc)
      /\ SnapStop(n, AppSet(svc)) /\ svc \in {"central", "chassis", "switch"}
  BY <1>0, SerialParts
     DEF StopApps, At, SnapStop, envVars, hookVars, bootVars, SerialKept, FlowKept, Disables
<1>2. Centrals' = Centrals /\ \A m, s : Enabled(m, s)' <=> Enabled(m, s)
  BY <1>1, ViewSame
<1>3. \A m \in Node : apps'[m] = IF m = n THEN apps[m] \ AppSet(svc) ELSE apps[m]
  BY <1>1 DEF SnapStop, TypeOK, ClusterTypeOK
<1>4. FlowKept(r)'
  BY <1>1, <1>2 DEF SerialKept, FlowKept, Enables, Disables
<1>5. AppsKept(r)'
  <2> SUFFICES ASSUME NEW m \in Node, NEW s \in Service PROVE Runs(m, s)'
    BY <1>1 DEF AppsKept, Enables, Disables
  <2>1. CASE m = n /\ s = svc
    BY <1>1, <1>2, <1>3, <2>1 DEF Runs
  <2>2. CASE ~(m = n /\ s = svc)
    <3>1. Runs(m, s)
      BY <1>0, <2>2 DEF SerialKept, AppsKept
    <3>2. s # svc => AppSet(s) \cap AppSet(svc) = {}
      BY <1>1, AppSets, ServiceAssumption
    <3> QED BY <1>2, <1>3, <2>2, <3>1, <3>2 DEF Runs
  <2> QED BY <2>1, <2>2
<1>6. Formed(Centrals)'
  <2>1. CASE svc # "central"
    <3>1. db' = db
      BY <1>1, <2>1, AppSets DEF SnapStop
    <3>2. Formed(Centrals)
      BY <1>0, <1>1, <2>1 DEF SerialKept, DbKept
    <3> QED BY <1>1, <3>1, <3>2, DbSame
  <2>2. CASE svc = "central"
    <3>1. /\ Departing(n, FALSE)
          /\ Centrals = {} \/ db[n].st = "left"
          /\ n \notin Centrals
      BY <1>0, <1>1, <2>2 DEF SerialKept, DbKept, Disables, Centrals
    <3>2. PICK c \in Cluster :
            /\ \A m \in Centrals : db[m] = MemberOf(c)
            /\ \/ /\ servers[c] = Centrals \cup {n}
                  /\ db[n] = [st |-> "leaving", peer |-> None, cid |-> c, file |-> FALSE]
               \/ /\ servers[c] = Centrals
                  /\ db[n] = [st |-> "left", peer |-> None, cid |-> None, file |-> FALSE]
      BY <3>1 DEF Departing
    <3>3. ~db[n].file /\ (Centrals # {} => servers[c] = Centrals)
      BY <3>1, <3>2
    <3>4. db'[n] = NoDatabase /\ \A m \in Node \ {n} : db'[m] = db[m]
      BY <1>1, <2>2, <3>3, AppSets DEF SnapStop, TypeOK, ClusterTypeOK
    <3>5. \A m \in Node \ Centrals : db'[m] = NoDatabase
      BY <3>1, <3>4 DEF Departing
    <3>6. \A m \in Centrals : db'[m] = MemberOf(c)
      BY <3>1, <3>2, <3>4 DEF Centrals
    <3> QED BY <1>1, <1>2, <3>3, <3>5, <3>6 DEF Formed
  <2> QED BY <2>1, <2>2
<1>7. DbKept(r)'
  BY <1>1, <1>6 DEF DbKept, Enables, Disables
<1> QED BY <1>1, <1>4, <1>5, <1>7, HooksSame DEF SerialKept

\* The reply and the end of the regeneration.
LEMMA ReplySerial ==
  ASSUME NEW r, Serial(r), TypeOK, SerialKept(r), Reply(r) \/ RegenEnd(r)
  PROVE  SerialKept(r)'
<1>1. UNCHANGED <<apps, db, servers, services, ask, ctx, hpc, daemon, env, faults>>
  BY DEF Reply, RegenEnd, clusterVars, envVars, hookVars, bootVars, boundVars
<1>2. pc[r] \in {"reply", "regen"} /\ pc'[r] \in {"regen", "idle"}
  BY SerialParts DEF Reply, RegenEnd, EndUncarried, At
<1>3. HooksKept(r)'
  <2>1. CASE Reply(r)
    BY <1>1, <2>1, HooksSame DEF Reply, At, SerialKept
  <2>2. CASE RegenEnd(r)
    BY <1>1, <2>2 DEF RegenEnd, SerialKept, HooksKept
  <2> QED BY <2>1, <2>2
<1>4. FlowKept(r)'
  BY <1>1, <1>2, ViewSame DEF SerialKept, FlowKept, Enables, Disables
<1>5. AppsKept(r)'
  BY <1>1, <1>2, AppsSame DEF SerialKept, Enables, Disables
<1>6. DbKept(r)'
  BY <1>1, <1>2, DbSame DEF SerialKept, DbKept, Enables, Disables
<1> QED BY <1>3, <1>4, <1>5, <1>6 DEF SerialKept

---------------------------------------------------------------------------
(* The steps of refreshes and of the databases.                            *)

\* A step of the regeneration leaves the request where it is.
LEMMA RegenSerial ==
  ASSUME NEW r, Serial(r), TypeOK, SerialKept(r), pc[r] = "regen",
         UNCHANGED <<db, servers, services, ask, pc, ctx, daemon, faults>>,
         \A m \in Node, s \in Service : Runs(m, s) => Runs(m, s)'
  PROVE  FlowKept(r)' /\ AppsKept(r)' /\ DbKept(r)'
<1>1. FlowKept(r)'
  BY DEF SerialKept, FlowKept, Enables, Disables
<1>2. AppsKept(r)'
  BY DEF SerialKept, AppsKept, Enables, Disables
<1>3. DbKept(r)'
  BY DbSame DEF SerialKept, DbKept, Enables, Disables
<1> QED BY <1>1, <1>2, <1>3

\* A refresh begins: what it finds is true.
LEMMA LockSerial ==
  ASSUME NEW r, Serial(r), TypeOK, SerialKept(r), NEW n \in Node, RefreshLock(r, n)
  PROVE  SerialKept(r)'
<1>1. /\ UNCHANGED <<apps, db, servers, services, ask, pc, ctx, todo, daemon, faults>>
      /\ pc[r] = "regen" /\ n \in todo[r]
  BY DEF RefreshLock, MayRefresh, clusterVars, envVars, reqVars, bootVars, boundVars
<1>2. \A m \in Node :
        /\ hook'[m] = IF m = n THEN r ELSE hook[m]
        /\ hhas'[m] = IF m = n THEN {s \in {"central", "switch"} : HasService(n, s)}
                               ELSE hhas[m]
        /\ m # n => hpc'[m] = hpc[m]
  BY DEF RefreshLock, TypeOK
<1>3. "central" \in hhas'[n] => Enabled(n, "central")
  BY <1>2, ServiceAssumption DEF HasService
<1>4. HooksKept(r)'
  BY <1>1, <1>2, <1>3, ViewSame DEF SerialKept, HooksKept
<1>5. \A m \in Node, s \in Service : Runs(m, s) => Runs(m, s)'
  BY <1>1, ViewSame DEF Runs
<1> QED BY <1>1, <1>4, <1>5, RegenSerial DEF SerialKept

\* A refresh goes on or ends; northd is started where it runs already.
LEMMA RefreshSerial ==
  ASSUME NEW r, Serial(r), TypeOK, SerialKept(r), NEW n \in Node, RefreshStep(n)
  PROVE  SerialKept(r)'
<1>1. UNCHANGED <<db, servers, services, ask, pc, ctx, daemon, faults>> /\ hpc[n] # "free"
  BY DEF RefreshStep, RefreshRead, RefreshEnv, RefreshRemoteRead, RefreshRemoteSet,
         clusterVars, envVars, bootVars, boundVars
<1>2. /\ hook[n] = r /\ pc[r] = "regen" /\ n \in todo[r] /\ r \in Req
      /\ "central" \in hhas[n] => Enabled(n, "central")
  BY <1>1, SerialParts DEF SerialKept, HooksKept
<1>3. \/ Unlock(n)
      \/ UNCHANGED <<hook, hhas, todo>> /\ \A m \in Node \ {n} : hpc'[m] = hpc[m]
  <2>1. CASE RefreshRead(n)
    BY <2>1 DEF RefreshRead, TypeOK
  <2>2. CASE RefreshEnv(n)
    BY <2>2 DEF RefreshEnv, TypeOK
  <2>3. CASE RefreshRemoteRead(n)
    BY <2>3 DEF RefreshRemoteRead, TypeOK
  <2>4. CASE RefreshRemoteSet(n)
    BY <2>4 DEF RefreshRemoteSet
  <2> QED BY <2>1, <2>2, <2>3, <2>4 DEF RefreshStep
<1>4. HooksKept(r)'
  <2>1. CASE Unlock(n)
    <3>1. /\ hpc'[n] = "free" /\ todo'[r] = todo[r] \ {n}
          /\ \A m \in Node \ {n} :
               hpc'[m] = hpc[m] /\ hook'[m] = hook[m] /\ hhas'[m] = hhas[m]
      BY <1>2, <2>1 DEF Unlock, TypeOK
    <3> QED BY <1>1, <3>1, ViewSame DEF SerialKept, HooksKept
  <2>2. CASE /\ UNCHANGED <<hook, hhas, todo>>
             /\ \A m \in Node \ {n} : hpc'[m] = hpc[m]
    BY <1>1, <1>2, <2>2, ViewSame DEF SerialKept, HooksKept
  <2> QED BY <1>3, <2>1, <2>2
<1>5. apps' = apps \/ ("central" \in hhas[n] /\ apps' = [apps EXCEPT ![n] = @ \cup {"northd"}])
  BY DEF RefreshStep, RefreshRead, RefreshEnv, RefreshRemoteRead, RefreshRemoteSet,
         clusterVars
<1>6. ASSUME NEW m \in Node, NEW s \in Service, Runs(m, s) PROVE Runs(m, s)'
  <2>1. CASE apps' = apps
    BY <1>1, <1>6, <2>1, ViewSame DEF Runs
  <2>2. CASE /\ "central" \in hhas[n]
             /\ apps' = [apps EXCEPT ![n] = @ \cup {"northd"}]
    <3>1. apps'[m] = IF m = n THEN apps[m] \cup {"northd"} ELSE apps[m]
      BY <2>2 DEF TypeOK, ClusterTypeOK
    <3>2. s # "central" => "northd" \notin AppSet(s)
      BY AppSets, ServiceAssumption
    <3>3. s = "central" /\ m = n => Enabled(m, s)
      BY <1>2, <2>2
    <3> QED BY <1>1, <1>6, <3>1, <3>2, <3>3, ViewSame DEF Runs
  <2> QED BY <1>5, <2>1, <2>2
<1> QED BY <1>1, <1>2, <1>4, <1>6, RegenSerial DEF SerialKept

\* The node that joins is a member of the cluster of the others.
LEMMA JoinedSerial ==
  ASSUME IsFiniteSet(Node), ClusterTypeOK, NEW n \in Centrals, Joins(n), Joined(n),
         UNCHANGED services
  PROVE  Formed(Centrals)'
<1>1. PICK p \in Centrals \ {n}, c \in Cluster :
        /\ db[n] = Joining(p) /\ servers[c] = Centrals \ {n}
        /\ \A m \in Centrals \ {n} : db[m] = MemberOf(c)
  BY DEF Joins
<1>2. n \in Node /\ Centrals' = Centrals /\ Centrals \subseteq Node
  BY ViewSame DEF Centrals
<1>3. db[n].peer = p /\ db[n].file = TRUE
  BY <1>1 DEF Joining
<1>4. db[p].cid = c
  <2>1. db[p] = MemberOf(c)
    BY <1>1
  <2> QED BY <2>1 DEF MemberOf
<1>5. /\ db' = [db EXCEPT ![n] = [db[n] EXCEPT !.st = "member", !.peer = None, !.cid = c]]
      /\ servers' = [servers EXCEPT ![c] = servers[c] \cup {n}]
  BY <1>3, <1>4 DEF Joined
<1>6. [db[n] EXCEPT !.st = "member", !.peer = None, !.cid = c] = MemberOf(c)
  <2>1. db[n] \in Database
    BY <1>2 DEF ClusterTypeOK
  <2>2. [db[n] EXCEPT !.st = "member", !.peer = None, !.cid = c]
        = [st |-> "member", peer |-> None, cid |-> c, file |-> db[n].file]
    BY <2>1, DatabaseJoined, Zenon
  <2> QED BY <1>3, <2>2, Zenon DEF MemberOf
<1>7. /\ db'[n] = MemberOf(c) /\ \A m \in Node \ {n} : db'[m] = db[m]
      /\ servers'[c] = Centrals
  BY <1>1, <1>2, <1>5, <1>6 DEF ClusterTypeOK
<1>8. \A m \in Node \ Centrals : db'[m] = NoDatabase
  BY <1>7 DEF Joins
<1>9. \A m \in Centrals : db'[m] = MemberOf(c)
  BY <1>1, <1>2, <1>7
<1> QED BY <1>2, <1>7, <1>8, <1>9 DEF Formed

\* The node that leaves is no member any more.
LEMMA DepartedSerial ==
  ASSUME ClusterTypeOK, NEW n \in Node, n \notin Centrals, NEW file, Departing(n, file),
         Departed(n), UNCHANGED services
  PROVE  Departing(n, file)' /\ db'[n].st = "left"
<1>1. PICK c \in Cluster :
        /\ \A m \in Centrals : db[m] = MemberOf(c)
        /\ \/ /\ servers[c] = Centrals \cup {n}
              /\ db[n] = [st |-> "leaving", peer |-> None, cid |-> c, file |-> file]
           \/ /\ servers[c] = Centrals
              /\ db[n] = [st |-> "left", peer |-> None, cid |-> None, file |-> file]
  BY DEF Departing
<1>2. Centrals' = Centrals
  BY ViewSame
<1>3. /\ servers[c] = Centrals \cup {n}
      /\ db[n] = [st |-> "leaving", peer |-> None, cid |-> c, file |-> file]
  BY <1>1 DEF Departed, CanDepart
<1>4. db[n].peer = None /\ db[n].cid = c /\ db[n].file = file
  BY <1>3
<1>5. [db[n] EXCEPT !.st = "left", !.cid = None]
      = [st |-> "left", peer |-> None, cid |-> None, file |-> file]
  <2>1. db[n] \in Database
    BY DEF ClusterTypeOK
  <2>2. [db[n] EXCEPT !.st = "left", !.cid = None]
        = [st |-> "left", peer |-> db[n].peer, cid |-> None, file |-> db[n].file]
    BY <2>1, DatabaseLeft, Zenon
  <2> QED BY <1>4, <2>2, Zenon
<1>6. /\ db'[n] = [st |-> "left", peer |-> None, cid |-> None, file |-> file]
      /\ \A m \in Node \ {n} : db'[m] = db[m]
      /\ servers'[c] = Centrals
  <2>1. /\ db' = [db EXCEPT ![n] = [db[n] EXCEPT !.st = "left", !.cid = None]]
        /\ servers' = [servers EXCEPT ![c] = servers[c] \ {n}]
    BY <1>4 DEF Departed
  <2> QED BY <1>3, <1>5, <2>1 DEF ClusterTypeOK
<1>7. \A m \in Node \ (Centrals \cup {n}) : db'[m] = NoDatabase
  BY <1>6 DEF Departing
<1>8. \A m \in Centrals : db'[m] = MemberOf(c)
  BY <1>1, <1>6 DEF Centrals
<1>9. Departing(n, file)'
  BY <1>2, <1>6, <1>7, <1>8 DEF Departing
<1> QED BY <1>6, <1>9

\* Raft moves the node of the request and nobody else.
LEMMA DatabaseSerial ==
  ASSUME NEW r, Serial(r), TypeOK, SerialKept(r), NEW m \in Node, DatabaseStep(m)
  PROVE  SerialKept(r)'
<1>0. PICK n \in Node, svc \in Service : n = ask[r].node /\ svc = ask[r].svc
  BY SerialParts
<1>1. /\ UNCHANGED <<apps, services, ask, pc, ctx, view, todo, hook, hpc, hhas, daemon,
                     env, faults>>
      /\ (Joined(m) /\ CanJoin(m)) \/ (Departed(m) /\ CanDepart(m))
  BY DEF DatabaseStep, Joined, Departed, envVars, reqVars, hookVars, bootVars, boundVars
<1>2. Centrals' = Centrals /\ Centrals \in SUBSET Node /\ \A k, s : Enabled(k, s)' <=> Enabled(k, s)
  BY <1>1, ViewSame DEF Centrals
<1>3. FlowKept(r)'
  BY <1>0, <1>1, <1>2 DEF SerialKept, FlowKept, Enables, Disables
<1>4. HooksKept(r)'
  BY <1>1, <1>2 DEF SerialKept, HooksKept
<1>5. AppsKept(r)'
  BY <1>1, AppsSame DEF SerialKept
<1>6. \A C \in SUBSET Node : Formed(C) => \E k \in C : ~Running(k)
  BY <1>1, FormedRests DEF Serial, TypeOK
<1>7. /\ \A k \in Centrals : (svc = "central" /\ pc[r] \in Enables => k # n) => Running(k)
      /\ svc = "central" /\ pc[r] \in Disables => Running(n)
  BY <1>0, CentralsRun
<1>8. DbKept(r)'
  <2>1. CASE svc # "central" \/ pc[r] \notin Enables \cup Disables \cup {"listen"}
    <3>1. Formed(Centrals) /\ \A k \in Centrals : Running(k)
      BY <1>0, <1>7, <2>1 DEF SerialKept, DbKept
    <3> QED BY <1>2, <1>6, <3>1
  <2>2. CASE svc = "central" /\ pc[r] \in Enables
    <3>1. Formed(Centrals \ {n}) /\ \A k \in Centrals \ {n} : Running(k)
      BY <1>0, <1>7, <2>2 DEF SerialKept, DbKept
    <3> QED BY <1>2, <1>6, <3>1
  <2>3. CASE svc = "central" /\ pc[r] = "leave"
    <3>1. Formed(Centrals \cup {n}) /\ \A k \in Centrals \cup {n} : Running(k)
      BY <1>0, <1>7, <2>3 DEF SerialKept, DbKept, Enables, Disables
    <3> QED BY <1>2, <1>6, <3>1
  <2>4. CASE svc = "central" /\ pc[r] = "listen"
    <3>1. n \in Centrals /\ \A k \in Centrals : Running(k)
      BY <1>0, <1>7, <2>4 DEF SerialKept, FlowKept, Enables, Centrals
    <3>2. Joins(n)
      BY <1>0, <1>2, <1>6, <2>4, <3>1 DEF SerialKept, DbKept
    <3>3. Joined(m) /\ m = n
      BY <1>1, <3>1, <3>2, JoinsRests DEF Serial, TypeOK
    <3>4. Formed(Centrals)'
      BY <1>1, <3>1, <3>2, <3>3, JoinedSerial DEF Serial, TypeOK
    <3> QED BY <1>1, <2>4, <3>4 DEF DbKept, Enables, Disables
  <2>5. CASE svc = "central" /\ pc[r] \in {"wait", "rename", "stop"}
    <3>1. PICK file \in BOOLEAN :
            Departing(n, file) /\ (file <=> pc[r] \in {"wait", "rename"})
      BY <1>0, <2>5 DEF SerialKept, DbKept
    <3>2. n \notin Centrals /\ Running(n) /\ \A k \in Centrals : Running(k)
      BY <1>0, <1>7, <2>5 DEF SerialKept, FlowKept, Enables, Disables, Centrals
    <3>3. Departed(m) /\ m = n
      BY <1>1, <3>1, <3>2, DepartingRests DEF Serial, TypeOK
    <3>4. Departing(n, file)' /\ db'[n].st = "left"
      BY <1>1, <3>1, <3>2, <3>3, DepartedSerial DEF TypeOK
    <3>5. pc[r] = "wait" => Centrals # {}
      BY DEF SerialKept, DbKept
    <3>6. CASE file = TRUE
      BY <1>0, <1>1, <1>2, <2>5, <3>1, <3>4, <3>5, <3>6 DEF DbKept, Enables, Disables
    <3>7. CASE file = FALSE
      BY <1>0, <1>1, <1>2, <2>5, <3>1, <3>4, <3>7 DEF DbKept, Enables, Disables
    <3> QED BY <3>6, <3>7
  <2> QED BY <2>1, <2>2, <2>3, <2>4, <2>5 DEF Enables, Disables
<1> QED BY <1>3, <1>4, <1>5, <1>8 DEF SerialKept

\* Nothing else happens.
LEMMA NextSerial ==
  ASSUME NEW r, Serial(r), TypeOK, SerialKept(r), [Next]_vars
  PROVE  SerialKept(r)'
<1>1. CASE Issue(r) \/ Cancel(r) \/ Handle(r)
  <2>1. ~Cancel(r) /\ ~Rollback(r)
    BY SerialParts DEF Cancel, Rollback, At, SerialKept, FlowKept
  <2> QED BY <1>1, <2>1, IssueSerial, CheckSerial, CreateSerial, EnvSerial, StartSerial,
             ListenSerial, DeleteSerial, LeaveSerial, WaitSerial, RenameSerial, StopSerial,
             ReplySerial DEF Handle
<1>2. ASSUME NEW n \in Node, RefreshLock(r, n) \/ RefreshLost(r, n) PROVE SerialKept(r)'
  <2>1. ~RefreshLost(r, n)
    BY SerialParts DEF RefreshLost, SerialKept, FlowKept
  <2> QED BY <1>2, <2>1, LockSerial
<1>3. ASSUME NEW n \in Node, RefreshStep(n) \/ Crash(n) \/ BootStep(n) \/ DatabaseStep(n)
      PROVE  SerialKept(r)'
  <2>1. ~Crash(n)
    BY SerialParts DEF Crash
  <2>2. ~BootStep(n)
    BY DEF SerialKept, FlowKept, BootStep, Restart, BootActivate, BootRead, BootWrite,
           BootRemoteRead, BootRemoteSet
  <2> QED BY <1>3, <2>1, <2>2, RefreshSerial, DatabaseSerial
<1>4. CASE UNCHANGED vars
  <2>1. UNCHANGED <<apps, db, servers, services, env, ask, pc, ctx, view, todo, hook, hpc,
                    hhas, daemon, faults>>
    BY <1>4 DEF vars, clusterVars, envVars, reqVars, hookVars, bootVars, boundVars
  <2>2. FlowKept(r)' /\ HooksKept(r)'
    BY <2>1, ViewSame DEF SerialKept, FlowKept, HooksKept
  <2>3. AppsKept(r)'
    BY <2>1, AppsSame DEF SerialKept
  <2>4. DbKept(r)'
    <3>0. PICK n \in Node : n = ask[r].node
      BY SerialParts
    <3>1. /\ Formed(Centrals)' <=> Formed(Centrals)
          /\ Formed(Centrals \ {n})' <=> Formed(Centrals \ {n})
          /\ Formed(Centrals \cup {n})' <=> Formed(Centrals \cup {n})
          /\ Joins(n)' <=> Joins(n)
          /\ \A file : Departing(n, file)' <=> Departing(n, file)
          /\ Centrals' = Centrals
      BY <2>1, DbSame, ViewSame
    <3> QED BY <2>1, <3>0, <3>1 DEF SerialKept, DbKept
  <2> QED BY <2>2, <2>3, <2>4 DEF SerialKept
<1> QED
  <2>1. \A q \in Req : q = r
    BY DEF Serial
  <2> QED BY <1>1, <1>2, <1>3, <1>4, <2>1 DEF Next, Settled

\* A settled cluster is one in which nothing has happened yet.
LEMMA InitSerial ==
  ASSUME NEW r, Serial(r), Init
  PROVE  SerialKept(r)
<1>1. PICK C \in SUBSET Node : InitWith(C)
  BY DEF Init
<1>2. r \in Req /\ "central" \in Service /\ FirstOf(Cluster) \in Cluster
  BY ServiceAssumption, FirstOfType, ClusterAssumption DEF Serial
<1>3. \A n \in Node, s \in Service : Enabled(n, s) <=> (s = "central" => n \in C)
  BY <1>1 DEF InitWith, Enabled
<1>4. Centrals = C
  BY <1>2, <1>3 DEF Centrals
<1>5. FlowKept(r)
  BY <1>2 DEF Init, FlowKept, Enables, Disables
<1>6. HooksKept(r)
  BY DEF Init, HooksKept
<1>7. AppsKept(r)
  <2> SUFFICES ASSUME NEW n \in Node, NEW s \in Service PROVE Runs(n, s)
    BY <1>2 DEF Init, AppsKept, Enables, Disables
  <2>1. apps[n] = {"chassis", "switch"} \cup (IF n \in C THEN AppSet("central") ELSE {})
    BY <1>1 DEF InitWith
  <2> QED BY <1>3, <2>1, AppSets, ServiceAssumption DEF Runs
<1>8. Formed(C)
  BY <1>1, <1>2 DEF InitWith, Formed
<1>9. DbKept(r)
  BY <1>2, <1>4, <1>8 DEF Init, DbKept, Enables, Disables
<1> QED BY <1>5, <1>6, <1>7, <1>9 DEF SerialKept

\* One request after the other, without faults, keeps everything together.
LEMMA SerialAlways ==
  ASSUME NEW u, Serial(u)
  PROVE  Spec => [](TypeOK /\ SerialKept(u))
<1>1. Init => TypeOK /\ SerialKept(u)
  BY InitType, InitSerial
<1>2. (TypeOK /\ SerialKept(u)) /\ [Next]_vars => (TypeOK /\ SerialKept(u))'
  BY NextType, NextSerial
<1> QED BY <1>1, <1>2, PTL DEF Spec

\* Users who wait for each command, and meet no fault, have one database on any
\* number of nodes: the central nodes are the members of one raft cluster.
THEOREM OneDatabaseKept ==
  ASSUME NEW u, Serial(u)
  PROVE  Spec => []OneDatabase
<1>1. TypeOK /\ SerialKept(u) => OneDatabase
  <2> SUFFICES ASSUME SerialKept(u), Quiet PROVE OneDatabase
    BY DEF OneDatabase
  <2>1. Formed(Centrals)
    BY DEF Serial, Quiet, SerialKept, DbKept, Enables, Disables
  <2> QED BY <2>1 DEF OneDatabase, Formed
<1> QED BY <1>1, SerialAlways, PTL

\* On the same conditions every node runs what is enabled on it, and only that.
THEOREM RuntimeKept ==
  ASSUME NEW u, Serial(u)
  PROVE  Spec => []RuntimeMatchesDesired
<1>1. TypeOK /\ SerialKept(u) => RuntimeMatchesDesired
  <2> SUFFICES ASSUME SerialKept(u), Quiet PROVE RuntimeMatchesDesired
    BY DEF RuntimeMatchesDesired
  <2>1. pc[u] = "idle"
    BY DEF Serial, Quiet
  <2>2. \A n \in Node, svc \in Service : Runs(n, svc)
    BY <2>1 DEF SerialKept, AppsKept, Enables, Disables
  <2> QED BY <2>2 DEF RuntimeMatchesDesired, Runs
<1> QED BY <1>1, SerialAlways, PTL

\* A step that keeps the databases that serve as members keeps the data.
LEMMA DataStays ==
  ASSUME HasData, \A n \in Node : Running(n) /\ db[n].st = "member" =>
                                     "ovsdb" \in apps'[n] /\ db'[n] = db[n]
  PROVE  HasData'
<1>1. PICK n \in Node : Running(n) /\ db[n].st = "member" /\ db[n].file
  BY DEF HasData
<1> QED BY <1>1 DEF HasData, Running

LEMMA DepartingLeaves ==
  ASSUME NEW n, NEW file, Departing(n, file)
  PROVE  db[n].st # "member"
<1>1. PICK c \in Cluster :
        \/ db[n] = [st |-> "leaving", peer |-> None, cid |-> c, file |-> file]
        \/ db[n] = [st |-> "left", peer |-> None, cid |-> None, file |-> file]
  BY DEF Departing
<1>2. CASE db[n] = [st |-> "leaving", peer |-> None, cid |-> c, file |-> file]
  BY <1>2
<1>3. CASE db[n] = [st |-> "left", peer |-> None, cid |-> None, file |-> file]
  BY <1>3
<1> QED BY <1>1, <1>2, <1>3

\* Only the disable of central takes a copy of the data away.
LEMMA DataSteps ==
  ASSUME NEW r, Serial(r), TypeOK, SerialKept(r), [Next]_vars, HasData, ~HasData'
  PROVE  Leave(r)
<1>0. PICK n \in Node, svc \in Service : n = ask[r].node /\ svc = ask[r].svc
  BY SerialParts
<1> DEFINE Keeps == \A m \in Node : Running(m) /\ db[m].st = "member" =>
                                       "ovsdb" \in apps'[m] /\ db'[m] = db[m]
<1>1. ~Keeps
  BY DataStays
<1>2. ~UNCHANGED clusterVars
  BY <1>1 DEF clusterVars, Running
<1>3. CASE StartApps(r)
  <2>1. PICK started, h : SnapStart(n, started, h)
    BY <1>0, <1>3 DEF StartApps
  <2>2. \A m \in Node : apps[m] \subseteq apps'[m]
    BY <2>1 DEF SnapStart, TypeOK, ClusterTypeOK
  <2>3. \A m \in Node : db[m].st = "member" => db'[m] = db[m]
    BY <2>1 DEF SnapStart, ServerStarted, TypeOK, ClusterTypeOK
  <2> QED BY <1>1, <2>2, <2>3 DEF Running
<1>4. CASE Rename(r)
  <2>1. MoveAside(n) /\ Departing(n, TRUE)
    BY <1>0, <1>4 DEF Rename, At, SerialKept, DbKept
  <2>2. db[n].st # "member"
    BY <2>1, DepartingLeaves
  <2>3. apps' = apps /\ \A m \in Node \ {n} : db'[m] = db[m]
    BY <2>1 DEF MoveAside, TypeOK, ClusterTypeOK
  <2> QED BY <1>1, <2>2, <2>3 DEF Running
<1>5. CASE StopApps(r)
  <2>1. SnapStop(n, AppSet(svc)) /\ (svc = "central" => Departing(n, FALSE))
    BY <1>0, <1>2, <1>5 DEF StopApps, At, SerialKept, DbKept
  <2>2. \A m \in Node \ {n} : apps'[m] = apps[m] /\ db'[m] = db[m]
    BY <2>1 DEF SnapStop, TypeOK, ClusterTypeOK
  <2>3. CASE svc = "central"
    <3>1. db[n].st # "member"
      BY <2>1, <2>3, DepartingLeaves
    <3> QED BY <1>1, <2>2, <3>1 DEF Running
  <2>4. CASE svc # "central"
    <3>1. "ovsdb" \notin AppSet(svc)
      BY <2>4, AppSets, ServiceAssumption
    <3>2. db' = db /\ apps'[n] = apps[n] \ AppSet(svc)
      BY <2>1, <3>1 DEF SnapStop, TypeOK, ClusterTypeOK
    <3> QED BY <1>1, <2>2, <3>1, <3>2 DEF Running
  <2> QED BY <2>3, <2>4
<1>6. ASSUME NEW m \in Node, RefreshStep(m) PROVE FALSE
  <2>1. db' = db /\ (apps' = apps \/ apps' = [apps EXCEPT ![m] = @ \cup {"northd"}])
    BY <1>6 DEF RefreshStep, RefreshRead, RefreshEnv, RefreshRemoteRead,
                RefreshRemoteSet, clusterVars
  <2>2. \A k \in Node : apps[k] \subseteq apps'[k]
    BY <2>1 DEF TypeOK, ClusterTypeOK
  <2> QED BY <1>1, <2>1, <2>2 DEF Running
<1>7. ASSUME NEW m \in Node, DatabaseStep(m) PROVE FALSE
  <2>1. apps' = apps /\ db[m].st # "member"
    BY <1>7 DEF DatabaseStep, Joined, Departed, CanJoin, CanDepart
  <2>2. \A k \in Node \ {m} : db'[k] = db[k]
    BY <1>7 DEF DatabaseStep, Joined, Departed, TypeOK, ClusterTypeOK
  <2> QED BY <1>1, <2>1, <2>2 DEF Running
<1>8. ASSUME NEW m \in Node, Crash(m) \/ BootStep(m) PROVE FALSE
  <2>1. ~Crash(m)
    BY SerialParts DEF Crash
  <2> QED BY <1>8, <2>1 DEF SerialKept, FlowKept, BootStep, Restart, BootActivate,
             BootRead, BootWrite, BootRemoteRead, BootRemoteSet
<1>9. CASE Handle(r)
  <2>1. StartApps(r) \/ Leave(r) \/ Rename(r) \/ StopApps(r)
    BY <1>2, <1>9 DEF Handle, Check, LastCheck, CreateRow, ReadEnv, WriteEnv, Listen, Rollback,
       DeleteRow, WaitRemoved, Reply, RegenEnd
  <2> QED BY <1>3, <1>4, <1>5, <2>1
<1>10. ~Issue(r) /\ ~Cancel(r) /\ \A m \in Node : ~RefreshLock(r, m) /\ ~RefreshLost(r, m)
  BY <1>2 DEF Issue, Cancel, RefreshLock, RefreshLost
<1>11. ~UNCHANGED vars
  BY <1>2 DEF vars
<1> QED
  <2>1. \A q \in Req : q = r
    BY DEF Serial
  <2> QED BY <1>6, <1>7, <1>8, <1>9, <1>10, <1>11, <2>1 DEF Next, Settled

\* When the last copy leaves, the check of the number of central nodes still holds.
LEMMA LeaveConfirmed ==
  ASSUME NEW r, Serial(r), TypeOK, SerialKept(r), Leave(r), ~HasData'
  PROVE  pc[r] \in Applied /\ ask[r].op = "disable" /\ ask[r].allow
<1>0. PICK n \in Node : n = ask[r].node
  BY SerialParts
<1>1. /\ pc[r] = "leave" /\ ask[r].op = "disable" /\ ask[r].svc = "central"
      /\ LeaveCommand(n) /\ n \notin Centrals /\ Formed(Centrals \cup {n})
      /\ view[r] = Centrals \cup {n} /\ (Cardinality(view[r]) = 1 => ask[r].allow)
  BY <1>0 DEF Leave, At, SerialKept, FlowKept, DbKept, Disables, Centrals
<1>2. CASE Centrals = {}
  <2>1. view[r] = {n}
    BY <1>1, <1>2
  <2>2. Cardinality(view[r]) = 1
    BY <2>1, FS_Singleton
  <2> QED BY <1>1, <2>2 DEF Applied
<1>3. CASE Centrals # {}
  <2>1. PICK m \in Centrals : m # n
    BY <1>1, <1>3
  <2>2. m \in Node /\ Running(m)
    BY <1>0, <1>1, <2>1, CentralsRun DEF Centrals
  <2>3. PICK c \in Cluster : \A k \in Centrals \cup {n} : db[k] = MemberOf(c)
    BY <1>1 DEF Formed
  <2>4. db[m] = MemberOf(c)
    BY <2>1, <2>3
  <2>5. db'[m] = db[m] /\ apps' = apps
    BY <1>1, <2>1, <2>2 DEF LeaveCommand, TypeOK, ClusterTypeOK
  <2>6. db[m].st = "member" /\ db[m].file = TRUE
    BY <2>4 DEF MemberOf
  <2>7. HasData'
    BY <2>2, <2>5, <2>6 DEF HasData, Running
  <2> QED BY <2>7
<1> QED BY <1>2, <1>3

\* On the same conditions the last copy of the data goes away in a disable that
\* was confirmed: no other step takes one.
THEOREM LastCopyConfirmed ==
  ASSUME NEW u, Serial(u)
  PROVE  Spec => DataKept
<1>1. TypeOK /\ SerialKept(u) /\ [Next]_vars =>
        [(HasData /\ ~HasData') =>
           \E r \in Req : pc[r] \in Applied /\ ask[r].op = "disable" /\ ask[r].allow]_vars
  <2> SUFFICES ASSUME TypeOK, SerialKept(u), [Next]_vars, HasData, ~HasData'
               PROVE  \E r \in Req : pc[r] \in Applied /\ ask[r].op = "disable" /\ ask[r].allow
    OBVIOUS
  <2>1. Leave(u)
    BY DataSteps
  <2> QED BY <2>1, LeaveConfirmed, SerialParts
<1> QED BY <1>1, SerialAlways, PTL DEF Spec, DataKept
===========================================================================
