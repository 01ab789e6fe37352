----------------------------- MODULE Membership ----------------------------
(***************************************************************************)
(* Nodes that bootstrap the cluster, join it and leave it, and the option  *)
(* ovn.central-ips, which replaces the addresses of the cluster's own      *)
(* central nodes by those of an external cluster.                          *)
(*                                                                         *)
(* Bootstrap and Join enable services one after the other under muHook;    *)
(* nothing they did is undone when a step fails.  Leave disables them      *)
(* without the lock.  The other members learn of a new node, of a removed  *)
(* node and of the option by a refresh, which waits for their muHook.      *)
(*                                                                         *)
(* Member ids are given in the order in which nodes join.  crowded is one  *)
(* more history variable: nodes whose join overlapped a change of what it  *)
(* had read.                                                               *)
(***************************************************************************)
EXTENDS Environment

CONSTANTS
  External,    \* the address of an external central node
  Choice,      \* what users ask for on init: sets of services, or AutoChoice,
  AutoChoice,  \* ... which leaves it to MicroOVN
  Enough,      \* central nodes after which joining nodes do without: 3
  FaultKind,   \* faults of this instance: "error", "lost"
  MaxConfig,   \* bound on changes of the option
  MaxLeaves,   \* bound on removals
  MaxFaults    \* bound on faults

ASSUME ExternalAssumption == External \in Nat \ (Node \cup {None})
ASSUME ChoiceAssumption == Choice \subseteq {AutoChoice} \cup SUBSET Service
ASSUME MembershipBounds ==
  /\ Enough \in Nat /\ MaxConfig \in Nat /\ MaxLeaves \in Nat /\ MaxFaults \in Nat

VARIABLES
  members,  \* rows of core_cluster_members
  option,   \* ovn.central-ips: a set of addresses, {} when it is not set
  life,     \* life[n]: the hook that runs on n, and what it is about
  pending,  \* nodes that were asked to refresh
  rf,       \* rf[n]: the refresh that runs on n
  cfg,      \* the request that changes the option: "idle" or "fan"
  crowded,
  changes, leaves, faults

Address == Node \cup {External}

\* Steps that hold muHook.
JoinStep ==
  {"ca", "count", "option", "gen", "read", "write", "client", "service", "start",
   "listen", "relisten", "rollback", "remoteOpt", "remoteRead", "remoteSet"}
LeaveStep == {"leave", "last", "delete", "quit", "wait", "rename", "halt"}

HookStep == {"out", "in", "failed", "gone"} \cup JoinStep \cup LeaveStep

Wanted == Choice \cup {AutoChoice}

Life ==
  [at   : HookStep,
   boot : BOOLEAN,
   ask  : Wanted,
   seen : SUBSET Node,       \* central nodes that Join counted
   plan : Seq(Service),      \* services to enable or to disable
   next : {"client", "start", "service", "relisten"},
   view : SUBSET Address]

RefreshStep == {"none", "gen", "read", "write", "remoteOpt", "remoteRead", "remoteSet"}

NoRefresh == [at |-> "none", has |-> {}, view |-> {}]

vars == <<clusterVars, envVars, ghostVars, members, option, life, pending, rf, cfg,
          crowded, changes, leaves, faults>>
bounds == <<changes, leaves, faults>>

TypeOK ==
  /\ apps \in [Node -> SUBSET App]
  /\ db \in [Node -> DatabaseWith(Address)]
  /\ servers \in [Cluster -> SUBSET Node]
  /\ services \subseteq members \X Service
  /\ env \in [Node -> SUBSET Address] /\ remote \in [Node -> SUBSET Address]
  /\ lapsed \subseteq Node /\ overwritten = {} /\ missed \subseteq Node
  /\ members \subseteq Node /\ option \in {{}, {External}}
  /\ life \in [Node -> Life] /\ pending \subseteq Node
  /\ rf \in [Node -> [at : RefreshStep, has : SUBSET Service, view : SUBSET Address]]
  /\ cfg \in {"idle", "fan"} /\ crowded \subseteq Node
  /\ changes \in 0..MaxConfig /\ leaves \in 0..MaxLeaves /\ faults \in 0..MaxFaults

Init ==
  /\ apps = [n \in Node |-> {}] /\ db = [n \in Node |-> NoDatabase]
  /\ servers = [c \in Cluster |-> {}]
  /\ services = {} /\ env = [n \in Node |-> {}] /\ remote = [n \in Node |-> {}]
  /\ lapsed = {} /\ overwritten = {} /\ missed = {}
  /\ members = {} /\ option = {}
  /\ life = [n \in Node |-> [at |-> "out", boot |-> FALSE, ask |-> AutoChoice, seen |-> {},
                             plan |-> <<>>, next |-> "client", view |-> {}]]
  /\ pending = {} /\ rf = [n \in Node |-> NoRefresh] /\ cfg = "idle"
  /\ crowded = {} /\ changes = 0 /\ leaves = 0 /\ faults = 0

\* CentralIps: the option, and the cluster's own central nodes without it.
CentralIps_Own == Centrals

CentralIps == IF option # {} THEN option ELSE Centrals

At(n, step) == life[n].at = step
In(n) == At(n, "in")
Joins(n) == life[n].at \in JoinStep
Leaves(n) == life[n].at \in LeaveStep
Goto(n, step) == life' = [life EXCEPT ![n].at = step]
Fault(kind) == kind \in FaultKind /\ faults < MaxFaults /\ faults' = faults + 1

\* GenerateEnvironment, then step next.
Generate(n, next) == life' = [life EXCEPT ![n].at = "gen", ![n].next = next]

\* On to the next service of the plan.
NextService(n, step) ==
  life' = [life EXCEPT ![n].at = step, ![n].plan = Tail(@)]

Svc(n) == Head(life[n].plan)

\* Members T are asked to refresh.  One whose Join runs may not be reached.
Notify(T) ==
  \E got \in SUBSET T :
    /\ \/ {n \in T : ~Joins(n)} \subseteq got /\ UNCHANGED faults
       \/ Fault("lost")
    /\ pending' = pending \cup got
    /\ lapsed' = lapsed \cup (T \ got)

\* The hook returns an error.  Other members may have seen the node as central.
Fail(n) ==
  /\ Goto(n, "failed")
  /\ lapsed' = IF Enabled(n, "central") THEN Node ELSE lapsed

---------------------------------------------------------------------------
(* Bootstrap and Join up to the services.                                  *)

Bootstrap(n) ==
  /\ members = {} /\ n = FirstOf(Node) /\ At(n, "out")
  /\ members' = {n}
  /\ \E a \in Choice :
       life' = [life EXCEPT ![n].at = "ca", ![n].boot = TRUE, ![n].ask = a]
  /\ UNCHANGED <<clusterVars, envVars, ghostVars, option, pending, rf, cfg, crowded,
                 bounds>>

\* A failing command of a hook: certificates, DumpCA, BGP, DPU.
ErrorAt(n) ==
  /\ life[n].at \in {"ca", "client"} \/ (At(n, "service") /\ life[n].plan = <<>>)
  /\ Fault("error")
  /\ Fail(n)
  /\ UNCHANGED <<clusterVars, envVars, overwritten, missed, members, option, pending,
                 rf, cfg, crowded, changes, leaves>>

\* Every service that users or MicroOVN chose, in the order of the code.
Requested(svc, S) == IF svc \in S \cap Service THEN <<svc>> ELSE <<>>

Plan(S) == Requested("switch", S) \o Requested("central", S) \o Requested("chassis", S)

\* What a user asked for, or what MicroOVN finds fit.
Wished(n, automatic) == IF life[n].ask = AutoChoice THEN automatic ELSE life[n].ask

StoreCa(n) ==
  /\ At(n, "ca")
  /\ life' = [life EXCEPT ![n].at = "gen", ![n].next = "client",
                          ![n].plan = Plan(Wished(n, Service))]
  /\ UNCHANGED <<clusterVars, envVars, ghostVars, members, option, pending, rf, cfg,
                 crowded, bounds>>

\* microcluster adds the row of the new member and calls Join.
Join(n) ==
  /\ At(n, "out") /\ \E m \in members : In(m)
  /\ \A m \in Node : m < n => ~At(m, "out")
  /\ members' = members \cup {n}
  /\ \E a \in Choice : life' = [life EXCEPT ![n].at = "count", ![n].ask = a]
  /\ UNCHANGED <<clusterVars, envVars, ghostVars, option, pending, rf, cfg, crowded,
                 bounds>>

Count(n) ==
  /\ At(n, "count")
  /\ life' = [life EXCEPT ![n].at = "option", ![n].seen = Centrals]
  /\ UNCHANGED <<clusterVars, envVars, ghostVars, members, option, pending, rf, cfg,
                 crowded, bounds>>

FewCentrals_OneMore(n) == Cardinality(life[n].seen) <= Enough

FewCentrals(n) == Cardinality(life[n].seen) < Enough

\* IsExternalCentralConfigured.
Automatic(n) ==
  IF option = {} /\ FewCentrals(n) THEN Service ELSE Service \ {"central"}

Decide(n) ==
  /\ At(n, "option")
  /\ life' = [life EXCEPT ![n].at = "gen", ![n].next = "client",
                          ![n].plan = Plan(Wished(n, Automatic(n)))]
  /\ UNCHANGED <<clusterVars, envVars, ghostVars, members, option, pending, rf, cfg,
                 crowded, bounds>>

Client(n) ==
  /\ At(n, "client")
  /\ Goto(n, "service")
  /\ UNCHANGED <<clusterVars, envVars, ghostVars, members, option, pending, rf, cfg,
                 crowded, bounds>>

---------------------------------------------------------------------------
(* GenerateEnvironment in a hook: the option and the services are read in  *)
(* two transactions, then the file is written.                             *)

GenOption(n) ==
  /\ At(n, "gen")
  /\ life' = [life EXCEPT ![n].at = IF option # {} THEN "write" ELSE "read",
                          ![n].view = option]
  /\ lapsed' = lapsed \ {n}
  /\ UNCHANGED <<clusterVars, envVars, overwritten, missed, members, option, pending, rf,
                 cfg, crowded, bounds>>

GenRead(n) ==
  /\ At(n, "read")
  /\ life' = [life EXCEPT ![n].at = "write", ![n].view = Centrals]
  /\ UNCHANGED <<clusterVars, envVars, ghostVars, members, option, pending, rf, cfg,
                 crowded, bounds>>

GenWrite(n) ==
  /\ At(n, "write")
  /\ env' = [env EXCEPT ![n] = life[n].view]
  /\ life' = [life EXCEPT ![n].at = life[n].next, ![n].view = {}]
  /\ UNCHANGED <<clusterVars, services, remote, ghostVars, members, option, pending, rf,
                 cfg, crowded, bounds>>

---------------------------------------------------------------------------
(* EnableService in a hook.                                                *)

EnableRow(n) ==
  /\ At(n, "service") /\ life[n].plan # <<>>
  /\ AddService(n, Svc(n))
  /\ crowded' = IF Svc(n) = "central"
                THEN crowded \cup {m \in Node \ {n} : Joins(m)} ELSE crowded
  /\ Generate(n, "start")
  /\ UNCHANGED <<clusterVars, env, remote, ghostVars, members, option, pending, rf, cfg,
                 bounds>>

StartApps(n) ==
  LET svc == Svc(n) IN
  /\ At(n, "start")
  /\ \/ /\ SnapStart(n, AppSet(svc), InitialHost(n, env[n]))
        /\ CASE svc = "central" -> Goto(n, "listen")
             [] svc = "chassis" -> Goto(n, "remoteOpt")
             [] OTHER           -> NextService(n, "service")
        /\ UNCHANGED faults
     \/ /\ Fault("error")
        /\ Goto(n, "rollback")
        /\ UNCHANGED clusterVars
  /\ UNCHANGED <<envVars, ghostVars, members, option, pending, rf, cfg, crowded, changes,
                 leaves>>

\* UpdateOvnListenConfig waits for the local database.
Listen(n) ==
  /\ At(n, "listen")
  /\ \/ /\ Connected(n)
        /\ life' = [life EXCEPT ![n].at = "gen", ![n].plan = Tail(@),
                                ![n].next = IF life[n].boot THEN "relisten" ELSE "service"]
     \/ /\ ~(Connected(n) \/ CanJoin(n))
        /\ Goto(n, "rollback")
  /\ UNCHANGED <<clusterVars, envVars, ghostVars, members, option, pending, rf, cfg,
                 crowded, bounds>>

\* The row is deleted and the hook returns; snap services that started stay.
Rollback(n) ==
  /\ At(n, "rollback")
  /\ RemoveService(n, Svc(n))
  /\ Goto(n, "failed")
  /\ lapsed' = IF "central" \in {Svc(n)} \cup {svc \in Service : Enabled(n, svc)}
               THEN Node ELSE lapsed
  /\ UNCHANGED <<clusterVars, env, remote, overwritten, missed, members, option, pending,
                 rf, cfg, crowded, bounds>>

\* Bootstrap configures the databases once more.
Relisten(n) ==
  /\ At(n, "relisten")
  /\ \/ Connected(n) /\ Goto(n, "service") /\ UNCHANGED lapsed
     \/ ~Connected(n) /\ Fail(n)
  /\ UNCHANGED <<clusterVars, envVars, overwritten, missed, members, option, pending, rf,
                 cfg, crowded, bounds>>

\* After the chassis: ovs-vsctl, which needs the switch, and ovn-remote.
RemoteOption(n) ==
  /\ At(n, "remoteOpt")
  /\ IF "switch" \in apps[n]
     THEN /\ life' = [life EXCEPT ![n].view = option,
                        ![n].at = IF option # {} THEN "remoteSet" ELSE "remoteRead"]
          /\ UNCHANGED lapsed
     ELSE Fail(n)
  /\ UNCHANGED <<clusterVars, envVars, overwritten, missed, members, option, pending, rf,
                 cfg, crowded, bounds>>

RemoteRead(n) ==
  /\ At(n, "remoteRead")
  /\ life' = [life EXCEPT ![n].at = "remoteSet", ![n].view = Centrals]
  /\ UNCHANGED <<clusterVars, envVars, ghostVars, members, option, pending, rf, cfg,
                 crowded, bounds>>

RemoteSet(n) ==
  /\ At(n, "remoteSet")
  /\ SetRemote(n, life[n].view)
  /\ life' = [life EXCEPT ![n].at = "service", ![n].plan = Tail(@), ![n].view = {}]
  /\ missed' = missed \ {n}
  /\ UNCHANGED <<clusterVars, services, env, lapsed, overwritten, members, option,
                 pending, rf, cfg, crowded, bounds>>

\* The hook is done; after a join microcluster calls OnNewMember on the others.
Told_Running(n) == {m \in members : m < n}

Told(n) == members \ {n}

Finish(n) ==
  /\ At(n, "service") /\ life[n].plan = <<>>
  /\ Goto(n, "in")
  /\ IF life[n].boot THEN UNCHANGED <<pending, lapsed, faults>> ELSE Notify(Told(n))
  /\ missed' = IF Enabled(n, "chassis") THEN missed ELSE missed \cup {n}
  /\ UNCHANGED <<clusterVars, envVars, overwritten, members, option, rf, cfg, crowded,
                 changes, leaves>>

---------------------------------------------------------------------------
(* Leave, without muHook.  Errors are logged and the next service follows. *)

\* The rows of the member are in the table until it is deleted, as the PreRemove
\* hook and the cascade of the table have it.  The comment on Leave says that
\* they are gone by then, in which case DisableService would stop nothing.

\* types.ServiceNames.
DisableAll ==
  Requested("chassis", Service) \o Requested("central", Service)
    \o Requested("switch", Service)

Remove(n) ==
  /\ In(n) /\ leaves < MaxLeaves /\ \E m \in members \ {n} : In(m)
  /\ leaves' = leaves + 1
  /\ life' = [life EXCEPT ![n].at = "leave", ![n].plan = DisableAll]
  /\ UNCHANGED <<clusterVars, envVars, ghostVars, members, option, pending, rf, cfg,
                 crowded, changes, faults>>

DisableCheck(n) ==
  /\ At(n, "leave") /\ life[n].plan # <<>>
  /\ IF ~Enabled(n, Svc(n)) THEN NextService(n, "leave")
     ELSE Goto(n, IF Svc(n) = "central" THEN "last" ELSE "delete")
  /\ UNCHANGED <<clusterVars, envVars, ghostVars, members, option, pending, rf, cfg,
                 crowded, bounds>>

\* Without a confirmation the last central service is not disabled.
LastCentral(n) == Centrals = {n}

DisableLast_GivesUp(n) ==
  /\ At(n, "last")
  /\ life' = [life EXCEPT ![n].at = IF LastCentral(n) THEN "leave" ELSE "delete",
                          ![n].plan = IF LastCentral(n) THEN <<>> ELSE @]
  /\ UNCHANGED <<clusterVars, envVars, ghostVars, members, option, pending, rf, cfg,
                 crowded, bounds>>

DisableLast(n) ==
  /\ At(n, "last")
  /\ IF LastCentral(n) THEN NextService(n, "leave") ELSE Goto(n, "delete")
  /\ UNCHANGED <<clusterVars, envVars, ghostVars, members, option, pending, rf, cfg,
                 crowded, bounds>>

DisableRow(n) ==
  /\ At(n, "delete")
  /\ RemoveService(n, Svc(n))
  /\ Goto(n, IF Svc(n) = "central" THEN "quit" ELSE "halt")
  /\ UNCHANGED <<clusterVars, env, remote, ghostVars, members, option, pending, rf, cfg,
                 crowded, bounds>>

Quit(n) ==
  /\ At(n, "quit")
  /\ LeaveCommand(n)
  /\ Goto(n, "wait")
  /\ UNCHANGED <<envVars, ghostVars, members, option, pending, rf, cfg, crowded, bounds>>

WaitRemoved(n) ==
  /\ At(n, "wait")
  /\ db[n].st = "left" \/ ~CanDepart(n)
  /\ Goto(n, "rename")
  /\ UNCHANGED <<clusterVars, envVars, ghostVars, members, option, pending, rf, cfg,
                 crowded, bounds>>

Rename(n) ==
  /\ At(n, "rename")
  /\ MoveAside(n)
  /\ Goto(n, "halt")
  /\ UNCHANGED <<envVars, ghostVars, members, option, pending, rf, cfg, crowded, bounds>>

Halt(n) ==
  /\ At(n, "halt")
  /\ \/ SnapStop(n, AppSet(Svc(n))) /\ UNCHANGED faults
     \/ Fault("error") /\ UNCHANGED clusterVars
  /\ NextService(n, "leave")
  /\ UNCHANGED <<envVars, ghostVars, members, option, pending, rf, cfg, crowded, changes,
                 leaves>>

\* Rows of the table that go with a row of core_cluster_members.
RowsOf_None(n) == {}

RowsOf(n) == {n} \X Service

\* CleanupPaths; then microcluster deletes the member, and with it its rows of
\* the table, and calls PostRemove on the others.
Removed(n) ==
  /\ At(n, "leave") /\ life[n].plan = <<>>
  /\ MoveAside(n)
  /\ members' = members \ {n}
  /\ services' = services \ RowsOf(n)
  /\ Goto(n, "gone")
  /\ rf' = [rf EXCEPT ![n] = NoRefresh]
  /\ \E got \in SUBSET (members \ {n}) :
       /\ \/ {m \in members \ {n} : ~Joins(m)} \subseteq got /\ UNCHANGED faults
          \/ Fault("lost")
       /\ pending' = (pending \ {n}) \cup got
       /\ lapsed' = lapsed \cup (members \ ({n} \cup got))
  /\ UNCHANGED <<env, remote, overwritten, missed, option, cfg, crowded, changes, leaves>>

---------------------------------------------------------------------------
(* A refresh.                                                              *)

Refreshes(n) == n \in pending /\ rf[n].at = "none" /\ ~Joins(n)

RefreshLock(n) ==
  /\ Refreshes(n)
  /\ pending' = pending \ {n}
  /\ rf' = [rf EXCEPT ![n] = IF In(n) \/ Leaves(n)
                             THEN [at |-> "gen", has |-> EnabledOn(n), view |-> {}]
                             ELSE NoRefresh]
  /\ UNCHANGED <<clusterVars, envVars, ghostVars, members, option, life, cfg, crowded,
                 bounds>>

RefreshOption(n) ==
  /\ rf[n].at = "gen"
  /\ rf' = [rf EXCEPT ![n].at = IF option # {} THEN "write" ELSE "read",
                      ![n].view = option]
  /\ lapsed' = lapsed \ {n}
  /\ UNCHANGED <<clusterVars, envVars, overwritten, missed, members, option, life,
                 pending, cfg, crowded, bounds>>

RefreshRead(n) ==
  /\ rf[n].at = "read"
  /\ rf' = [rf EXCEPT ![n].at = "write", ![n].view = Centrals]
  /\ UNCHANGED <<clusterVars, envVars, ghostVars, members, option, life, pending, cfg,
                 crowded, bounds>>

\* The file is written and ovn-northd restarted, which starts it.
RefreshWrite(n) ==
  /\ rf[n].at = "write"
  /\ env' = [env EXCEPT ![n] = rf[n].view]
  /\ apps' = [apps EXCEPT ![n] = IF "central" \in rf[n].has THEN @ \cup {"northd"} ELSE @]
  /\ IF "switch" \in rf[n].has
     THEN rf' = [rf EXCEPT ![n].at = "remoteOpt"] /\ UNCHANGED missed
     ELSE rf' = [rf EXCEPT ![n] = NoRefresh] /\ missed' = missed \cup {n}
  /\ UNCHANGED <<db, servers, services, remote, lapsed, overwritten, members, option, life,
                 pending, cfg, crowded, bounds>>

RefreshRemote(n) ==
  /\ \/ /\ rf[n].at = "remoteOpt"
        /\ rf' = [rf EXCEPT ![n].view = option,
                    ![n].at = IF option # {} THEN "remoteSet" ELSE "remoteRead"]
     \/ /\ rf[n].at = "remoteRead"
        /\ rf' = [rf EXCEPT ![n].view = Centrals, ![n].at = "remoteSet"]
  /\ UNCHANGED <<clusterVars, envVars, ghostVars, members, option, life, pending, cfg,
                 crowded, bounds>>

RefreshSet(n) ==
  LET ok == "switch" \in apps[n] IN
  /\ rf[n].at = "remoteSet"
  /\ rf' = [rf EXCEPT ![n] = NoRefresh]
  /\ IF ok THEN SetRemote(n, rf[n].view) ELSE UNCHANGED remote
  /\ missed' = IF ok THEN missed \ {n} ELSE missed \cup {n}
  /\ UNCHANGED <<clusterVars, services, env, lapsed, overwritten, members, option, life,
                 pending, cfg, crowded, bounds>>

---------------------------------------------------------------------------
(* `microovn config set` and `delete`: the row first, then the refreshes,   *)
(* also when the row is what it was before.                                *)

ConfigItemExists == option # {}
CreateConfigItem(v) == ~ConfigItemExists /\ option' = v
UpdateConfigItem(v) == ConfigItemExists /\ option' = v
DeleteConfigItem == ConfigItemExists /\ option' = {}

\* A request that reaches the table; nobody else asks before it is answered.
Configures ==
  /\ cfg = "idle" /\ changes < MaxConfig /\ \E n \in members : In(n)
  /\ changes' = changes + 1
  /\ cfg' = "fan"
  /\ crowded' = crowded \cup {n \in Node : Joins(n)}
  /\ UNCHANGED <<clusterVars, envVars, ghostVars, members, life, pending, rf, leaves,
                 faults>>

SetConfig ==
  /\ Configures
  /\ UpdateConfigItem({External}) \/ CreateConfigItem({External})

DeleteConfig ==
  /\ Configures
  /\ DeleteConfigItem \/ (~ConfigItemExists /\ UNCHANGED option)

\* ovnCentralIpsUpdated.  Without a leader nobody is asked.
ConfigUpdated ==
  /\ cfg = "fan"
  /\ cfg' = "idle"
  /\ \/ Notify(members)
     \/ Fault("error") /\ lapsed' = lapsed \cup members /\ UNCHANGED pending
  /\ UNCHANGED <<clusterVars, envVars, overwritten, missed, members, option, life, rf,
                 crowded, changes, leaves>>

---------------------------------------------------------------------------

JoinActs(n) ==
  \/ Bootstrap(n) \/ StoreCa(n) \/ Join(n) \/ Count(n) \/ Decide(n) \/ Client(n)
  \/ GenOption(n) \/ GenRead(n) \/ GenWrite(n) \/ EnableRow(n) \/ StartApps(n)
  \/ Listen(n) \/ Rollback(n) \/ Relisten(n) \/ RemoteOption(n) \/ RemoteRead(n)
  \/ RemoteSet(n) \/ Finish(n) \/ ErrorAt(n)

LeaveActs(n) ==
  \/ Remove(n) \/ DisableCheck(n) \/ DisableLast(n) \/ DisableRow(n) \/ Quit(n)
  \/ WaitRemoved(n) \/ Rename(n) \/ Halt(n) \/ Removed(n)

RefreshActs(n) ==
  \/ RefreshLock(n) \/ RefreshOption(n) \/ RefreshRead(n) \/ RefreshWrite(n)
  \/ RefreshRemote(n) \/ RefreshSet(n)

RaftActs(n) ==
  /\ Joined(n) \/ Departed(n)
  /\ UNCHANGED <<envVars, ghostVars, members, option, life, pending, rf, cfg, crowded,
                 bounds>>

Quiet ==
  /\ \A n \in Node : ~Joins(n) /\ ~Leaves(n) /\ rf[n].at = "none"
  /\ pending = {} /\ cfg = "idle"

Idle == Quiet /\ UNCHANGED vars

Next ==
  \/ \E n \in Node : JoinActs(n) \/ LeaveActs(n) \/ RefreshActs(n) \/ RaftActs(n)
  \/ SetConfig \/ DeleteConfig \/ ConfigUpdated
  \/ Idle

Spec == Init /\ [][Next]_vars

---------------------------------------------------------------------------
(* Correctness.                                                            *)

\* A hook of n will still read the addresses and write its environment file.
WillGenerate(n) ==
  \/ life[n].at \in {"ca", "count", "option", "gen", "read"}
  \/ At(n, "write") /\ life[n].view = CentralIps
  \/ /\ life[n].at \in JoinStep
     /\ Len(life[n].plan) > 1

\* The hooks of n tell the others when they are done.
WillNotify(n) ==
  \/ Joins(n) /\ ~life[n].boot /\ (Enabled(n, "central") \/ At(n, "rollback"))
  \/ Leaves(n)

Owed(n) ==
  \/ n \in pending
  \/ rf[n].at \in {"gen", "read"}
  \/ rf[n].at = "write" /\ rf[n].view = CentralIps
  \/ WillGenerate(n)
  \/ \E m \in members \ {n} : WillNotify(m)
  \/ Leaves(n) \/ cfg = "fan"

Present(n) == n \in members /\ ~At(n, "failed")

\* At every moment, while nodes join, fail to and leave and the option changes,
\* the environment file of a member has the addresses that apply, or a refresh
\* is still owed to it, or it was not told.
MembershipInductive ==
  \A n \in Node : Present(n) => env[n] = CentralIps \/ Owed(n) \/ n \in lapsed

\* Once all is quiet every member follows the option and the table, and so does
\* its ovn-remote, unless it was not told or its refresh failed.
MembersFollow ==
  Quiet => \A n \in Node : Present(n) =>
    /\ env[n] = CentralIps \/ n \in lapsed
    /\ remote[n] = CentralIps \/ n \in lapsed \cup missed

\* A node that chooses for itself becomes central only while there are too few
\* central nodes and no external ones, unless another hook or a change of the
\* option came between its look at the table and its own row.
CentralsBounded ==
  [][\A n \in Node :
       /\ life[n].ask = AutoChoice /\ ~life[n].boot
       /\ ~Enabled(n, "central") /\ <<n, "central">> \in services'
       => n \in crowded \/ (option = {} /\ Cardinality(Centrals) < Enough)]_vars

\* The databases of the central nodes, and those of members that stay, belong to
\* one cluster.  A node whose join failed is left out once it has no row: its
\* database runs on, and may join although no row tells anybody of it.
OneDatabase ==
  \A n, m \in Centrals \cup {k \in members : ~Leaves(k) /\ ~At(k, "failed")} :
    db[n].st = "member" /\ db[m].st = "member" => db[n].cid = db[m].cid

\* A member that is removed stops what it runs although single services fail to
\* be disabled: only those of the last central service, which nobody
\* confirmed, run on (LeaveStopsAll has them too, and fails).  It rests on the
\* rows, which are in the table until the member is deleted: DisableService
\* stops nothing that has none.
RemovedStops ==
  [][\A n \in members \ members' :
       \/ faults > 0
       \/ apps[n] \subseteq AppSet("central")
          /\ ("ovsdb" \in apps[n] => Enabled(n, "central"))]_vars

---------------------------------------------------------------------------
(* What the comment on Leave says and the code does not do.                *)

\* Leave "ensures" that the chassis is stopped and that both database clusters
\* are departed from: a member that is removed runs nothing any more.
LeaveStopsAll == [][\A n \in members \ members' : apps[n] = {}]_vars
===========================================================================
