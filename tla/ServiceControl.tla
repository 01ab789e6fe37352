--------------------------- MODULE ServiceControl -------------------------
(***************************************************************************)
(* Enabling and disabling services on a running cluster.                   *)
(*                                                                         *)
(* A request is one `microovn enable|disable SERVICE --node NODE`: the     *)
(* handler on the target node (node.EnableService, node.DisableService)    *)
(* followed, for the central service, by the regeneration of the           *)
(* environment on every node that the command line client asks its local   *)
(* daemon for.  Nothing orders two requests: each step of a handler is one *)
(* transaction, one file write or one group of snapctl calls, and other    *)
(* requests, refreshes and a restarting daemon run in between.  The hook   *)
(* mutex muHook of a daemon is held by refreshes only.                     *)
(***************************************************************************)
EXTENDS Environment

CONSTANTS
  Req,         \* slots for requests in flight
  NoReq,       \* nobody holds muHook
  Entry,       \* nodes on which the command line is used
  MaxIssued,   \* bound on requests
  MaxFaults    \* bound on cancellations, crashes and failing commands

ASSUME RequestAssumption == NoReq \notin Req /\ Entry \subseteq Node
ASSUME BoundAssumption == MaxIssued \in Nat /\ MaxFaults \in Nat

VARIABLES
  ask,      \* ask[r]: what request r asks for
  pc,       \* pc[r]: the next step of request r, "idle" when there is none
  ctx,      \* ctx[r]: the context of request r has not been cancelled
  view,     \* view[r]: central nodes request r read last
  todo,     \* todo[r]: nodes request r still has to refresh
  hook,     \* hook[n]: request whose refresh holds muHook on n
  hpc,      \* hpc[n]: next step of that refresh
  hview,    \* hview[n]: central nodes that refresh read last
  hhas,     \* hhas[n]: services it found enabled on n
  daemon,   \* daemon[n]: state of microovnd on n, a step of Start or "up"
  bview,    \* bview[n]: central nodes Start read last
  issued,   \* requests issued so far
  faults    \* faults injected so far

reqVars == <<ask, pc, ctx, view, todo>>
hookVars == <<hook, hpc, hview, hhas>>
bootVars == <<daemon, bview>>
boundVars == <<issued, faults>>
vars == <<clusterVars, envVars, ghostVars, reqVars, hookVars, bootVars,
          boundVars>>

Ask ==
  [op : {"enable", "disable"}, node : Node, svc : Service, allow : BOOLEAN,
   via : Node]

\* Steps of a handler before and after its change of the table.
Undecided == {"check", "last", "create", "delete"}
Applied ==
  {"readEnv", "writeEnv", "start", "listen", "rollback",
   "leave", "wait", "rename", "stop", "reply"}

TypeOK ==
  /\ ClusterTypeOK
  /\ EnvTypeOK
  /\ ask \in [Req -> Ask]
  /\ pc \in [Req -> {"idle", "regen"} \cup Undecided \cup Applied]
  /\ ctx \in [Req -> BOOLEAN]
  /\ view \in [Req -> SUBSET Node]
  /\ todo \in [Req -> SUBSET Node]
  /\ hook \in [Node -> Req \cup {NoReq}]
  /\ hpc \in [Node -> {"free", "read", "env", "remote", "set"}]
  /\ hview \in [Node -> SUBSET Node]
  /\ hhas \in [Node -> SUBSET {"central", "switch"}]
  /\ daemon \in [Node -> {"down", "activate", "read", "write", "remote",
                          "set", "up"}]
  /\ bview \in [Node -> SUBSET Node]
  /\ issued \in 0..MaxIssued
  /\ faults \in 0..MaxFaults

---------------------------------------------------------------------------
(* A settled cluster: central on the nodes C, everything else everywhere.  *)

InitWith(C) ==
  /\ services = (C \X {"central"}) \cup (Node \X (Service \ {"central"}))
  /\ env = [n \in Node |-> C]
  /\ remote = [n \in Node |-> C]
  /\ lapsed = {} /\ overwritten = {} /\ missed = {}
  /\ apps = [n \in Node |->
               {"chassis", "switch"} \cup
               (IF n \in C THEN AppSet("central") ELSE {})]
  /\ db = [n \in Node |-> IF n \in C THEN MemberOf(FirstOf(Cluster))
                                     ELSE NoDatabase]
  /\ servers = [c \in Cluster |-> IF c = FirstOf(Cluster) THEN C ELSE {}]

Init ==
  /\ \E C \in SUBSET Node : InitWith(C)
  /\ ask \in [Req -> {[op |-> "enable", node |-> FirstOf(Node),
                       svc |-> "central", allow |-> FALSE,
                       via |-> FirstOf(Node)]}]
  /\ pc = [r \in Req |-> "idle"]
  /\ ctx = [r \in Req |-> TRUE]
  /\ view = [r \in Req |-> {}]
  /\ todo = [r \in Req |-> {}]
  /\ hook = [n \in Node |-> NoReq]
  /\ hpc = [n \in Node |-> "free"]
  /\ hview = [n \in Node |-> {}]
  /\ hhas = [n \in Node |-> {}]
  /\ daemon = [n \in Node |-> "up"]
  /\ bview = [n \in Node |-> {}]
  /\ issued = 0
  /\ faults = 0

Quiet == \A r \in Req : pc[r] = "idle"

---------------------------------------------------------------------------
(* Bookkeeping shared by the handlers.                                     *)

Goto(r, step) == pc' = [pc EXCEPT ![r] = step]

At(r, step) == pc[r] = step

\* The request ends although its change of the central nodes is not, or may
\* not be, known everywhere: no regeneration follows.
EndUncarried(r) ==
  /\ Goto(r, "idle")
  /\ lapsed' = IF ask[r].svc = "central" THEN Node ELSE lapsed

Fault == faults < MaxFaults /\ faults' = faults + 1

\* The client gives up (30 s, or the user interrupts it) or loses its
\* connection: every later database access and command of the request fails.
Cancel(r) ==
  /\ pc[r] # "idle"
  /\ ctx[r]
  /\ Fault
  /\ ctx' = [ctx EXCEPT ![r] = FALSE]
  /\ UNCHANGED <<clusterVars, envVars, ghostVars, hookVars, bootVars, ask,
                 pc, view, todo, issued>>

\* A wait for a database lasts 30 s, which is all the time a client gives its
\* request: when the wait ends in vain the request may be cancelled as well.
TimedOut(r) ==
  \E c \in {ctx[r], FALSE} : ctx' = [ctx EXCEPT ![r] = c]

---------------------------------------------------------------------------
(* The client issues a request.                                            *)

Issue(r) ==
  /\ pc[r] = "idle"
  /\ issued < MaxIssued
  /\ issued' = issued + 1
  /\ \E a \in Ask :
       /\ a.allow => a.op = "disable" /\ a.svc = "central"
       /\ IF a.svc = "central" THEN a.via \in Entry ELSE a.via = a.node
       /\ daemon[a.node] # "down" /\ daemon[a.via] # "down"
       /\ ask' = [ask EXCEPT ![r] = a]
  /\ Goto(r, "check")
  /\ ctx' = [ctx EXCEPT ![r] = TRUE]
  /\ view' = [view EXCEPT ![r] = {}]
  /\ UNCHANGED <<clusterVars, envVars, ghostVars, hookVars, bootVars, todo,
                 faults>>

---------------------------------------------------------------------------
(* First checks of both handlers.                                          *)

\* HasServiceActive.  A failed check ends the request with an error.
Check(r) ==
  LET a == ask[r] IN
  /\ At(r, "check")
  /\ Goto(r, IF ~ctx[r] \/ (Enabled(a.node, a.svc) <=> a.op = "enable")
             THEN "idle"
             ELSE IF a.op = "enable" THEN "create"
             ELSE IF a.svc = "central" THEN "last" ELSE "delete")
  /\ UNCHANGED <<clusterVars, envVars, ghostVars, hookVars, bootVars, ask,
                 ctx, view, todo, boundVars>>

\* The last central node is disabled with --allow-disable-last-central only.
LastRefused_OffByOne(r) == Cardinality(Centrals) = 0 /\ ~ask[r].allow

LastRefused(r) == Cardinality(Centrals) = 1 /\ ~ask[r].allow

\* FindService and the refusal to disable the last central node.
LastCheck(r) ==
  /\ At(r, "last")
  /\ view' = [view EXCEPT ![r] = Centrals]
  /\ Goto(r, IF ~ctx[r] \/ LastRefused(r) THEN "idle" ELSE "delete")
  /\ UNCHANGED <<clusterVars, envVars, ghostVars, hookVars, bootVars, ask,
                 ctx, todo, boundVars>>

\* lastCentral of DisableService: decided on what LastCheck saw.
LastCentral(r) == Cardinality(view[r]) = 1

---------------------------------------------------------------------------
(* node.EnableService.                                                     *)

CreateRow(r) ==
  LET a == ask[r] IN
  /\ At(r, "create")
  /\ \/ /\ ctx[r] /\ ~Enabled(a.node, a.svc)
        /\ AddService(a.node, a.svc)
        /\ Goto(r, "readEnv")
     \/ /\ ~ctx[r] \/ Enabled(a.node, a.svc)
        /\ UNCHANGED services
        /\ Goto(r, "idle")
  /\ UNCHANGED <<clusterVars, env, remote, ghostVars, hookVars, bootVars,
                 ask, ctx, view, todo, boundVars>>

\* GenerateEnvironment, first half.  Its error returns without a rollback.
ReadEnv(r) ==
  /\ At(r, "readEnv")
  /\ \/ /\ ctx[r]
        /\ view' = [view EXCEPT ![r] = Centrals]
        /\ Goto(r, "writeEnv")
        /\ UNCHANGED lapsed
     \/ /\ ~ctx[r]
        /\ EndUncarried(r)
        /\ UNCHANGED view
  /\ UNCHANGED <<clusterVars, envVars, overwritten, missed, hookVars,
                 bootVars, ask, ctx, todo, boundVars>>

\* A write outside muHook that no regeneration of this process follows.
Overwrites(n, C) ==
  overwritten' = IF C = Centrals THEN overwritten \ {n}
                                 ELSE overwritten \cup {n}

\* GenerateEnvironment, second half: the file is truncated and rewritten.
WriteEnv(r) ==
  LET n == ask[r].node IN
  /\ At(r, "writeEnv")
  /\ env' = [env EXCEPT ![n] = view[r]]
  /\ IF ask[r].svc = "central" THEN UNCHANGED overwritten
                               ELSE Overwrites(n, view[r])
  /\ Goto(r, "start")
  /\ UNCHANGED <<clusterVars, services, remote, lapsed, missed, hookVars,
                 bootVars, ask, ctx, view, todo, boundVars>>

\* joinCentral, joinChassis or activateService: certificates, then the snap
\* services one after the other up to the first that fails.
StartApps(r) ==
  LET n == ask[r].node
      order == AppsOf(ask[r].svc)
  IN
  /\ At(r, "start")
  /\ \E k \in 0..Len(order) :
       /\ SnapStart(n, {order[i] : i \in 1..k}, InitialHost(n, env[n]))
       /\ \/ k = Len(order) /\ ctx[r] /\ UNCHANGED faults
          \/ k < Len(order) /\ ctx[r] /\ Fault
          \/ k = 0 /\ ~ctx[r] /\ UNCHANGED faults
       /\ Goto(r, IF k < Len(order) THEN "rollback"
                  ELSE IF ask[r].svc = "central" THEN "listen" ELSE "reply")
  /\ UNCHANGED <<envVars, ghostVars, hookVars, bootVars, ask, ctx, view,
                 todo, issued>>

\* UpdateOvnListenConfig waits for the local database to be connected.
Listen(r) ==
  LET n == ask[r].node IN
  /\ At(r, "listen")
  /\ \/ /\ ctx[r] /\ Connected(n)
        /\ Goto(r, "reply")
        /\ UNCHANGED <<ctx, faults>>
     \/ /\ ~ctx[r] \/ ~(Connected(n) \/ CanJoin(n))
        /\ Goto(r, "rollback")
        /\ TimedOut(r)
        /\ UNCHANGED faults
     \/ /\ Fault
        /\ Goto(r, "rollback")
        /\ TimedOut(r)
  /\ UNCHANGED <<clusterVars, envVars, ghostVars, hookVars, bootVars, ask,
                 view, todo, issued>>

\* The row is deleted, started snap services and written files stay.
Rollback(r) ==
  LET a == ask[r] IN
  /\ At(r, "rollback")
  /\ IF ctx[r] THEN RemoveService(a.node, a.svc) ELSE UNCHANGED services
  /\ EndUncarried(r)
  /\ UNCHANGED <<clusterVars, env, remote, overwritten, missed, hookVars,
                 bootVars, ask, ctx, view, todo, boundVars>>

---------------------------------------------------------------------------
(* node.DisableService.                                                    *)

DeleteRow(r) ==
  LET a == ask[r] IN
  /\ At(r, "delete")
  /\ \/ /\ ctx[r] /\ Enabled(a.node, a.svc)
        /\ RemoveService(a.node, a.svc)
        /\ Goto(r, IF a.svc = "central" THEN "leave" ELSE "stop")
     \/ /\ ~ctx[r] \/ ~Enabled(a.node, a.svc)
        /\ UNCHANGED services
        /\ Goto(r, "idle")
  /\ UNCHANGED <<clusterVars, env, remote, ghostVars, hookVars, bootVars,
                 ask, ctx, view, todo, boundVars>>

\* leaveCentral: the last member does not wait for its departure.
Leave(r) ==
  /\ At(r, "leave")
  /\ IF ctx[r] THEN LeaveCommand(ask[r].node) ELSE UNCHANGED clusterVars
  /\ Goto(r, IF LastCentral(r) THEN "rename" ELSE "wait")
  /\ UNCHANGED <<envVars, ghostVars, hookVars, bootVars, ask, ctx, view,
                 todo, boundVars>>

\* WaitForDBState "removed": a failed wait is only logged.
WaitRemoved(r) ==
  LET n == ask[r].node IN
  /\ At(r, "wait")
  /\ \/ ctx[r] /\ db[n].st = "left" /\ UNCHANGED <<ctx, faults>>
     \/ /\ ~ctx[r] \/ ~(db[n].st = "left" \/ CanDepart(n))
        /\ TimedOut(r)
        /\ UNCHANGED faults
     \/ Fault /\ TimedOut(r)
  /\ Goto(r, "rename")
  /\ UNCHANGED <<clusterVars, envVars, ghostVars, hookVars, bootVars, ask,
                 view, todo, issued>>

Rename(r) ==
  /\ At(r, "rename")
  /\ MoveAside(ask[r].node)
  /\ Goto(r, "stop")
  /\ UNCHANGED <<envVars, ghostVars, hookVars, bootVars, ask, ctx, view,
                 todo, boundVars>>

\* deactivateService: a snapctl stop that fails is only logged.
StopApps(r) ==
  LET a == ask[r] IN
  /\ At(r, "stop")
  /\ \/ ctx[r] /\ SnapStop(a.node, AppSet(a.svc)) /\ UNCHANGED faults
     \/ ~ctx[r] /\ UNCHANGED clusterVars /\ UNCHANGED faults
     \/ Fault /\ UNCHANGED clusterVars
  /\ Goto(r, "reply")
  /\ UNCHANGED <<envVars, ghostVars, hookVars, bootVars, ask, ctx, view,
                 todo, issued>>

---------------------------------------------------------------------------
(* The reply, and the regeneration the client asks for.                    *)

\* The client asks for a regeneration after a change of the central service,
\* and the members refresh, the node it was asked of included.
Regenerates_Enabled(r) == ask[r].svc = "central" /\ ask[r].op = "enable"

Regenerates(r) == ask[r].svc = "central"

Refreshed_Others(r) == Node \ {ask[r].via}

Refreshed(r) == (Node \ {ask[r].via}) \cup {ask[r].via}

\* ServiceWarnings, the response and client.EnableService / DisableService.
Reply(r) ==
  /\ At(r, "reply")
  /\ \/ /\ ctx[r] /\ Regenerates(r)
        /\ Goto(r, "regen")
        /\ todo' = [todo EXCEPT ![r] = Refreshed(r)]
        /\ UNCHANGED lapsed
     \/ /\ ctx[r] /\ ~Regenerates(r)
        /\ Goto(r, "idle")
        /\ UNCHANGED <<todo, lapsed>>
     \/ /\ ~ctx[r]
        /\ EndUncarried(r)
        /\ UNCHANGED todo
  /\ UNCHANGED <<clusterVars, envVars, overwritten, missed, hookVars,
                 bootVars, ask, ctx, view, boundVars>>

\* regenerateEnvPost refreshes the other nodes concurrently and the node that
\* received the request last.
MayRefresh(r, n) ==
  /\ pc[r] = "regen"
  /\ n \in todo[r]
  /\ n = ask[r].via => todo[r] = {n}

\* muHook is taken and the services of the node are read.
RefreshLock(r, n) ==
  /\ MayRefresh(r, n)
  /\ ctx[r]
  /\ daemon[n] # "down"
  /\ hook[n] = NoReq
  /\ hook' = [hook EXCEPT ![n] = r]
  /\ hpc' = [hpc EXCEPT ![n] = "read"]
  /\ hhas' = [hhas EXCEPT ![n] =
                {s \in {"central", "switch"} : HasService(n, s)}]
  /\ UNCHANGED <<clusterVars, envVars, ghostVars, reqVars, hview, bootVars,
                 boundVars>>

\* The node is not reached, or the request was cancelled before its refresh:
\* the error is collected in the response and nothing is retried.
RefreshLost(r, n) ==
  /\ pc[r] = "regen"
  /\ n \in todo[r]
  /\ hook[n] # r
  /\ \/ ~ctx[r] /\ UNCHANGED faults
     \/ daemon[n] = "down" /\ UNCHANGED faults
     \/ Fault
  /\ todo' = [todo EXCEPT ![r] = @ \ {n}]
  /\ lapsed' = lapsed \cup {n}
  /\ UNCHANGED <<clusterVars, envVars, overwritten, missed, hookVars,
                 bootVars, ask, pc, ctx, view, issued>>

\* The refresh on n ends and releases muHook.
Unlock(n) ==
  /\ hook' = [hook EXCEPT ![n] = NoReq]
  /\ hpc' = [hpc EXCEPT ![n] = "free"]
  /\ hview' = [hview EXCEPT ![n] = {}]
  /\ hhas' = [hhas EXCEPT ![n] = {}]
  /\ todo' = [todo EXCEPT ![hook[n]] = @ \ {n}]

\* GenerateEnvironment under muHook: the central nodes are read.
RefreshRead(n) ==
  /\ hpc[n] = "read"
  /\ \/ /\ ctx[hook[n]]
        /\ hview' = [hview EXCEPT ![n] = Centrals]
        /\ hpc' = [hpc EXCEPT ![n] = "env"]
        /\ lapsed' = lapsed \ {n}
        /\ overwritten' = overwritten \ {n}
        /\ UNCHANGED <<hook, hhas, todo>>
     \/ /\ ~ctx[hook[n]]
        /\ Unlock(n)
        /\ lapsed' = lapsed \cup {n}
        /\ UNCHANGED overwritten
  /\ UNCHANGED <<clusterVars, envVars, missed, bootVars, ask, pc, ctx, view,
                 boundVars>>

\* ovn.env is rewritten and, where central was found, northd restarted: a
\* service that is named in snapctl restart is started if it does not run.
RefreshEnv(n) ==
  LET central == "central" \in hhas[n]
      switch == "switch" \in hhas[n]
      ok == central => ctx[hook[n]]
  IN
  /\ hpc[n] = "env"
  /\ env' = [env EXCEPT ![n] = hview[n]]
  /\ apps' = IF central /\ ok THEN [apps EXCEPT ![n] = @ \cup {"northd"}]
                              ELSE apps
  /\ \/ /\ ok /\ switch
        /\ hpc' = [hpc EXCEPT ![n] = "remote"]
        /\ UNCHANGED <<hook, hview, hhas, todo, missed>>
     \/ /\ ~(ok /\ switch)
        /\ Unlock(n)
        /\ missed' = missed \cup {n}
  /\ UNCHANGED <<db, servers, services, remote, lapsed, overwritten,
                 bootVars, ask, pc, ctx, view, boundVars>>

\* UpdateOvnControllerRemoteConfig reads the table once more ...
RefreshRemoteRead(n) ==
  /\ hpc[n] = "remote"
  /\ \/ /\ ctx[hook[n]]
        /\ hview' = [hview EXCEPT ![n] = Centrals]
        /\ hpc' = [hpc EXCEPT ![n] = "set"]
        /\ UNCHANGED <<hook, hhas, todo, missed>>
     \/ /\ ~ctx[hook[n]]
        /\ Unlock(n)
        /\ missed' = missed \cup {n}
  /\ UNCHANGED <<clusterVars, envVars, lapsed, overwritten, bootVars, ask,
                 pc, ctx, view, boundVars>>

\* ... and sets or removes ovn-remote, which needs a running Open vSwitch.
RefreshRemoteSet(n) ==
  LET ok == ctx[hook[n]] /\ "switch" \in apps[n] IN
  /\ hpc[n] = "set"
  /\ IF ok THEN SetRemote(n, hview[n]) ELSE UNCHANGED remote
  /\ missed' = IF ok THEN missed \ {n} ELSE missed \cup {n}
  /\ Unlock(n)
  /\ UNCHANGED <<clusterVars, services, env, lapsed, overwritten, bootVars,
                 ask, pc, ctx, view, boundVars>>

RegenEnd_Repeats(r) ==
  /\ pc[r] = "regen"
  /\ todo[r] = {}
  /\ todo' = [todo EXCEPT ![r] = Refreshed(r)]
  /\ UNCHANGED <<clusterVars, envVars, ghostVars, hookVars, bootVars, ask, pc,
                 ctx, view, boundVars>>

RegenEnd(r) ==
  /\ pc[r] = "regen"
  /\ todo[r] = {}
  /\ Goto(r, "idle")
  /\ UNCHANGED <<clusterVars, envVars, ghostVars, hookVars, bootVars, ask,
                 ctx, view, todo, boundVars>>

---------------------------------------------------------------------------
(* microovnd crashes and starts again.                                     *)

\* The handlers on the node die with it, what they wrote and started stays.
\* Requests that entered the cluster through it are cancelled.
Crash(n) ==
  LET killed == {r \in Req : pc[r] \in Undecided \cup Applied
                              /\ ask[r].node = n}
      orphaned == {r \in killed : pc[r] \in Applied
                                   /\ ask[r].svc = "central"}
  IN
  /\ daemon[n] # "down"
  /\ Fault
  /\ daemon' = [daemon EXCEPT ![n] = "down"]
  /\ pc' = [r \in Req |-> IF r \in killed THEN "idle" ELSE pc[r]]
  /\ ctx' = [r \in Req |-> ctx[r] /\ (pc[r] = "idle" \/ ask[r].via # n)]
  /\ lapsed' = IF orphaned # {} THEN Node
               ELSE IF hook[n] # NoReq THEN lapsed \cup {n} ELSE lapsed
  /\ IF hook[n] # NoReq THEN Unlock(n)
                        ELSE UNCHANGED <<hookVars, todo>>
  /\ UNCHANGED <<clusterVars, envVars, overwritten, missed, bview, ask, view,
                 issued>>

Restart(n) ==
  /\ daemon[n] = "down"
  /\ daemon' = [daemon EXCEPT ![n] = "activate"]
  /\ UNCHANGED <<clusterVars, envVars, ghostVars, reqVars, hookVars, bview,
                 boundVars>>

\* Start: ActivateEnabledServices on the environment file as it was left.
BootActivate(n) ==
  LET started == UNION {AppSet(svc) : svc \in EnabledOn(n)} IN
  /\ daemon[n] = "activate"
  /\ SnapStart(n, started, InitialHost(n, env[n]))
  /\ daemon' = [daemon EXCEPT ![n] = "read"]
  /\ UNCHANGED <<envVars, ghostVars, reqVars, hookVars, bview, boundVars>>

\* Start runs GenerateEnvironment without muHook.
BootRead(n) ==
  /\ daemon[n] = "read"
  /\ bview' = [bview EXCEPT ![n] = Centrals]
  /\ daemon' = [daemon EXCEPT ![n] = "write"]
  /\ UNCHANGED <<clusterVars, envVars, ghostVars, reqVars, hookVars,
                 boundVars>>

BootWrite(n) ==
  /\ daemon[n] = "write"
  /\ env' = [env EXCEPT ![n] = bview[n]]
  /\ Overwrites(n, bview[n])
  /\ daemon' = [daemon EXCEPT ![n] = "remote"]
  /\ UNCHANGED <<clusterVars, services, remote, lapsed, missed, reqVars,
                 hookVars, bview, boundVars>>

BootRemoteRead(n) ==
  /\ daemon[n] = "remote"
  /\ bview' = [bview EXCEPT ![n] = Centrals]
  /\ daemon' = [daemon EXCEPT ![n] = "set"]
  /\ UNCHANGED <<clusterVars, envVars, ghostVars, reqVars, hookVars,
                 boundVars>>

\* Start returns the error of a missing Open vSwitch: the daemon exits.
BootRemoteSet(n) ==
  /\ daemon[n] = "set"
  /\ \/ /\ "switch" \in apps[n]
        /\ SetRemote(n, bview[n])
        /\ missed' = IF bview[n] = Centrals THEN missed \ {n}
                                            ELSE missed \cup {n}
        /\ daemon' = [daemon EXCEPT ![n] = "up"]
     \/ /\ "switch" \notin apps[n]
        /\ daemon' = [daemon EXCEPT ![n] = "down"]
        /\ UNCHANGED <<remote, missed>>
  /\ UNCHANGED <<clusterVars, services, env, lapsed, overwritten, reqVars,
                 hookVars, bview, boundVars>>

---------------------------------------------------------------------------

DatabaseStep(n) ==
  /\ Joined(n) \/ Departed(n)
  /\ UNCHANGED <<envVars, ghostVars, reqVars, hookVars, bootVars, boundVars>>

Handle(r) ==
  \/ Check(r) \/ LastCheck(r)
  \/ CreateRow(r) \/ ReadEnv(r) \/ WriteEnv(r) \/ StartApps(r) \/ Listen(r)
  \/ Rollback(r)
  \/ DeleteRow(r) \/ Leave(r) \/ WaitRemoved(r) \/ Rename(r) \/ StopApps(r)
  \/ Reply(r) \/ RegenEnd(r)

RefreshStep(n) ==
  \/ RefreshRead(n) \/ RefreshEnv(n)
  \/ RefreshRemoteRead(n) \/ RefreshRemoteSet(n)

BootStep(n) ==
  \/ Restart(n) \/ BootActivate(n) \/ BootRead(n) \/ BootWrite(n)
  \/ BootRemoteRead(n) \/ BootRemoteSet(n)

\* Nothing is left to do within the bound on requests.
Settled ==
  /\ Quiet
  /\ issued = MaxIssued
  /\ \A n \in Node : daemon[n] = "up" /\ ~CanJoin(n) /\ ~CanDepart(n)
  /\ UNCHANGED vars

Next ==
  \/ \E r \in Req : Issue(r) \/ Cancel(r) \/ Handle(r)
  \/ \E r \in Req, n \in Node : RefreshLock(r, n) \/ RefreshLost(r, n)
  \/ \E n \in Node : RefreshStep(n) \/ Crash(n) \/ BootStep(n)
                     \/ DatabaseStep(n)
  \/ Settled

Spec == Init /\ [][Next]_vars

\* Handlers, refreshes, a restarted daemon and raft keep going.  A wait ends
\* within its 30 s and a Go mutex is handed to every goroutine that waits for
\* it: the two are strongly fair.
Fairness ==
  /\ \A r \in Req : WF_vars(Handle(r)) /\ SF_vars(Listen(r) \/ WaitRemoved(r))
  /\ \A r \in Req, n \in Node :
       SF_vars(RefreshLock(r, n)) /\ WF_vars(RefreshLost(r, n))
  /\ \A n \in Node :
       WF_vars(RefreshStep(n)) /\ WF_vars(BootStep(n)) /\ WF_vars(DatabaseStep(n))

FairSpec == Spec /\ Fairness

---------------------------------------------------------------------------
(* Copies of the central nodes.                                            *)

\* Once no request is in flight the environment file of every node lists
\* exactly the nodes whose central service is enabled, however requests and
\* refreshes interleaved, unless the code gave up on the node: a request that
\* changed the table and ended without a regeneration, a refresh that was
\* lost, or a file written outside muHook.
EnvFollowsCentrals ==
  Quiet => \A n \in Node : n \in lapsed \cup overwritten \/ EnvFresh(n)

\* The same for ovn-remote in the local Open vSwitch, from which
\* ovn-controller learns where the Southbound database is, with the refreshes
\* that stop before it.
RemoteFollowsCentrals ==
  Quiet => \A n \in Node : n \in lapsed \cup missed \/ RemoteFresh(n)

\* Some request will still read the table for the file of node n after its
\* change of the table.
EnvOwed(n) ==
  \E r \in Req :
    /\ ask[r].svc = "central"
    /\ \/ pc[r] \in Applied
       \/ pc[r] = "regen" /\ n \in todo[r] /\ (hook[n] = r => hpc[n] = "read")

RemoteOwed(n) ==
  \E r \in Req :
    /\ ask[r].svc = "central"
    /\ \/ pc[r] \in Applied
       \/ pc[r] = "regen" /\ n \in todo[r] /\ (hook[n] = r => hpc[n] # "set")

\* muHook is held on behalf of a request that waits for the node.
HookConsistent ==
  \A n \in Node :
    /\ hook[n] = NoReq <=> hpc[n] = "free"
    /\ hook[n] # NoReq => pc[hook[n]] = "regen" /\ n \in todo[hook[n]]

\* Only changes of the central nodes are followed by a regeneration.
RegenCentral == \A r \in Req : pc[r] = "regen" => ask[r].svc = "central"

\* The file of n, or the list a refresh is about to write to it, is the table
\* unless somebody still owes n a refresh or the code gave up on n.
EnvAccounted(n) ==
  \/ n \in lapsed
  \/ EnvOwed(n)
  \/ IF hpc[n] = "env" THEN hview[n] = Centrals
                       ELSE n \in overwritten \/ EnvFresh(n)

RemoteAccounted(n) ==
  \/ n \in lapsed
  \/ RemoteOwed(n)
  \/ IF hpc[n] = "set" THEN hview[n] = Centrals
                       ELSE n \in missed \/ RemoteFresh(n)

\* At every moment, not only between requests, every environment file is
\* accounted for: no interleaving of handlers, refreshes and crashes leaves a
\* file behind the table that nobody will rewrite.
EnvInductive == HookConsistent /\ \A n \in Node : EnvAccounted(n)

\* The same for ovn-remote.
RemoteInductive ==
  /\ HookConsistent
  /\ RegenCentral
  /\ \A n \in Node : RemoteAccounted(n)

\* What the environment files promise, in the terms of Replication: the list
\* under muHook counts as written, and a node is settled when nobody owes it a
\* refresh and none was given up.
EnvCopy ==
  [n \in Node |-> IF hpc[n] = "env" THEN hview[n] ELSE env[n]]

EnvSettled ==
  {n \in Node \ lapsed :
     ~EnvOwed(n) /\ (hpc[n] = "env" \/ n \notin overwritten)}

EnvReplication ==
  INSTANCE Replication WITH Place <- Node, Value <- SUBSET Node,
                            source <- Centrals, copy <- EnvCopy,
                            settled <- EnvSettled

\* The environment files implement Replication.
EnvReplicates == EnvReplication!Spec

---------------------------------------------------------------------------
(* Desired and runtime state.                                              *)

\* Once requests are done, a node runs the snap services of the MicroOVN
\* services enabled on it and no others.
RuntimeMatchesDesired ==
  Quiet => \A n \in Node, svc \in Service :
             IF Enabled(n, svc) THEN AppSet(svc) \subseteq apps[n]
                                ELSE AppSet(svc) \cap apps[n] = {}

\* Once requests are done, the servers of the enabled central nodes are the
\* raft members of one cluster and no other node has a database.
OneDatabase ==
  Quiet =>
    /\ \A n \in Node \ Centrals : db[n] = NoDatabase
    /\ Centrals # {} =>
         \E c \in Cluster :
           /\ servers[c] = Centrals
           /\ \A n \in Centrals : db[n] = MemberOf(c)

\* Once requests are done, no two central nodes serve different databases.
NoSplitBrain ==
  Quiet =>
    \A m, n \in Centrals :
      (Connected(m) /\ Connected(n)) => db[m].cid = db[n].cid

\* The last running copy of the databases goes away only in a disable of
\* central that the user confirmed with --allow-disable-last-central.
DataKept ==
  [][(HasData /\ ~HasData') =>
       \E r \in Req : pc[r] \in Applied /\ ask[r].op = "disable" /\ ask[r].allow
    ]_vars

\* Every request ends, whatever others do to the node and to the databases.
RequestsEnd == \A r \in Req : pc[r] # "idle" ~> pc[r] = "idle"

---------------------------------------------------------------------------
(* What the documentation says and concurrent or repeated requests break.  *)

\* The last central service is disabled by a confirmed request only.
LastCentralConfirmed ==
  [][(Centrals # {} /\ Centrals' = {}) =>
       \E r \in Req : At(r, "delete") /\ ask[r].allow]_vars

\* Once requests are done, an enabled central service means a database.
CentralMeansDatabase ==
  Quiet => (Centrals # {} => \E n \in Centrals : Connected(n))
===========================================================================
