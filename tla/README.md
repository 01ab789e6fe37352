# MicroOVN in TLA+

MicroOVN is a snap that runs OVN on a cluster of machines. On every node the
daemon `microovnd` keeps a REST API and a set of hooks on top of microcluster
(a shared dqlite database, membership, fan-out of requests) and starts and
configures the OVN services through `snapctl`, `ovs-vsctl`, `ovn-appctl` and
`ovsdb-client`. The interesting part is the distance between three things that
no transaction covers together: the *desired state* in dqlite, the *files and
keys* each node derives from it, and the *processes* that run, the clustered
OVN databases first of all. These modules model that distance.

All paths below are relative to `src/microovn/` unless they say otherwise.

## Inventory

| Component | State | Operations | Hard because | What makes it correct |
|---|---|---|---|---|
| Service control (`node/node.go`, `api/services/control.go`, `client/client.go`, `cmd/microovn/service_control.go`) | rows of the dqlite table `services` | enable and disable a service on a node, with a rollback; the client asks for a regeneration after central | every step is its own transaction or command; a request dies with its client (30 s) or its daemon; two requests share nothing but the table | the table, the running services and the databases agree when requests are done; the last central goes only when confirmed |
| Environment (`ovn/environment/environment.go`, `ovn/cluster/cluster.go`, `ovn/refresh.go`, `api/refresh.go`, `ovn/locks.go`) | `ovn.env` and `ovn-remote` of every node, the mutex `muHook` | read the central nodes, write the copies, fan a refresh out to the members | read and write are apart and only refreshes hold the mutex; members may be down | no copy stays outdated without a request or a failure that accounts for it |
| Daemon start (`ovn/start.go`, `cmd/microovnd/main.go`) | progress of the `OnStart` hook | activate services, regenerate the environment | runs without the mutex, on the files as a crash left them | a restart does not make things worse |
| Snap services and OVN databases (`snap/snap.go`, `ovn/cmd/commands.go`, `src/snapcraft/commands/*.start`) | running services, raft membership, database files | start, stop, leave the cluster, wait for a state, move the file away | a server's first start decides whether it joins or creates a cluster | one database cluster, with exactly the central nodes |
| Bootstrap, join, leave (`ovn/bootstrap.go`, `ovn/join.go`, `ovn/leave.go`) | members, their rows, certificates and environment | choose the services of a new member and enable them one after the other; undo them | the choice rests on a count that is old when the row is written; nothing is undone when a step fails; Leave does not hold `muHook` | at most three nodes become central by themselves; every member follows the table afterwards; a removed member stops what it ran |
| Schema upgrade (`ovn/ovsdb/ovsdb.go`, `api/ovsdb/schema_version.go`) | schema of each database, retries | leader election, readiness of all members, conversion | all nodes upgrade at different times, answers are collected concurrently | a conversion only when every node knows the schema; it does happen in the end |
| Certificates (`ovn/certificates/certificates.go`, `api/certificates/*`, `src/snapcraft/commands/refresh-expiring-certs`) | CA in dqlite, key and certificate files of every node | reissue one or all, regenerate or set the CA, fan out; a daily script that renews what expires | two changes of the CA at once; files are truncated before the CA is read; a fan-out that misses a member is not repeated; every node runs the script | every certificate in use is signed by the CA in the table or accounted for; certificate and key belong together; what expires is renewed |
| Configuration (`config/config.go`, `api/config/config.go`) | `config` table: `ovn.central-ips`, the options of `setup bgp` | set, get, delete, and what follows a change | the follow-up refresh is a fan-out of its own, after the transaction | copies follow the option |
| BGP (`bgp/*.go`, `api/bgp/endpoints.go`, `cmd/microovn/setup_bgp.go`) | OVS bridges and keys, OVN routers and switches, netplan file, VRF, `bird.conf` of every node | enable, disable, set up on all nodes, take over tagged bridges | some twenty external commands of which any may fail, a rollback that is the whole tear-down, ids computed from member ids | tear-down leaves nothing behind; the parts of a set-up agree; different AS numbers |
| Netplan and DPU helpers (`netplan/*.go`, `ovn/dpu/dpu.go`) | the netplan file of BGP | write, apply, move away; detect a DPU | the file is moved away before its devices are deleted | see BGP |
| Command line, paths, logging, version | none of their own | formatting, prompting, printing | - | not modelled |

Components talk through the table (every handler reads and writes it in its own
transactions), through requests (the client to the target node, a node to all
others for a refresh), and through files and databases on a node that several
handlers, a refresh and a starting daemon touch at once.

`PROJECT.json` lists the hazards of the code at their lines, with the properties
that cover them or the reason why none does yet.

## Modules

    OvnCluster        snap services, ovsdb-server and raft      <- snap, scripts, node
      Environment     table, ovn.env, ovn-remote                <- environment, cluster, database
        ServiceControl   requests, refreshes, crashes, start    <- node, api, client, refresh, start
          MCServiceControl      symmetry for TLC
          ServiceControlProofs  types; one request at a time
            EnvironmentProofs   environment files follow the table, two requests leave one cluster
              ReplicationProofs   they implement Replication
              RemoteProofs        ovn-remote follows the table
        Membership       bootstrap, join, leave, ovn.central-ips <- bootstrap, join, leave, config
          MCMembership          scenarios for TLC
          MembershipProofs      members follow and share databases, joining nodes count, removed nodes stop
    Replication       what the copies promise (abstract)        INSTANCEd by ServiceControl, Certificates
    Certificates      the CA, its copies, certificates and keys <- certificates, api/certificates, script
      MCCertificates          symmetry and services for TLC
      CertificatesProofs      files follow the CA, and implement Replication
    Bgp               set-up and tear-down of BGP               <- bgp, api/bgp, netplan
      MCBgp                   scenarios and symmetry for TLC
      BgpProofs               a node agrees with itself or keeps nothing of it
    SchemaUpgrade     upgrade of a database's schema            <- ovsdb, start, client
      SchemaUpgradeProofs   it is held back until all are ready

**OvnCluster.** `apps[n]` is the set of running snap services (`ovsdb` stands for
the Northbound and the Southbound server, which the code starts, leaves, renames
and stops together), `db[n]` the node's database with its raft state, `servers[c]`
the raft configuration of a database cluster. `SnapStart` contains the decision of
the start script: an existing database is served, otherwise a cluster is joined
through the initial host of `ovn.env`, or created when that is the node itself or
nobody. `Joined` and `Departed` are what ovsdb-server does by itself; they are
external and need a majority of running members.

**Environment.** `services` is the table, `env[n]` the central nodes `ovn.env` of
node n was rendered from (addresses and the initial host are functions of that
set), `remote[n]` those in `ovn-remote`. Members are numbered by their database id,
the order in which `core_cluster_members` returns them. Three history variables,
which no action reads, name the nodes the code gives up on: `lapsed` (a change of the
table that no regeneration follows, or a refresh that was lost), `overwritten` (a
list older than the table written outside `muHook`), `missed` (a refresh that ended
before `ovn-remote`).

**ServiceControl.** `ask[r]` is a request, `pc[r]` its next step, `ctx[r]` whether its
context is alive. One action is one transaction, one file write or one group of
commands:

| Actions | Code |
|---|---|
| `Issue` | the command line, `cmd/microovn/service_control.go` |
| `Check` `CreateRow` `ReadEnv` `WriteEnv` `StartApps` `Listen` `Rollback` | `node.EnableService` with `joinCentral`, `joinChassis`, `activateService` |
| `Check` `LastCheck` `DeleteRow` `Leave` `WaitRemoved` `Rename` `StopApps` | `node.DisableService` with `leaveCentral`, `leaveChassis`, `deactivateService` |
| `Reply` `RegenEnd` | the response, and the client's request for a regeneration |
| `RefreshLock` `RefreshRead` `RefreshEnv` `RefreshRemoteRead` `RefreshRemoteSet` `RefreshLost` | `regenerateEnvPost` on all members, the receiving one last, and `refresh` under `muHook` |
| `Cancel` `Crash` `Restart` | the client's 30 s, a lost connection, a crash of microovnd |
| `BootActivate` `BootRead` `BootWrite` `BootRemoteRead` `BootRemoteSet` | `Start` after a crash |
| `DatabaseStep` | raft |

Errors are modelled where the code handles them: a snap service that fails to start
leads to the rollback, one that fails to stop is logged, a wait that times out leads
on and may have used up the request's time, a cancelled context makes every later
transaction and command fail, the rollback's too. Injected faults (cancellations,
crashes, failing commands, lost refreshes) are bounded by `MaxFaults`, requests by
`MaxIssued`; both bounds sit in guards only.

**Replication** is the promise made to the readers of a copy: whoever is settled has
the current value. `EnvReplication` in ServiceControl is its refinement mapping: the
source is the set of central nodes, the copy of a node is its file (or, while a refresh
under the mutex is about to write, the list it will write), and a node is settled when
no request still owes it a refresh and none was given up.

**SchemaUpgrade.** `version[m]` is the schema that the snap of member m expects,
`schema` the one of the database, `central` the members with central enabled. `loop[n]`
is the next step of `ovsdb.UpgradeCentralDB` on n, `failed` where an error ended it or kept it
from being launched; `waiting`, `answers` and `refused`
are the round of questions of a leader: members that have not answered yet, the map
`results`, and whether the query will return an error. One action is one command,
transaction or answer:

| Actions | Code |
|---|---|
| `CheckActive` `Status` `Leader` `Sleep` `Retry` | the loop, `getLiveSchemaStatus`, `isNodeUpgradeLeader` |
| `Query` `Answer` `NoAnswer` `AnswersCollide` `Assess` | `isClusterUpgradeReady` and the endpoint it asks |
| `Convert` | `ovsdb-client convert`, after which the function returns |
| `Start` `StartFails` | the `OnStart` hook, which starts the loop where central is enabled, and its returns before that |
| `Refresh` `Crash` `EnableCentral` `DisableCentral` | what happens meanwhile; a request for central is one step here, ServiceControl has its parts |

Version 0 is that of a snap from before the coordination: it has no endpoint and runs no
loop. `raced` is a history variable that no action reads: the leaders whose map lost an
answer in the current round. `FaultKind` says what may fail in an instance: `crash` (a
daemon), `error` (a command, a transaction or an answer), `convert` (the conversion, which
may or may not have happened), `race` (two answers written to the map at once: Go's
runtime ends the process, or one of them is lost). The Northbound and the Southbound
database run the same loop independently; the module is one of them. The set of members
is constant.

**Membership** puts the life of a member on top of Environment: `life[n]` is the hook that runs on
n with the services it still has to enable or disable (`plan`), the count of central nodes it has
taken (`seen`) and the addresses it has read (`view`); `option` is `ovn.central-ips`, `pending` the
members that were asked to refresh and `rf[n]` the refresh that runs. `muHook` is held while
`Joins(n)`; a refresh takes it (`RefreshLock`), Leave does not. `crowded` is a history variable that
no action reads: the joins that a change of what they rest on overlapped.

| Actions | Code |
|---|---|
| `Bootstrap` `StoreCa` `Relisten` | `ovn/bootstrap.go` |
| `Join` `Count` `Decide` `Client` `Finish` | `ovn/join.go`, and `OnNewMember` on the others |
| `GenOption` `GenRead` `GenWrite` | `environment.GenerateEnvironment`: option and services in two transactions |
| `EnableRow` `StartApps` `Listen` `Rollback` `RemoteOption` `RemoteRead` `RemoteSet` | `node.EnableService` as the hooks call it |
| `Remove` `DisableCheck` `DisableLast` `DisableRow` `Quit` `WaitRemoved` `Rename` `Halt` `Removed` | `ovn/leave.go`, `DisableAllServices`, the deletion of the member and `PostRemove` |
| `RefreshLock` `RefreshOption` `RefreshRead` `RefreshWrite` `RefreshRemote` `RefreshSet` | `ovn/refresh.go` |
| `SetConfig` `DeleteConfig` `ConfigUpdated` | `api/config/config.go` and its callback |
| `ErrorAt` | certificates, DPU, BGP and other commands of a hook that fail |

A hook that fails undoes nothing except the row of the service at hand, as the code does; the
member stays and is `failed`.

**Certificates** has one request per slot: a command, an enable or disable of a service as far as
certificates go, or one run of the script. `work[r][n]` is its handler on node n, with the CA it has
read (`held`) and the certificates it still has to issue (`left`). A certificate is issued in four
steps: both files are truncated, the CA is read, the certificate is written, the key is written.
`signer[n][c]` is the CA that signed the file, `certKey` and `keyFile` the request whose key each of
the two files belongs to. No lock orders two requests, so every interleaving of these steps is there.

| Actions | Code |
|---|---|
| `Issue` `Renew` | `cmd/microovn/certificates_*.go`, the timer of the script |
| `ScriptInfo` `ScriptCa` `ScriptCert` | `src/snapcraft/commands/refresh-expiring-certs` |
| `StoreCa` `End` | `GenerateNewCACertificate`, `SetNewCACertificate`, `updateOvnClusterCertificates` |
| `ServiceRow` `Rollback` | `EnableService`, `DisableService` around the certificates |
| `Visit` `Lost` `DumpRead` `DumpWrite` `List` | the handler of a member: `DumpCA`, `enabledOvnServices`, 404 |
| `Open` `Sign` `WriteCert` `WriteKey` | `GenerateNewServiceCertificate` |
| `Cancel` `Crash` | a client that gives up after 5 s, a crash of microovnd |

`lapsed` and `overwritten` are history variables as in Environment; `collided` names the files that
two requests wrote at once. `CertReplication` maps the files to Replication: the copies are the CA
file and the certificates of every node, the source is the CA in the table. The mutated operators of
`PROJECT.json` stand next to what they mutate, as in the other modules.

**Bgp** has a record `node[n]` of what the service has set up on a node: BIRD, OVS bridges with their
tag, `ovn-bridge-mappings` and MicroOVN's record of it, the logical router with its VRF table, the
logical switches, the netplan file, veth devices, ports with their redirects and `bird.conf`. Every
command against one of them is a step; a failed step of the set-up leads to the whole tear-down and
the deletion of the row, a failed step of the tear-down leads to the next one.

| Actions | Code |
|---|---|
| `Issue` `StoreFlag` `StoreLink` `Probe` `Visit` `Lost` `ReadConf` `End` | `api/bgp/endpoints.go`, `bgp/bgp.go`, tagged bridges of bootstrap and join |
| `Check` `CreateRow` `GenerateEnvironment` `DeleteRow` `Rollback` | `node.EnableService`, `node.DisableService` |
| `Start` `ChooseTable` `CreateBridges` `CreateRouter` `CreateSwitches` `CreateVrf` `WritePlan` `ApplyPlan` `RedirectPorts` `Configure` `Fail` | `bgp.EnableService` and `redirect.go` |
| `StopBird` `DeleteRouter` `MovePlan` `DeleteVeths` `DeleteSwitches` `DeleteBridges` `DeletePorts` `DeleteMappings` `DeleteOwn` `ResetConf` `TornDown` | `bgp.DisableService`, `redirect.go`, `netplan.Cleanup` |
| `Cancel` `Crash` | a client that gives up, a crash of microovnd |

`dirty`, `orphaned`, `struck` and `confirmed` are history variables that no guard reads: nodes where
a set-up or tear-down was cut off or disturbed; devices and mappings that nothing describes any more;
nodes that lost switches to a node whose name is a prefix of theirs; nodes a request reported as
enabled.

## Runs

The first runs use `MCServiceControl`. Deadlock is checked in all of them; `Settled` is the
one state in which a bounded instance may stop: every request issued and answered,
every daemon up, nothing left for raft to do.

| Run | Instance | Shows |
|---|---|---|
| `serial` | 3 nodes, 3 services, 1 request at a time, 4 requests | `OneDatabase`, `RuntimeMatchesDesired`, `RemoteFollowsCentrals`, `DataKept` |
| `concurrent` | 3 nodes, central, 2 at a time, 2 requests | `EnvInductive`, `RemoteInductive`, `EnvFollowsCentrals`, `NoSplitBrain`, `EnvReplicates` |
| `faults` | 2 nodes, central and switch, 2 at a time, 2 requests, 1 fault | `TypeOK`, `EnvFollowsCentrals`, `RemoteFollowsCentrals` |
| `requests_end` | 2 nodes, central, 2 at a time, 2 requests, fairness | `RequestsEnd` |

Every instance starts from any set of central nodes, the empty one included, so two nodes
and two requests suffice for the first, second, last and re-created central node; three
nodes are needed for a cluster that keeps a majority while a member leaves, and for two
concurrent changes on nodes other than the one that is refreshed last. Four requests one
after the other take a cluster of three down and up again. Two concurrent requests exhibit
every pairwise race; the proofs below do without
the bounds, that of `NoSplitBrain` excepted, which needs the two requests. `Entry` limits the nodes on
which the command line is used; it decides which node is refreshed last. Services outside
`Service` are taken to be enabled everywhere and left alone. Requests are
interchangeable, so runs of safety properties with two of them use `ReqSymmetry`;
`requests_end` does not.

Fairness in `requests_end`: weak fairness for the steps of handlers, refreshes, a
starting daemon and raft (goroutines and processes that keep running); strong fairness
for the two waits, which a 30 s limit ends however the databases change meanwhile, and
for taking `muHook`, since a Go mutex in starvation mode hands itself to the goroutine
that has waited longest. `RequestsEnd` is checked without faults; with one, a request may be
cut off by its crash or cancellation, which ends it.

The runs of the schema upgrade use `SchemaUpgrade` itself; deadlock is checked, and
its `Settled` is a cluster with the newest snap everywhere and no loop left.

| Run | Instance | Shows |
|---|---|---|
| `upgrade` | 3 members, versions 0 to 2, 1 fault of any kind, 1 change of the central nodes | `TypeOK`, `UpgradeInductive`, `HeldBack` |
| `upgrade_happens` | 3 members, versions 0 to 2, 2 faults of any kind, fairness | `UpgradeHappens`, `LoopsEnd` |

Three members are a leader with two others, whose answers can collide, and every
assignment of central to them; versions 0 to 2 are a member without the endpoint, an
upgrade, and a further one that begins while the first is going on. One change takes the
last central node away or puts a new one before the leader. Members
are ordered by their ids, so there is no symmetry. Fairness is weak fairness of each loop
(a goroutine that keeps running, commands and queries with time limits) and of the start
of a daemon (snapd restarts it, `src/snap/snapcraft.yaml:45-47`); nobody is obliged to refresh a snap,
so `UpgradeHappens` and `LoopsEnd` speak of the time after all were. Both have one exception,
`[]LeaderFailed`: the central node with the lowest id, to which all others defer, has no loop because
of an error, for good. That error may be one of `Start` before it launches the loops
(`ovn/start.go:31-70`: dqlite not open, a path, a service, the environment file, `ovn-remote`), one of
`HasServiceActive` at the beginning of the function (`ovn/ovsdb/ovsdb.go:207-210`) or a failing
`convert`. What microcluster does with an error of `Start` is not in this repository, so `StartFails`
has both: the daemon serves requests without a loop, or it ends and is started again. Two faults are
enough for an error and the crash that heals it, since a daemon that starts launches the loop
again: without the crash nothing in the code does. Changes of the leader are left out there: with one
`UpgradeHappens` fails, see below.

The other components have one module for TLC each.

| Run | Instance | Shows |
|---|---|---|
| `membership` | up to 3 nodes, all services; removals, changes of the option, lost notifications and failing commands | `TypeOK`, `MembershipInductive`, `MembersFollow`, `OneDatabase`, `CentralsBounded`, `RemovedStops` |
| `certificates` | 2 nodes with chassis, switch enabled and disabled too, 2 requests at a time, 1 fault of any kind while MicroOVN's own CA is used | `TypeOK`, `CertInductive`, `CertificatesFollowCa`, `KeysMatch`, `CertReplicates` |
| `renewal` | 2 nodes, the script on both, one lost notification, fairness | `CaRenewed`, `CertRenewed` |
| `bgp` | 2 nodes, all requests to one, 2 at a time, 3 requests, 1 fault | `TypeOK`, `NothingLeft`, `SetupAgrees`, `ConfirmedStays`, `AsnUnique` |

`membership`: `Enough` is 2 where `ovn/join.go:63` has 3, so that the third node is already the one that
has to decide against central. `Scenario` (in MCMembership) says which combinations are explored: two
nodes with two events out of removal, change of the option and fault, the second with any choice of
services; three automatic nodes with one fault; three nodes of the databases of which one leaves, the
third joining after the second has.
Faults are a failing command of a hook and a member that a notification does not reach. Databases,
environment and option are small finite sets; a member that has left does not come back. The rows of
a member are in the table until the member is deleted, so `Leave` finds them. This is how the
code reads: Leave is the `PreRemove` hook (`cmd/microovnd/main.go:99-103`), rows go with the row of the
member by a cascade (`database/schema.go:65-66`), and `DisableService` does something only for a service
that has a row (`node/node.go:48-53`). The comment on Leave says that the rows are gone by then
(`ovn/leave.go:20-22`). microcluster, which decides it, is not in this repository; if the comment were right,
every service would be skipped (`DisableCheck`), nothing stopped, and `RemovedStops` would not hold. `RemovedStops` leaves out two things: what a
failing command of the removal keeps running (`faults`), and the last central service, for
which see `LeaveStopsAll` below.

`certificates`: two nodes are one that answers the command and one that is asked, and every race is
one of two requests over one file. A third generated CA lets two regenerations follow one another; the
user's CA is 9, the largest; faults are left out while it is set (`FewFaults` in MCCertificates), since the
steps they hit are those of a generated one. Central certificates are left out of this instance: with them a handler
only has a longer list. `renewal` has no command of a user. The fairness there is weak fairness of every
request in flight (a handler keeps running, the script waits for its commands) and of `Renew` on every
node: the timer comes again every day, `src/snap/snapcraft.yaml:175-178`. A member whose notification
was lost sees its own expiring copy on the next day. Both nodes have the chassis and one has the switch.
That is the exception of `CertRenewed` (`Unreached`): `certificates list` names `ovn-controller` where the
chassis is enabled, a reissue of it is refused with 404 where the switch is not, and `set -e` ends the
script there every day, before it comes to the certificates of central. `client` comes first and
is renewed. `EveryCertRenewed` is the property without the exception and fails. One more thing that breaks it is
out of this instance: a CA file that a failure left empty makes `certificates list` fail, and the script
ends there.

`bgp`: `Scenario` (MCBgp) sends all requests to n1; a set-up of the cluster works on both nodes. Two
requests overlap, a third comes when one of them is done; a set-up of the cluster and bridges that users
tagged share with one further request or fault. The name of n1 is a prefix of the name
of n2, one of three routing tables is taken, and the AS range has two numbers for two members. A node
may lack the interface. Requests and the users' bridges are symmetric. What the instance leaves out for
its size, more requests at once and more nodes that are written to, the proofs below have.

### Where code and documentation disagree

Two runs each check one statement of a comment or of the documentation and find it violated;
`PROJECT.json` quotes the statements.

| Run | Statement | What happens |
|---|---|---|
| `last_central_race` | the last central node needs a confirmation | two disables both count two rows and delete both |
| `silent_panic` | the function returns silently on a node without central | central disabled on the last node during the loop makes it index an empty list |

Further statements do not hold in these modules and have no run of their own. Those with an operator
can be checked by naming it in a configuration.

| Statement | Operator | What happens |
|---|---|---|
| after the last central is gone, enabling central creates empty databases | `CentralMeansDatabase` (ServiceControl) | two first enables choose each other as initial host, time out together, and a cancelled rollback leaves central enabled with no database |
| the upgrade waits for a confirmation of every node | `ConfirmedByAll` (SchemaUpgrade) | an answer lost to the race on the map counts as one |
| a new member becomes the leader and triggers the upgrade | - | central enabled during the upgrade starts no loop, and the others defer to it |
| all certificates are reissued with the new CA (`src/docs/how-to/tls.rst`) | `AllReissued` (Certificates) | `enabledOvnServices` (`api/certificates/common.go:35`) issues `ovn-controller` for the service switch, while the chassis uses it; a node with chassis alone keeps the old one |
| a certificate that is about to expire is renewed automatically (`src/docs/reference/cryptography.rst:51`) | `EveryCertRenewed` (Certificates) | on a node with chassis and no switch `ovn-controller` is listed (`cmd/microovn/certificates_list.go:172`) and its reissue refused (`api/certificates/issue.go:62`), every day |
| Leave ensures that the chassis is stopped and both databases are departed from (`ovn/leave.go:14-18`, `src/docs/how-to/downscaling.rst:41-44`) | `LeaveStopsAll` (Membership) | on the last central node `DisableService` wants a confirmation that `DisableAllServices` does not give (`node/node.go:387`); the error is logged and the databases run on |
| the rows are gone when Leave runs, and it stops all possible services all the same (`ovn/leave.go:20-22`) | - | it cannot be both: `DisableService` returns on a service without a row (`node/node.go:48-53`). The model has the rows there (see `membership` above) |
| other OVN resources remain untouched (`bgp/redirect.go:602`) | `UserResourcesStay` (Bgp) | every tagged bridge is deleted, and MicroOVN records all of `ovn-bridge-mappings` as its own |
| only the switches of the local chassis are removed (`bgp/redirect.go:626`) | `OwnSwitchesOnly` (Bgp) | the name is a prefix, so `node` takes the switches of `node-2` |
| a unique ASN within the specified range (`bgp/redirect.go:111`) | `AsnInRange` (Bgp) | the member whose id is the size of the range gets the number below it |

Weak spots that no document speaks of:

- A switch that is enabled after central moved keeps its old `ovn-remote` (`RemoteFollowsCentrals`
  excepts it through `missed` and `lapsed`); a node that joins without chassis never sets one.
- `EnableService` writes the environment file outside the mutex, so that it can put an older list over
  a newer one (`overwritten`), although the comment on it says that it does not touch the file.
- A leader whose conversion failed returns, and one whose `Start` or `HasServiceActive` failed never
  began: the others defer to it, and nobody tries again until its daemon is started again.
- The only central node with a database can be removed while a joining node already has its row for
  central: the removal sees two central nodes and asks for no confirmation, and the joining node creates
  a new, empty database. `OneDatabase` of Membership says that central nodes and members that stay share
  databases all the same, not that the old data is among them.
- The rollback of a failed enable or join (`node/node.go:149`) deletes the row and stops nothing. The
  `ovsdb-server` of the node goes on trying to join, and may do so after others have created new
  databases: a node whose join failed may end up in another cluster than later members. `OneDatabase` leaves it
  out as long as it has no row for central.
- A removal goes on when the last central service refuses to be disabled; the row goes with the member
  while the databases keep running (`LeaveStopsAll`, `RemovedStops` without them).
- The DELETE handler of an option replies with success after an error (`api/config/config.go:131-139`).
- A teardown of BGP that cannot read `ovn-bridge-mappings` ends there; devices and mappings it lost track
  of stay (`orphaned`). The options of `setup bgp` stay in the table after a member refused.
- A bootstrap or join with two tagged bridges fails on the second, "already enabled"; so does a join
  with one tagged bridge in a cluster with BGP set up.

`RuntimeMatchesDesired` and `OneDatabase` of ServiceControl are properties of one request at a time: with
two, a refresh can start `ovn-northd` again on a node that just lost central, and a
rollback can delete the row of a later request. `NoSplitBrain` is checked for two requests and no fault, and
proved for two requests on a cluster of any size with any faults but a crash. More than that does not hold in
ServiceControl, and `MaxFaults` or `MaxIssued` in `MC_concurrent.cfg` shows it:

- One crash between the row and the environment file lets the restarted daemon start the databases from the old
  file (`ovn/start.go:44` before `:50`).
- Three requests at once, on two nodes: a disable of the only central node, whose refresh of the other node has read
  an empty list and is slow, and an enable on each. The refresh puts the empty list over the file that one
  enable has written and is about to start from (`ovn/refresh.go:54` under `muHook`, `node/node.go:133` outside of it),
  so that both create databases.
- Four requests, two at a time: of an enable and a disable of the same node both end with its databases running
  and no row, since the rollback of the enable stops nothing. An enable of another node creates new
  databases, and a second one of the first node finds its old ones (`node/node.go:149`). Three requests, two at a
  time, are not enough on two nodes.

## Proofs

TLAPS proves, for any finite or infinite set of node ids, any of the three services, any number of requests
in flight and any bounds:

- `TypeCorrect`: `Spec => []TypeOK` (module ServiceControlProofs). The lemma that
  takes work is `FirstOfType`: the `CHOOSE` of the first address has a value because a
  nonempty set of naturals has a least element.
- `OneDatabaseKept`, `RuntimeKept` and `LastCopyConfirmed` (ServiceControlProofs): `OneDatabase`,
  `RuntimeMatchesDesired` and `DataKept` of the `serial` run, for one request at a time, no
  faults, any finite set of nodes, any of the services and any number of requests.
- `EnvAccountedAlways`: `Spec => []EnvInductive` (EnvironmentProofs).
- `EnvFollows`: `Spec => []EnvFollowsCentrals`, from the former.
- `EnvImplements`: `Spec => EnvReplicates`, the refinement of Replication (ReplicationProofs).
- `RemoteAccountedAlways` and `RemoteFollows`: the same two facts about `ovn-remote`
  (RemoteProofs).
- `UpgradeTypeOK`, `UpgradeInductiveAlways` and `SchemaHeldBack`
  (SchemaUpgradeProofs): types, what a leader knows, and that a conversion waits for
  every member, for any members, versions, faults and changes of the central nodes.
- `CertTypeOK`, `CertInductiveAlways`, `CertFollows`, `CertKeysMatch` and `CertImplements`
  (CertificatesProofs): types, why a file may differ from the CA, that it does not
  once no request is in flight, that keys belong to their certificates then, and the
  refinement of Replication by the files.
- `TypeCorrect`, `NothingIsLeft`, `SetupsAgree`, `ConfirmedStay` and `AsnsUnique` (BgpProofs): every
  invariant of the `bgp` run, for any nodes, interfaces, bridges and tables, requests in flight and faults.
- `TypeCorrect`, `EnvironmentsFollow`, `QuietMembersFollow`, `FewCentralsChosen` and `RemovedNodeStops`
  (MembershipProofs): every property of the `membership` run, with the next one, for any nodes, any choice of
  services and number that is enough, and any number of removals, changes of the option and faults.

- `MembersShareDatabase` (MembershipProofs): `OneDatabase`, for all of that too.
- `TwoRequestsOneDatabase` and `NoFaultOneDatabase` (EnvironmentProofs): `NoSplitBrain` for any two requests
  on a settled cluster of any size, with any faults but crashes, or without faults.

`EnvFollowsCentrals` speaks of quiet states only and is not inductive: it says nothing
while a request is under way. `EnvInductive` says for every state why a file may differ
from the table: the node was given up (`lapsed`, `overwritten`), or `EnvOwed`: a request for
central is past its change of the table and has not yet read the table for this node. The
list a refresh carries between read and write takes the place of the file. It needs
`HookConsistent` (the holder of `muHook` is a request that still waits for this node), so that
a refresh that reaches its read really discharges a debt, and that releasing the mutex
forgives no other request's. Per action: a change of the table makes the request that
did it owe every node a refresh (`ChangeCarried`); a step of a handler keeps its debts or gives
every node up (`HandlerStep`); the reply turns them into the nodes of the regeneration; a
refresh that reads the table replaces its debt by the current list; a lost one or
a crash gives the node up; a write outside the mutex is current or counted
(`OverwriteStep`).

`EnvImplements` uses `EnvInductive` and `TypeOK` as invariants and shows per action that the
source, the copies and the settled nodes move together as a step of Replication allows: a
node becomes settled only in the step that gives it the current list, and after a change of
the table nobody is settled, since the request owes every node a refresh. `RemoteInductive` is the argument of
`EnvInductive` for a copy that is behind a second read of the table: a refresh that has
done the environment file still owes `ovn-remote`, and the debt of a regeneration ends
only with the second write or with the node being given up (`missed` too).

`HeldBack` rests on `UpgradeInductive`: versions never go back (`VersionsGrow`), so an answer is a
lower bound of the version of the member that gave it for as long as the round lasts
(`Rests`), and a round without refusals in which nobody is waited for has an answer of
each member. A leader that decides on such answers is right until it converts, however
many snaps are refreshed meanwhile. Both leave out leaders in `raced`: for them the claim
is wrong (`lost_answer`).

`CertificatesFollowCa` speaks of quiet states as well; `CertInductive` says for every state that
a file in use holds the CA, was given up, or is owed a write (`Owes`). It is inductive together
with `Wellformed`: the types, `HandlersConsistent` (a handler runs for a request that waits for the
node, so its end never forgives another request's debt) and `Shape` (requests that store a CA
or reissue certificates are not enables, and an enable waits for its own node only, so
the certificates an enable owes are those of its service). The proof states once
what a step may do to the files (`FilesFollow`): a new CA is owed to all of them; or one file is
written, and if it is not owed any more and not given up it holds the CA; or nothing is
written and no file stops being owed without being given up. Each action is one of the three
(`StoreFollows`, `WriteCertFollows`, ...). The inductive invariant and the refinement are
both consequences: the three cases are `Change`, `Deliver` or `Overwrite`, and `Unsettle` of
Replication.

`NothingLeft` and `SetupAgrees` speak of a node where no handler is at work; what a handler has done so
far is in `BgpInv`, the inductive invariant. It is a conjunction of facts about single nodes (`NodeKept`),
so that a step is looked at twice: on the node it works on, and on all others, which it reaches through the
logical switches only (`PassiveKept`: they lose all of them and are `struck`, or keep what they
have). `Exclusive` says that two handlers that are at one system at once have marked the node as `dirty`
and do not count as `alone`; it lets the rest speak of one handler. `SetUp` and `Undone` say per
step what a set-up has set up and a tear-down has torn down so far; a set-up
that fails goes to the first step of the tear-down, and for that `Undone` must hold of any state
(`GivesUp`). `Remnants` holds even of disturbed nodes: a bridge, device or mapping that MicroOVN made is tagged,
recorded, in the netplan file, about to be deleted, or `orphaned`. `RollbackClean` and `Rowed` tie both to
the row: a rollback runs on a node that is torn down and not confirmed, and a set-up has its row. `Rests` is
`NothingLeft` and `SetupAgrees` with the gap between the row and the first command of the
set-up. Of the request that is served, `RequestsKept` has what the choice of options ensures: they name an interface or a
bridge, or nothing (`Valid`). `AsnsUnique` needs `AsnKept` only: the number in `bird.conf` is the one of the node, and
ids that do not exceed the size of the range have different remainders (`AsnInjective`).

`KeysMatch` follows from `KeysKept`, which has a reason for every pair of files at every moment: two requests wrote
them at once (`collided`), or at most one handler is at them, the certificate it has written is its own until it writes
the key, and what a handler leaves belongs together or was given up.

The three theorems about `serial` share the hypothesis `Serial(r)`: there is one request slot, no fault
happens, and the nodes are finitely many, as in every cluster (quorums count them). `MaxIssued` stays any bound. What holds in between is `SerialKept`. `FlowKept` keeps
what the request read: with one request nothing changes the table behind its back, so its view is still true when
it writes, counts or clusters. `HooksKept` says that a refresh runs for this request only, and that it starts
`ovn-northd` only where central is enabled. `AppsKept` lets the snap services differ from the table for
one service on one node, and only between the change of the table and the command that follows from it.
`DbKept` says per step who has a database of which cluster: the central nodes are exactly the servers of one
cluster, but for the node that joins (`Joins`) or leaves (`Departing`). A wait for a server to join or to be
removed is in vain only where raft has no quorum (`CanJoin`, `CanDepart`), and it has one, since every server runs. `DataStays` and
`DataSteps` show that no step but the `cluster/leave` of a disable takes the last copy away, `LeaveConfirmed` that
the node which leaves is then the only one in the view on which the user's confirmation was required.

`MembersFollow` is about quiet states, `CentralsBounded` and `RemovedStops` about steps; what makes them true is in
`MemberInv`, node by node. `LifeKept` ties the step of a hook to the rest of the state: who is a member, that a
refresh runs on nodes that are in or leave, and that a hook which is at a service has one at hand. `CopiesKept`
is the reason why members follow: `Excused` (a refresh is on its way, some other node is to tell, or a fault left the
node out), or `Fresh`, which says per step of a hook or of a refresh that what it read of the addresses is still true.
`MembershipInductive` counts on any step that is still to read, and on any service that is still to come; `Fresh` adds
that a step which reads the central nodes does so while the option is unset, without which what it writes would be
wrong. A change of the table or of the option makes every other node
`Excused` (`JoinActsTell`, `LeaveActsCopies`), the node itself writes its file after the row (`JoinActsOwn`), and for
`ovn-remote` it matters that the chassis comes last among the services (`OrderKept`): no row follows that
another step would have to write. `CountKept` says of a node that counted, and of one that decided, that it knows every
central node, or that there are still too few, unless something it read has changed (`crowded`). `AppsKept`, for runs without
faults, says that a snap service runs only with its row or at the step that stops it, and that Leave has
before it whatever is enabled; nothing joins what leaves, so an empty list means that nothing is left. The actions are
first brought into one form each (`StoreCaMoves`, ...: to which step the hook goes and with what), so that the
invariants need no EXCEPT.

What the databases of different nodes have in common is nowhere written down in the code: whoever starts
one looks for other central nodes in a list read before. Both proofs about them use an *era* (`EraOf`), a set of
nodes of which at most one creates databases, and only while none of the others serves any; all others join one of
the set. It holds all central nodes. An era ends when the table has no central node any more and a new one reads only its own
address; what runs on in the old one is then without a row.

In Membership (`EraInv`) a node has no database before it has its row (`CentralKept`), so that whoever reads the
table later finds it; rows go only with nodes that will not start databases again. In ServiceControl rows
come and go on the same node, and what a node left behind counts: `TwiceKept` is an invariant because there are no
more than two requests. `PairKept` says which nodes they leave alone, so that a node that is touched twice is the only
one (`Only`). `ListsKept` says that a list which a refresh, or an enable of another service, is about to
write over a file differs from the table in the node itself at most, or no database will start there
(`Told`). With three requests it is false, which is the second counterexample above.

`Twice`, that at most two requests are issued and the nodes are finitely many, is the hypothesis of
`TwoRequestsOneDatabase`; that no daemon crashes is one on the behaviour (`DaemonsUp`), and follows from
`MaxFaults = 0` in `NoFaultOneDatabase`.

The assumptions are those of the modules: node and cluster ids are nonzero naturals
and there is at least one, the services are among the three and contain central,
`NoReq` is no request, entry nodes are nodes, members have natural ids, CAs are nonzero
naturals and MicroOVN can generate one, member ids are different nonzero naturals, the AS range has more
than one number and begins above 0, a table that is taken is a table, the user's mapping is no bridge,
the address of the external central node is no node's, users choose among sets of services, the number of central
nodes that is enough and the bounds are naturals.

Every invariant and action property of a passing run is stated by a theorem. Only model-checked:
`RequestsEnd`, `UpgradeHappens`, `LoopsEnd`, `CaRenewed` and `CertRenewed`, since TLAPS does not prove
liveness under fairness.

## Abstractions

- One database for Northbound and Southbound: they get the same commands in the same
  order. That one of the two commands fails alone is not modelled.
- `ovn.central-ips` is unset in ServiceControl, which leaves certificates, ports and protocols out too:
  Membership and Certificates have them.
- A file write is one step; a crash does not tear it.
- `Start` of a node whose dqlite is not open yet is not modelled (it does nothing), and
  activating all services on start is one step.
- A refresh on a member and the request of the receiving member are one request: a
  cancellation cancels both.
- Membership: microcluster itself is atomic (a row is there before the hook runs and goes after Leave,
  with the rows of its services, against the comment in `ovn/leave.go:20-22`);
  the encapsulation address and the BGP part of the hooks are left out, the latter is in Bgp. Requests
  of ServiceControl do not overlap a join.
- Certificates: the flag and the rows that one command of the script reads are one step; handlers of
  other members that a cancelled request started are waited for. `ReissuedCertificates` and `Errors` of
  the reply, which concurrent goroutines write without a lock (`regenerate_ca.go:119-130`), and the nil
  dereference after an error of `enabledOvnServices` (146-150, which `net/http` recovers) change no file.
- Bgp: reading and setting `ovn-bridge-mappings` is one step, ports of switches and routers are part of
  them, the VRF device goes with its router. The match rules for IPv4 and IPv6, the template of BIRD,
  an ASN or a VRF table given by users, and the reply of the fan-out are data. If an interface and a
  bridge are both stored, the bridge wins.

## Not modelled

Command line, paths, logging and version have no state of their own; what the prompts of `init` ask
for is `Choice` in Membership. YAML, certificates' contents, match rules and the detection of a DPU are
data. The migrations of `database/schema.go` run before anything else does. Raft and ovsdb-server are
external: OvnCluster has what the code relies on. `microovn status` asks all members for the schema
they expect and prints the answers: it changes nothing.

## Plan

1. A composition of ServiceControl and Membership: requests for services while nodes join and leave. `EraKept` is
   the same argument in both and would be its core.
2. `NoSplitBrain` for more requests, of which none is slow or rolled back: what bounds the three counterexamples
   leave for users who wait for each other.
