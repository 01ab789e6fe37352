---------------------------- MODULE OvnCluster ----------------------------
(***************************************************************************)
(* The snap services of every node and the clustered OVN database.        *)
(*                                                                         *)
(* microovnd starts and stops snap services with snapctl (src/microovn/    *)
(* snap/snap.go) and drives ovsdb-server through its start script and the  *)
(* "cluster/leave" command.  The Northbound and the Southbound database    *)
(* receive the same commands in the same order everywhere in the code, so  *)
(* one database, "ovsdb", stands for the pair.  What ovsdb-server does     *)
(* with its raft membership is not in the repository: Joined and Departed  *)
(* are the external half of this module.                                   *)
(***************************************************************************)
EXTENDS Integers, FiniteSets, Sequences

CONSTANTS
  Node,      \* ids of the cluster members (core_cluster_members.id)
  Cluster    \* identities an OVN database cluster can be created with

None == 0

ASSUME NodeAssumption == Node \subseteq Nat \ {None} /\ Node # {}
ASSUME ClusterAssumption == Cluster \subseteq Nat \ {None} /\ Cluster # {}

VARIABLES
  apps,      \* apps[n]: snap services of microovn running on node n
  db,        \* db[n]: the database of node n, see Database
  servers    \* servers[c]: raft configuration of database cluster c

clusterVars == <<apps, db, servers>>

App == {"ovsdb", "northd", "chassis", "switch"}

\* "joining" was created by join-cluster and waits for its peer; "left" has
\* been removed from the cluster; file says whether the database file is still
\* at the path the start script looks at.
DatabaseWith(Peer) ==
  [st   : {"none", "joining", "member", "leaving", "left"},
   peer : Peer \cup {None},
   cid  : Cluster \cup {None},
   file : BOOLEAN]

Database == DatabaseWith(Node)

NoDatabase == [st |-> "none", peer |-> None, cid |-> None, file |-> FALSE]
MemberOf(c) == [st |-> "member", peer |-> None, cid |-> c, file |-> TRUE]
Joining(m) == [st |-> "joining", peer |-> m, cid |-> None, file |-> TRUE]

ClusterTypeOK ==
  /\ apps \in [Node -> SUBSET App]
  /\ db \in [Node -> Database]
  /\ servers \in [Cluster -> SUBSET Node]

\* Starting the snap service of that name, as the code does for the others.
AppsOf_ByName(svc) == <<svc>>

\* The snap services behind a MicroOVN service, in the order they are started.
AppsOf(svc) ==
  CASE svc = "central" -> <<"ovsdb", "northd">>
    [] svc = "chassis" -> <<"chassis">>
    [] OTHER           -> <<"switch">>

AppSet(svc) == {AppsOf(svc)[i] : i \in DOMAIN AppsOf(svc)}

---------------------------------------------------------------------------
(* Raft, as far as MicroOVN depends on it.                                 *)

Running(n) == "ovsdb" \in apps[n]

Serving(c) ==
  {n \in servers[c] :
     Running(n) /\ db[n].cid = c /\ db[n].st \in {"member", "leaving"}}

Quorum(c) == 2 * Cardinality(Serving(c)) > Cardinality(servers[c])

\* The state "connected" an ovsdb-client on node n waits for.
Connected(n) ==
  /\ Running(n)
  /\ db[n].st \in {"member", "leaving"}
  /\ Quorum(db[n].cid)

CanJoin(n) ==
  /\ Running(n)
  /\ db[n].st = "joining"
  /\ db[n].peer \in Node
  /\ db[db[n].peer].st = "member"
  /\ Running(db[n].peer)
  /\ Quorum(db[db[n].peer].cid)

CanDepart(n) ==
  /\ Running(n)
  /\ db[n].st = "leaving"
  /\ Quorum(db[n].cid)

\* A joining server is added to its peer's cluster.
Joined(n) ==
  /\ CanJoin(n)
  /\ LET c == db[db[n].peer].cid IN
       /\ db' = [db EXCEPT ![n] = [@ EXCEPT !.st = "member", !.peer = None,
                                            !.cid = c]]
       /\ servers' = [servers EXCEPT ![c] = @ \cup {n}]
  /\ UNCHANGED apps

\* A leaving server is removed from the raft configuration.
Departed(n) ==
  /\ CanDepart(n)
  /\ servers' = [servers EXCEPT ![db[n].cid] = @ \ {n}]
  /\ db' = [db EXCEPT ![n] = [@ EXCEPT !.st = "left", !.cid = None]]
  /\ UNCHANGED apps

---------------------------------------------------------------------------
(* What the daemon does to them.                                           *)

FreeCluster == {c \in Cluster : \A n \in Node : db[n].cid # c}

\* Lines 24-26 of ovn-ovsdb-server-nb.start: a database file that exists is
\* served as it is; otherwise a cluster is joined through the initial host of
\* the environment file, or created when that host is the node itself.
ServerStarted(n, initial) ==
  \/ /\ db[n].st # "none"
     /\ UNCHANGED <<db, servers>>
  \/ /\ db[n].st = "none"
     /\ initial \notin {n, None}
     /\ db' = [db EXCEPT ![n] = Joining(initial)]
     /\ UNCHANGED servers
  \/ /\ db[n].st = "none"
     /\ initial \in {n, None}
     /\ \E c \in FreeCluster :
          /\ \A d \in FreeCluster : c <= d
          /\ db' = [db EXCEPT ![n] = MemberOf(c)]
          /\ servers' = [servers EXCEPT ![c] = {n}]

\* snapctl start of the snap services in started; one that runs is left alone.
SnapStart(n, started, initial) ==
  /\ apps' = [apps EXCEPT ![n] = @ \cup started]
  /\ IF "ovsdb" \in started \ apps[n]
     THEN ServerStarted(n, initial)
     ELSE UNCHANGED <<db, servers>>

\* snapctl stop: a server whose file was moved away leaves nothing behind.
SnapStop(n, stopped) ==
  /\ apps' = [apps EXCEPT ![n] = @ \ stopped]
  /\ db' = IF "ovsdb" \in stopped /\ ~db[n].file
           THEN [db EXCEPT ![n] = NoDatabase]
           ELSE db
  /\ UNCHANGED servers

\* ovn-appctl cluster/leave: refused unless the server is a member.
LeaveCommand(n) ==
  /\ db' = IF Running(n) /\ db[n].st = "member"
           THEN [db EXCEPT ![n] = [@ EXCEPT !.st = "leaving"]]
           ELSE db
  /\ UNCHANGED <<apps, servers>>

\* The database file is renamed to its backup path.
MoveAside(n) ==
  /\ db' = IF Running(n)
           THEN [db EXCEPT ![n] = [@ EXCEPT !.file = FALSE]]
           ELSE [db EXCEPT ![n] = NoDatabase]
  /\ UNCHANGED <<apps, servers>>

\* Some running server holds the cluster's data at its regular path.
HasData == \E n \in Node : Running(n) /\ db[n].st = "member" /\ db[n].file
===========================================================================
