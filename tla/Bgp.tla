-------------------------------- MODULE Bgp --------------------------------
(***************************************************************************)
(* The BGP service: what enabling it sets up on a node, what disabling it  *)
(* tears down, and `microovn setup bgp`, which stores its options in the   *)
(* table `config`, asks the other members whether they have the interface  *)
(* and then enables the service on every member.                           *)
(*                                                                         *)
(* Every command against OVS, OVN, netplan or snapd is a step.  A failed   *)
(* step of the setup is followed by the whole teardown, and the row of the *)
(* service is deleted; a failed step of the teardown is reported and the   *)
(* others go on.  No lock orders two requests on a node.                   *)
(***************************************************************************)
EXTENDS Integers, FiniteSets

CONSTANTS
  Node,        \* cluster members
  Iface,       \* physical interfaces
  UserBridge,  \* OVS bridges that users made
  UserMapping, \* an entry of ovn-bridge-mappings that users made
  Req,         \* slots for requests in flight
  Op,          \* operations of this instance
  Choice,      \* options that users pass in this instance
  FaultKind,   \* faults of this instance: "error", "lost", "cancel", "crash"
  Table,       \* routing tables that may be chosen
  Taken,       \* tables in use by others
  MemberId,    \* MemberId[n]: row id of n in core_cluster_members
  MinAsn, MaxAsn, \* range of AS numbers
  Prefixed,    \* pairs <<n, m>>: the name of m begins with the name of n and "-"
  MaxIssued,   \* bound on requests
  MaxFaults    \* bound on faults

None == 0
Operation == {"enable", "disable", "setup", "tags"}

\* createExternalBridges names the bridge of an interface after it.
Ext(iface) == <<"br", iface>>
Bridge == {Ext(i) : i \in Iface} \cup UserBridge

\* Entries of ovn-bridge-mappings: one per bridge, and one that users made.
Mapping == Bridge \cup {UserMapping}

\* Options of an enable or a setup.
Options == [ifaces : SUBSET Iface, bridges : SUBSET UserBridge, given : BOOLEAN,
            manual : BOOLEAN]

ASSUME MemberAssumption ==
  /\ MemberId \in [Node -> Nat \ {0}]
  /\ \A n, m \in Node : n # m => MemberId[n] # MemberId[m]
ASSUME AsnAssumption == MinAsn \in Nat /\ MaxAsn \in Nat /\ 0 < MinAsn /\ MinAsn < MaxAsn
ASSUME TableAssumption == Table \subseteq Nat \ {None} /\ Taken \subseteq Table
ASSUME InstanceAssumption ==
  /\ Node # {} /\ Op \subseteq Operation /\ Prefixed \subseteq Node \X Node
  /\ Choice \subseteq Options
  /\ UserMapping \notin UserBridge \cup {<<"br", i>> : i \in Iface}
  /\ MaxIssued \in Nat /\ MaxFaults \in Nat

VARIABLES
  rows,     \* nodes with a row for bgp in the table services
  conf,     \* the options of `setup bgp` in the table config
  plugged,  \* plugged[n]: physical interfaces of n
  node,     \* node[n]: what is set up on n
  ask,      \* ask[r]: what request r asks for
  pc,       \* pc[r]: where request r is
  todo,     \* todo[r]: nodes that r still has to ask
  alive,    \* alive[r]: nodes on which the context of r is not cancelled
  work,     \* work[r][n]: the handler of r on n
  dirty,    \* nodes with a setup or teardown that was cut off or disturbed
  orphaned, \* veth devices and mappings that nothing describes any more
  struck,   \* nodes that lost logical switches to another node
  confirmed, \* nodes that a request enabled, and none disabled since
  issued, faults

ghosts == <<dirty, orphaned, struck, confirmed>>
vars == <<rows, conf, plugged, node, ask, pc, todo, alive, work, ghosts, issued,
          faults>>

NoPlan == [table |-> None, bridges |-> {}]
Plan == [table : Table \cup {None}, bridges : SUBSET Bridge]

\* The default configuration of BIRD, or the one of a setup.
DefaultBird == [table |-> None, bridges |-> {}, asn |-> -1]

NodeState ==
  [bird     : BOOLEAN,               \* BIRD runs
   bridges  : SUBSET Bridge,         \* OVS bridges
   tagged   : SUBSET Bridge,         \* ... with the tag microovn-bgp-managed
   mapped   : SUBSET Mapping,        \* ovn-bridge-mappings
   own      : SUBSET Mapping,        \* microovn-bgp-bridge-mapping
   router   : BOOLEAN,               \* the logical router
   table    : Table \cup {None},     \* its VRF table
   switches : SUBSET Bridge,         \* logical switches, for the bridges
   plan     : Plan,                  \* 90-microovn-bgp-veth.yaml
   veths    : SUBSET Bridge,         \* veth pairs
   ports    : SUBSET Bridge,         \* tagged OVS ports, with their redirects
   conf     : [table : Table \cup {None}, bridges : SUBSET Bridge,
               asn : -1..MaxAsn]]    \* bird.conf

NoOptions == [ifaces |-> {}, bridges |-> {}, given |-> FALSE, manual |-> FALSE]

SetupStep == {"start", "table", "bridges", "router", "switches", "vrf", "plan",
              "veth", "ports", "conf"}
TeardownStep == {"stop", "delRouter", "delPlan", "delVeth", "delSwitches",
                 "delBridges", "delPorts", "delMaps", "delOwn", "resetConf"}

Handler ==
  [at    : {"none", "readIface", "readBridge", "check", "row", "env", "done",
             "rollback"}
             \cup SetupStep \cup TeardownStep,
   opts  : Options,
   use   : SUBSET Bridge,            \* bridges of this setup
   left  : SUBSET Bridge,            \* bridges a loop has not come to
   table : Table \cup {None},
   alone : BOOLEAN,                  \* nothing disturbed the teardown so far
   undo  : BOOLEAN]                  \* the teardown belongs to a failed enable

NoWork == [at |-> "none", opts |-> NoOptions, use |-> {}, left |-> {},
           table |-> None, alone |-> TRUE, undo |-> FALSE]

Ask == [op : Operation, node : Node, opts : Options, next : SUBSET UserBridge]

NoAsk == [op |-> "disable", node |-> CHOOSE n \in Node : TRUE, opts |-> NoOptions,
          next |-> {}]

TypeOK ==
  /\ rows \subseteq Node
  /\ conf \in [cluster : BOOLEAN, ifaces : SUBSET Iface, bridges : SUBSET UserBridge]
  /\ plugged \in [Node -> SUBSET Iface]
  /\ node \in [Node -> NodeState]
  /\ ask \in [Req -> Ask]
  /\ pc \in [Req -> {"idle", "flag", "link", "probe", "visit"}]
  /\ todo \in [Req -> SUBSET Node]
  /\ alive \in [Req -> SUBSET Node]
  /\ work \in [Req -> [Node -> Handler]]
  /\ dirty \subseteq Node /\ orphaned \subseteq Node \X {"veth", "mapping"} \X Bridge
  /\ struck \subseteq Node /\ confirmed \subseteq Node
  /\ issued \in 0..MaxIssued /\ faults \in 0..MaxFaults

\* What a node without BGP has: the bridges and the mapping of its users.
Bare(maps) ==
  [bird |-> FALSE, bridges |-> UserBridge, tagged |-> {}, mapped |-> maps,
   own |-> {}, router |-> FALSE, table |-> None, switches |-> {},
   plan |-> NoPlan, veths |-> {}, ports |-> {}, conf |-> DefaultBird]

Init ==
  /\ rows = {}
  /\ conf = [cluster |-> FALSE, ifaces |-> {}, bridges |-> {}]
  /\ \E bare \in SUBSET Node :
       /\ Cardinality(bare) <= 1
       /\ plugged = [n \in Node |-> IF n \in bare THEN {} ELSE Iface]
  /\ \E maps \in SUBSET {UserMapping} : node = [n \in Node |-> Bare(maps)]
  /\ ask = [r \in Req |-> NoAsk]
  /\ pc = [r \in Req |-> "idle"]
  /\ todo = [r \in Req |-> {}]
  /\ alive = [r \in Req |-> {}]
  /\ work = [r \in Req |-> [n \in Node |-> NoWork]]
  /\ dirty = {} /\ orphaned = {} /\ struck = {} /\ confirmed = {}
  /\ issued = 0 /\ faults = 0

Quiet(n) == \A r \in Req : work[r][n].at = "none"
At(r, n, step) == work[r][n].at = step
Goto(r, step) == pc' = [pc EXCEPT ![r] = step]
Step(r, n, next) == work' = [work EXCEPT ![r][n] = next]
Becomes(n, next) == node' = [node EXCEPT ![n] = next]
Alive(r, n) == n \in alive[r]
Fault(kind) == kind \in FaultKind /\ faults < MaxFaults /\ faults' = faults + 1

\* The context is cancelled, or the command fails.
Broken(r, n) == (~Alive(r, n) /\ UNCHANGED faults) \/ Fault("error")

Disables(r) == ask[r].op = "disable"

\* Handlers that change what is set up on n, or are about to delete its row.
Busy(r, n) == work[r][n].at \in SetupStep \cup TeardownStep \cup {"done", "rollback"}

\* Handler r reaches the system of n.  If others are at it, or the row that r
\* made is gone, nothing is certain.
Spoil(r, n, next) ==
  /\ work' = [q \in Req |->
       IF q = r THEN [work[r] EXCEPT ![n] = next]
       ELSE IF Busy(q, n) THEN [work[q] EXCEPT ![n].alone = FALSE]
       ELSE work[q]]
  /\ dirty' = dirty \cup {n}

Enter(r, n, next) ==
  IF (\E q \in Req \ {r} : Busy(q, n)) \/ (~Disables(r) /\ n \notin rows)
  THEN Spoil(r, n, [next EXCEPT !.alone = FALSE])
  ELSE Step(r, n, next) /\ UNCHANGED dirty

\* The handler returns.
Leave(r, n) ==
  /\ todo' = [todo EXCEPT ![r] = @ \ {n}]
  /\ ask' = [ask EXCEPT ![r].next = {}]

Return(r, n) == Step(r, n, NoWork) /\ Leave(r, n)

---------------------------------------------------------------------------
(* Commands.                                                               *)

\* ExtraBgpConfig.Validate: options name an interface or a bridge.
Valid(o) == o.ifaces \cup o.bridges # {}

\* `enable bgp`, with or without options, `disable bgp`, `setup bgp`, and the
\* bridges that users tagged before a bootstrap or a join.
Issue(r) ==
  /\ pc[r] = "idle"
  /\ issued < MaxIssued
  /\ issued' = issued + 1
  /\ \E a \in Ask :
       /\ a.op \in Op
       /\ a.op \in {"enable", "setup"} => a.opts \in Choice
       /\ CASE a.op = "enable" ->
                 /\ a.opts.given <=> Valid(a.opts)
                 /\ a.opts.given \/ ~a.opts.manual
            [] a.op = "setup" ->
                 /\ Cardinality(a.opts.ifaces \cup a.opts.bridges) = 1
                 /\ a.opts.given /\ ~a.opts.manual
            [] OTHER -> a.opts = NoOptions
       /\ a.op = "tags" <=> a.next # {}
       /\ ask' = [ask EXCEPT ![r] = a]
       /\ Goto(r, IF a.op = "setup" THEN "flag" ELSE "visit")
       /\ todo' = [todo EXCEPT ![r] = IF a.op = "setup" THEN {} ELSE {a.node}]
  /\ alive' = [alive EXCEPT ![r] = Node]
  /\ UNCHANGED <<rows, conf, plugged, node, work, ghosts, faults>>

\* setupBgpHandler stores the options, one transaction each ...
StoreFlag(r) ==
  /\ pc[r] = "flag"
  /\ IF Alive(r, ask[r].node)
     THEN conf' = [conf EXCEPT !.cluster = TRUE] /\ Goto(r, "link")
     ELSE UNCHANGED conf /\ Goto(r, "idle")
  /\ UNCHANGED <<rows, plugged, node, ask, todo, alive, work, ghosts, issued, faults>>

StoreLink(r) ==
  LET o == ask[r].opts IN
  /\ pc[r] = "link"
  /\ IF Alive(r, ask[r].node)
     THEN /\ conf' = IF o.ifaces # {} THEN [conf EXCEPT !.ifaces = o.ifaces]
                                      ELSE [conf EXCEPT !.bridges = o.bridges]
          /\ Goto(r, "probe")
          /\ todo' = [todo EXCEPT ![r] = Node \ {ask[r].node}]
     ELSE UNCHANGED <<conf, todo>> /\ Goto(r, "idle")
  /\ UNCHANGED <<rows, plugged, node, ask, alive, work, ghosts, issued, faults>>

\* ... and asks the other members, one after the other, for the interface.
Exists(n, o) == o.ifaces \subseteq plugged[n] /\ o.bridges \subseteq node[n].bridges

Probe(r) ==
  /\ pc[r] = "probe"
  /\ \/ \E n \in todo[r] :
          IF Alive(r, ask[r].node) /\ Exists(n, ask[r].opts)
          THEN todo' = [todo EXCEPT ![r] = @ \ {n}] /\ UNCHANGED pc
          ELSE todo' = [todo EXCEPT ![r] = {}] /\ Goto(r, "idle")
     \/ /\ todo[r] = {}
        /\ todo' = [todo EXCEPT ![r] = Node]
        /\ Goto(r, "visit")
  /\ UNCHANGED <<rows, conf, plugged, node, ask, alive, work, ghosts, issued, faults>>

\* The other members are asked at once; the node that was asked comes last.
MayVisit(r, n) ==
  /\ pc[r] = "visit"
  /\ n \in todo[r]
  /\ At(r, n, "none")
  /\ n = ask[r].node => todo[r] = {n}

Visit(r, n) ==
  /\ MayVisit(r, n)
  /\ Alive(r, n)
  /\ \E b \in IF ask[r].op = "tags" THEN ask[r].next ELSE {None} :
       Step(r, n, [NoWork EXCEPT
         !.at = IF ask[r].op = "setup" THEN "readIface" ELSE "check",
         !.opts = IF ask[r].op = "tags"
                  THEN [NoOptions EXCEPT !.bridges = {b}, !.given = TRUE]
                  ELSE ask[r].opts])
  /\ UNCHANGED <<rows, conf, plugged, node, ask, pc, todo, alive, ghosts, issued, faults>>

Lost(r, n) ==
  /\ MayVisit(r, n)
  /\ (~Alive(r, n) /\ UNCHANGED faults) \/ (n # ask[r].node /\ Fault("lost"))
  /\ todo' = [todo EXCEPT ![r] = @ \ {n}]
  /\ UNCHANGED <<rows, conf, plugged, node, ask, pc, alive, work, ghosts, issued>>

\* EnableBgpOnNodeFromClusterConfig reads interface and bridge separately.
ReadConf(r, n) ==
  LET w == work[r][n] IN
  /\ w.at \in {"readIface", "readBridge"}
  /\ IF ~Alive(r, n)
     THEN Return(r, n)
     ELSE /\ Step(r, n,
               IF w.at = "readIface"
               THEN [w EXCEPT !.at = "readBridge", !.opts.ifaces = conf.ifaces]
               ELSE [w EXCEPT !.at = "check", !.opts.bridges = conf.bridges])
          /\ UNCHANGED <<todo, ask>>
  /\ UNCHANGED <<rows, conf, plugged, node, pc, alive, ghosts, issued, faults>>

End(r) ==
  /\ pc[r] = "visit" /\ todo[r] = {}
  /\ Goto(r, "idle")
  /\ ask' = [ask EXCEPT ![r] = NoAsk]
  /\ alive' = [alive EXCEPT ![r] = {}]
  /\ UNCHANGED <<rows, conf, plugged, node, todo, work, ghosts, issued, faults>>

---------------------------------------------------------------------------
(* The table.                                                              *)

Check(r, n) ==
  /\ At(r, n, "check")
  /\ IF Alive(r, n) /\ (n \in rows <=> Disables(r))
     THEN Step(r, n, [work[r][n] EXCEPT !.at = "row"]) /\ UNCHANGED <<todo, ask>>
     ELSE Return(r, n)
  /\ UNCHANGED <<rows, conf, plugged, node, pc, alive, ghosts, issued, faults>>

\* The row is unique, and it must be there to be deleted.
CreateRow_RollsBack(r, n) ==
  /\ At(r, n, "row") /\ ~Disables(r)
  /\ IF Alive(r, n) /\ n \notin rows
     THEN rows' = rows \cup {n} /\ Step(r, n, [work[r][n] EXCEPT !.at = "env"])
     ELSE UNCHANGED rows /\ Step(r, n, [work[r][n] EXCEPT !.at = "rollback"])
  /\ UNCHANGED <<conf, plugged, node, ask, pc, todo, alive, ghosts, issued, faults>>

CreateRow(r, n) ==
  /\ At(r, n, "row") /\ ~Disables(r)
  /\ IF Alive(r, n) /\ n \notin rows
     THEN /\ rows' = rows \cup {n}
          /\ Step(r, n, [work[r][n] EXCEPT !.at = "env"])
          /\ UNCHANGED <<todo, ask>>
     ELSE Return(r, n) /\ UNCHANGED rows
  /\ UNCHANGED <<conf, plugged, node, pc, alive, ghosts, issued, faults>>

DeleteRow(r, n) ==
  /\ At(r, n, "row") /\ Disables(r)
  /\ IF Alive(r, n) /\ n \in rows
     THEN /\ rows' = rows \ {n}
          /\ confirmed' = confirmed \ {n}
          /\ Enter(r, n, [work[r][n] EXCEPT !.at = "stop"])
          /\ UNCHANGED <<todo, ask>>
     ELSE Return(r, n) /\ UNCHANGED <<rows, confirmed, dirty>>
  /\ UNCHANGED <<conf, plugged, node, pc, alive, orphaned, struck, issued, faults>>

\* GenerateEnvironment: if it fails, the row stays.
GenerateEnvironment(r, n) ==
  /\ At(r, n, "env")
  /\ \/ /\ Alive(r, n)
        /\ Enter(r, n, [work[r][n] EXCEPT !.at = "start"])
        /\ UNCHANGED <<todo, ask, faults>>
     \/ /\ Broken(r, n)
        /\ Spoil(r, n, NoWork)
        /\ Leave(r, n)
  /\ UNCHANGED <<rows, conf, plugged, node, pc, alive, orphaned, struck, confirmed, issued>>

\* The row is deleted by name, whoever made it.
Rollback(r, n) ==
  /\ At(r, n, "rollback")
  /\ rows' = IF Alive(r, n) THEN rows \ {n} ELSE rows
  /\ dirty' = IF Alive(r, n) /\ \A q \in Req \ {r} : ~Busy(q, n) /\ ~At(q, n, "env")
              THEN dirty ELSE dirty \cup {n}
  /\ Return(r, n)
  /\ UNCHANGED <<conf, plugged, node, pc, alive, orphaned, struck, confirmed, issued, faults>>

---------------------------------------------------------------------------
(* The setup, bgp.EnableService.                                           *)

\* A failed step is followed by the whole teardown.
Abort(r, n) ==
  Step(r, n, [NoWork EXCEPT !.at = "stop", !.undo = TRUE,
                            !.alone = \A q \in Req \ {r} : ~Busy(q, n)])

\* The service is enabled.  EnableBgpFromOVSExternalIDs goes on with the next
\* bridge that is tagged.
Succeed(r, n) ==
  LET more == ask[r].next \ work[r][n].opts.bridges IN
  /\ confirmed' = confirmed \cup {n}
  /\ IF more = {}
     THEN Return(r, n)
     ELSE /\ ask' = [ask EXCEPT ![r].next = more]
          /\ \E b \in more :
               Step(r, n, [NoWork EXCEPT !.at = "check", !.opts =
                 [work[r][n].opts EXCEPT !.bridges = {b}]])
          /\ UNCHANGED todo

Fail(r, n) ==
  /\ work[r][n].at \in SetupStep
  /\ Broken(r, n)
  /\ Abort(r, n)
  /\ UNCHANGED <<rows, conf, plugged, node, ask, pc, todo, alive, ghosts, issued>>

\* The options have been validated by now; without options only BIRD is started.
Start(r, n) ==
  LET w == work[r][n] IN
  /\ At(r, n, "start") /\ Alive(r, n)
  /\ Becomes(n, [node[n] EXCEPT !.bird = TRUE])
  /\ IF w.opts.given
     THEN /\ Step(r, n, [w EXCEPT !.at = "table"])
          /\ UNCHANGED <<ask, todo, confirmed>>
     ELSE Succeed(r, n)
  /\ UNCHANGED <<rows, conf, plugged, pc, alive, dirty, orphaned, struck, issued, faults>>

\* findAvailableVrfTableID: the lowest table that is not in use.  Bridges that
\* are given take precedence over interfaces.
UsedTables_Own(n) == {node[n].table, node[n].plan.table}

UsedTables(n) == Taken \cup {node[n].table, node[n].plan.table}

Links(o) == IF o.bridges # {} THEN o.bridges ELSE {Ext(i) : i \in o.ifaces}

ChooseTable(r, n) ==
  LET w == work[r][n]
      free == Table \ UsedTables(n)
  IN
  /\ At(r, n, "table") /\ Alive(r, n)
  /\ IF free = {} THEN Abort(r, n)
     ELSE \E t \in free :
            /\ \A u \in free : t <= u
            /\ Step(r, n, [w EXCEPT !.at = "bridges", !.table = t,
                                    !.use = Links(w.opts), !.left = Links(w.opts)])
  /\ UNCHANGED <<rows, conf, plugged, node, ask, pc, todo, alive, ghosts, issued, faults>>

\* A loop over the bridges: body is the state of the node after bridge b.
Loop(r, n, at, next, body(_), possible(_)) ==
  LET w == work[r][n] IN
  /\ At(r, n, at) /\ Alive(r, n)
  /\ \/ \E b \in w.left :
          \/ /\ possible(b)
             /\ Becomes(n, body(b))
             /\ Step(r, n, [w EXCEPT !.left = @ \ {b}])
          \/ /\ ~possible(b)
             /\ Abort(r, n)
             /\ UNCHANGED node
     \/ /\ w.left = {}
        /\ Step(r, n, [w EXCEPT !.at = next, !.left = w.use])
        /\ UNCHANGED node
  /\ UNCHANGED <<rows, conf, plugged, ask, pc, todo, alive, dirty, struck, confirmed,
                 issued, faults>>

\* createExternalBridges adds a bridge, createBridgeNetworks takes one that is
\* there; both record the whole of ovn-bridge-mappings as MicroOVN's own.
AddMapping_Untagged(n, b) ==
  [node[n] EXCEPT !.bridges = @ \cup {b},
                  !.mapped = @ \cup {b}, !.own = node[n].mapped \cup {b}]

AddMapping(n, b) ==
  [node[n] EXCEPT !.bridges = @ \cup {b}, !.tagged = @ \cup {b},
                  !.mapped = @ \cup {b}, !.own = node[n].mapped \cup {b}]

CreateBridges(r, n) ==
  /\ Loop(r, n, "bridges", "router",
          LAMBDA b : AddMapping(n, b),
          LAMBDA b : IF b \in UserBridge THEN b \in node[n].bridges
                     ELSE b \notin node[n].bridges)
  /\ orphaned' = IF node'[n].own # node[n].own
                 THEN orphaned \ ({n} \X {"mapping"} \X Bridge) ELSE orphaned

\* createExternalNetworks.
CreateRouter(r, n) ==
  /\ At(r, n, "router") /\ Alive(r, n)
  /\ IF node[n].router
     THEN Abort(r, n) /\ UNCHANGED node
     ELSE /\ Becomes(n, [node[n] EXCEPT !.router = TRUE, !.table = None])
          /\ Step(r, n, [work[r][n] EXCEPT !.at = "switches"])
  /\ UNCHANGED <<rows, conf, plugged, ask, pc, todo, alive, ghosts, issued, faults>>

CreateSwitches(r, n) ==
  /\ Loop(r, n, "switches", "vrf",
          LAMBDA b : [node[n] EXCEPT !.switches = @ \cup {b}],
          LAMBDA b : node[n].router /\ b \notin node[n].switches)
  /\ UNCHANGED orphaned

\* createVrf.
CreateVrf(r, n) ==
  /\ At(r, n, "vrf") /\ Alive(r, n)
  /\ IF node[n].router
     THEN /\ Becomes(n, [node[n] EXCEPT !.table = work[r][n].table])
          /\ Step(r, n, [work[r][n] EXCEPT !.at = "plan"])
     ELSE Abort(r, n) /\ UNCHANGED node
  /\ UNCHANGED <<rows, conf, plugged, ask, pc, todo, alive, ghosts, issued, faults>>

\* The VRF and the veth pairs in the netplan file.
NetplanConfig(w) == [table |-> w.table, bridges |-> w.use]

\* generateVeth writes the netplan file ...
WritePlan(r, n) ==
  LET w == work[r][n] IN
  /\ At(r, n, "plan") /\ Alive(r, n)
  /\ Becomes(n, [node[n] EXCEPT !.plan = NetplanConfig(w)])
  /\ orphaned' = orphaned \cup {<<n, "veth", b>> : b \in node[n].veths \ w.use}
  /\ Step(r, n, [w EXCEPT !.at = "veth"])
  /\ UNCHANGED <<rows, conf, plugged, ask, pc, todo, alive, dirty, struck, confirmed,
                 issued, faults>>

\* ... and applies what the file says by now.
ApplyPlan(r, n) ==
  LET planned == node[n].plan.bridges IN
  /\ At(r, n, "veth") /\ Alive(r, n)
  /\ Becomes(n, [node[n] EXCEPT !.veths = @ \cup planned])
  /\ orphaned' = orphaned \ {<<n, "veth", b>> : b \in planned}
  /\ Step(r, n, [work[r][n] EXCEPT !.at = "ports"])
  /\ UNCHANGED <<rows, conf, plugged, ask, pc, todo, alive, dirty, struck, confirmed,
                 issued, faults>>

\* redirectBgp.
RedirectPorts(r, n) ==
  /\ Loop(r, n, "ports", "conf",
          LAMBDA b : [node[n] EXCEPT !.ports = @ \cup {b}],
          LAMBDA b : node[n].router /\ b \in node[n].switches /\ b \in node[n].veths)
  /\ UNCHANGED orphaned

\* generateAsnFromClusterMemberID.
Asn_Unbounded(n) == MinAsn + MemberId[n]

Asn_ShortRange(n) == MinAsn + (MemberId[n] % (MaxAsn - MinAsn)) - 1

Asn(n) == MinAsn + (MemberId[n] % (MaxAsn - MinAsn + 1)) - 1

\* configureBirdBgp, unless the user does it.
Configure(r, n) ==
  LET w == work[r][n] IN
  /\ At(r, n, "conf") /\ Alive(r, n)
  /\ Becomes(n, IF w.opts.manual THEN node[n]
                ELSE [node[n] EXCEPT !.conf =
                        [table |-> w.table, bridges |-> w.use, asn |-> Asn(n)]])
  /\ Succeed(r, n)
  /\ UNCHANGED <<rows, conf, plugged, pc, alive, dirty, orphaned, struck, issued, faults>>

---------------------------------------------------------------------------
(* The teardown, bgp.DisableService: a failed command does not stop it.    *)

\* Step at of the teardown leaves the node in state s.
Teardown(r, n, at, next, s) ==
  /\ At(r, n, at)
  /\ \/ Alive(r, n) /\ Becomes(n, s) /\ UNCHANGED faults
        /\ Step(r, n, [work[r][n] EXCEPT !.at = next])
     \/ Broken(r, n) /\ UNCHANGED node
        /\ Step(r, n, [work[r][n] EXCEPT !.at = next, !.alone = FALSE])
  /\ UNCHANGED <<rows, conf, plugged, ask, pc, todo, alive, dirty, confirmed, issued>>

StopBird(r, n) ==
  /\ Teardown(r, n, "stop", "delRouter", [node[n] EXCEPT !.bird = FALSE])
  /\ UNCHANGED <<orphaned, struck>>

DeleteRouter(r, n) ==
  /\ Teardown(r, n, "delRouter", "delPlan",
              [node[n] EXCEPT !.router = FALSE, !.table = None])
  /\ UNCHANGED <<orphaned, struck>>

\* netplan.Cleanup moves the file away and then deletes the devices it names:
\* if that fails, no file names them any more.
MovePlan(r, n) ==
  LET w == work[r][n] IN
  /\ At(r, n, "delPlan")
  /\ \/ /\ Alive(r, n)
        /\ Becomes(n, [node[n] EXCEPT !.plan = NoPlan])
        /\ Step(r, n, [w EXCEPT !.at = "delVeth", !.left = node[n].plan.bridges])
        /\ UNCHANGED faults
     \/ /\ Broken(r, n)
        /\ Step(r, n, [w EXCEPT !.at = "delSwitches", !.alone = FALSE])
        /\ UNCHANGED node
  /\ UNCHANGED <<rows, conf, plugged, ask, pc, todo, alive, ghosts, issued>>

DeleteVeths(r, n) ==
  LET lost == node[n].veths \cap work[r][n].left IN
  /\ Teardown(r, n, "delVeth", "delSwitches", [node[n] EXCEPT !.veths = @ \ lost])
  /\ orphaned' = IF node'[n] = node[n]
                 THEN orphaned \cup {<<n, "veth", b>> : b \in lost} ELSE orphaned
  /\ UNCHANGED struck

\* The logical switches of all nodes are in one database; a node picks those
\* whose names begin with "ls-<name>-".
Picked(n) == {m \in Node : m = n \/ <<n, m>> \in Prefixed}

DeleteSwitches(r, n) ==
  /\ At(r, n, "delSwitches")
  /\ \/ /\ Alive(r, n)
        /\ node' = [m \in Node |-> IF m \in Picked(n)
                                   THEN [node[m] EXCEPT !.switches = {}] ELSE node[m]]
        /\ struck' = struck \cup {m \in Picked(n) \ {n} : node[m].switches # {}}
        /\ Step(r, n, [work[r][n] EXCEPT !.at = "delBridges"])
        /\ UNCHANGED faults
     \/ /\ Broken(r, n)
        /\ Step(r, n, [work[r][n] EXCEPT !.at = "delBridges", !.alone = FALSE])
        /\ UNCHANGED <<node, struck>>
  /\ UNCHANGED <<rows, conf, plugged, ask, pc, todo, alive, dirty, orphaned, confirmed,
                 issued>>

\* Every tagged bridge, also one that a user made.
DeleteBridges(r, n) ==
  /\ Teardown(r, n, "delBridges", "delPorts",
              [node[n] EXCEPT !.bridges = @ \ node[n].tagged, !.tagged = {}])
  /\ UNCHANGED <<orphaned, struck>>

DeletePorts(r, n) ==
  /\ Teardown(r, n, "delPorts", "delMaps", [node[n] EXCEPT !.ports = {}])
  /\ UNCHANGED <<orphaned, struck>>

\* If ovn-bridge-mappings cannot be read the teardown ends early.
DeleteMappings(r, n) ==
  /\ \/ Teardown(r, n, "delMaps", "delOwn", [node[n] EXCEPT !.mapped = @ \ node[n].own])
     \/ /\ At(r, n, "delMaps") /\ Broken(r, n)
        /\ Step(r, n, [work[r][n] EXCEPT !.at = "done", !.alone = FALSE])
        /\ UNCHANGED <<rows, conf, plugged, node, ask, pc, todo, alive, dirty, confirmed,
                       issued>>
  /\ UNCHANGED <<orphaned, struck>>

\* Without microovn-bgp-bridge-mapping, entries that stay are taken for the user's.
DeleteOwn(r, n) ==
  LET stay == node[n].mapped \cap Bridge IN
  /\ Teardown(r, n, "delOwn", "resetConf", [node[n] EXCEPT !.own = {}])
  /\ orphaned' = IF node'[n].own = {}
                 THEN orphaned \cup {<<n, "mapping", b>> : b \in stay} ELSE orphaned
  /\ UNCHANGED struck

ResetConf(r, n) ==
  /\ Teardown(r, n, "resetConf", "done", [node[n] EXCEPT !.conf = DefaultBird])
  /\ UNCHANGED <<orphaned, struck>>

\* A teardown that nothing failed in and nothing disturbed makes up for all
\* that was left before.
TornDown(r, n) ==
  LET w == work[r][n] IN
  /\ At(r, n, "done")
  /\ dirty' = IF w.alone THEN dirty \ {n} ELSE dirty \cup {n}
  /\ confirmed' = IF w.alone THEN confirmed \ {n} ELSE confirmed
  /\ IF w.undo THEN Step(r, n, [w EXCEPT !.at = "rollback"]) /\ UNCHANGED <<todo, ask>>
               ELSE Return(r, n)
  /\ UNCHANGED <<rows, conf, plugged, node, pc, alive, orphaned, struck, issued, faults>>

---------------------------------------------------------------------------
(* Failures.                                                               *)

\* A client gives up: the context of the whole request, or of one member's part
\* of it, is cancelled, and with it every command it runs.
Cancel(r, N) ==
  /\ pc[r] # "idle" /\ alive[r] \cap N # {}
  /\ Fault("cancel")
  /\ alive' = [alive EXCEPT ![r] = @ \ N]
  /\ UNCHANGED <<rows, conf, plugged, node, ask, pc, todo, work, ghosts, issued>>

\* microovnd on n crashes and is started again.
Crash(n) ==
  LET here(r) == pc[r] # "idle" /\ ask[r].node = n
      cut(r) == here(r) \/ ~At(r, n, "none")
  IN
  /\ \E r \in Req : cut(r)
  /\ Fault("crash")
  /\ work' = [r \in Req |-> [work[r] EXCEPT ![n] = NoWork]]
  /\ alive' = [r \in Req |-> IF here(r) THEN {} ELSE alive[r]]
  /\ todo' = [r \in Req |-> IF here(r) /\ pc[r] # "visit" THEN {}
                            ELSE IF cut(r) THEN todo[r] \ {n} ELSE todo[r]]
  /\ pc' = [r \in Req |-> IF here(r) /\ pc[r] # "visit" THEN "idle" ELSE pc[r]]
  /\ dirty' = IF \E r \in Req : Busy(r, n) \/ At(r, n, "env")
              THEN dirty \cup {n} ELSE dirty
  /\ orphaned' = orphaned \cup
       {<<n, "veth", b>> : b \in UNION {node[n].veths \cap work[r][n].left :
                                        r \in {q \in Req : At(q, n, "delVeth")}}}
  /\ UNCHANGED <<rows, conf, plugged, node, ask, struck, confirmed, issued>>

---------------------------------------------------------------------------

SetupActs(r, n) ==
  \/ Start(r, n) \/ ChooseTable(r, n) \/ CreateBridges(r, n) \/ CreateRouter(r, n)
  \/ CreateSwitches(r, n) \/ CreateVrf(r, n) \/ WritePlan(r, n) \/ ApplyPlan(r, n)
  \/ RedirectPorts(r, n) \/ Configure(r, n) \/ Fail(r, n)

TeardownActs(r, n) ==
  \/ StopBird(r, n) \/ DeleteRouter(r, n) \/ MovePlan(r, n) \/ DeleteVeths(r, n)
  \/ DeleteSwitches(r, n) \/ DeleteBridges(r, n) \/ DeletePorts(r, n)
  \/ DeleteMappings(r, n) \/ DeleteOwn(r, n) \/ ResetConf(r, n) \/ TornDown(r, n)

HandlerStep(r, n) ==
  \/ Visit(r, n) \/ Lost(r, n) \/ ReadConf(r, n) \/ Check(r, n) \/ CreateRow(r, n)
  \/ DeleteRow(r, n) \/ GenerateEnvironment(r, n) \/ Rollback(r, n)
  \/ SetupActs(r, n) \/ TeardownActs(r, n)

RequestStep(r) == StoreFlag(r) \/ StoreLink(r) \/ Probe(r) \/ End(r)

Idle == (\A r \in Req : pc[r] = "idle") /\ issued = MaxIssued /\ UNCHANGED vars

Next ==
  \/ \E r \in Req : Issue(r) \/ RequestStep(r) \/ Cancel(r, Node)
  \/ \E r \in Req, n \in Node : HandlerStep(r, n) \/ Cancel(r, {n})
  \/ \E n \in Node : Crash(n)
  \/ Idle

Spec == Init /\ [][Next]_vars

---------------------------------------------------------------------------
(* Correctness.                                                            *)

\* What MicroOVN set up on n is gone.
TornDownState(n) ==
  LET s == node[n] IN
  /\ ~s.bird /\ ~s.router /\ s.table = None
  /\ s.bridges \subseteq UserBridge /\ s.tagged = {} /\ s.own = {}
  /\ s.switches = {} /\ s.ports = {}
  /\ s.plan = NoPlan /\ s.conf = DefaultBird
  /\ \A b \in s.veths : <<n, "veth", b>> \in orphaned
  /\ \A b \in s.mapped \cap Bridge : <<n, "mapping", b>> \in orphaned

\* On a node without the service nothing of it is left once the handlers are
\* done, however often it was enabled, failed or disabled before: a teardown
\* that runs alone to its end makes up for every earlier one that did not,
\* except for veth devices and mappings that it can no longer recognise.
NothingLeft ==
  \A n \in Node : Quiet(n) /\ n \notin rows /\ n \notin dirty => TornDownState(n)

\* On a node with the service its parts agree once the handlers are done: one
\* routing table, not in use by others, in router, netplan and BIRD, and a
\* switch, a device and a port for every bridge.
Agrees(n) ==
  LET s == node[n] IN
  /\ s.bird
  /\ IF s.router
     THEN /\ s.table = s.plan.table /\ s.table \notin Taken \cup {None}
          /\ s.plan.bridges # {}
          /\ s.plan.bridges \subseteq s.bridges \cap s.tagged \cap s.mapped \cap s.own
          /\ s.plan.bridges = s.switches \/ n \in struck
          /\ s.plan.bridges \subseteq s.veths /\ s.plan.bridges = s.ports
          /\ s.conf # DefaultBird =>
               s.conf.table = s.table /\ s.conf.bridges = s.plan.bridges
     ELSE s.plan = NoPlan /\ s.conf = DefaultBird

SetupAgrees ==
  \A n \in Node : Quiet(n) /\ n \in rows /\ n \notin dirty => Agrees(n)

\* A node that a request enabled has its row until somebody disables it, unless
\* two requests got in each other's way.
ConfirmedStays == confirmed \subseteq rows \cup dirty

\* BIRD speaks with different AS numbers on different nodes while the member
\* ids do not exceed the size of the range.
AsnUnique ==
  (\A n \in Node : MemberId[n] <= MaxAsn - MinAsn + 1) =>
    \A n, m \in Node :
      n # m /\ node[n].conf # DefaultBird /\ node[m].conf # DefaultBird =>
        node[n].conf.asn # node[m].conf.asn

---------------------------------------------------------------------------
(* What comments and documentation say.                                    *)

\* "Other OVN resources remain untouched": the bridges and the mapping of a user.
UserResourcesStay ==
  [][\A n \in Node :
       /\ node[n].bridges \cap UserBridge \subseteq node'[n].bridges
       /\ UserMapping \in node[n].mapped => UserMapping \in node'[n].mapped]_vars

\* "Remove only those switches that are related to the local chassis".
OwnSwitchesOnly == struck = {}

\* "generates a unique ASN within the specified range".
AsnInRange ==
  \A n \in Node : node[n].conf # DefaultBird =>
    node[n].conf.asn \in MinAsn..MaxAsn
===========================================================================
