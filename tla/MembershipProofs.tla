-------------------------- MODULE MembershipProofs -------------------------
(***************************************************************************)
(* What holds while nodes bootstrap, join and leave: of every set of       *)
(* nodes, of what users ask for, changes of the option, removals, faults.  *)
(*                                                                         *)
(* MemberInv is what a step keeps, and says five things of a node.         *)
(*   LifeKept    the step of a hook tells who is a member, what is at hand *)
(*   OrderKept   a hook that joins enables the chassis last                *)
(*   CountKept   a node that chose to have central, and read nothing that  *)
(*               changed since, chose it for want of central nodes         *)
(*   CopiesKept  a node that no refresh is on its way to has read, or is   *)
(*               still to read, the addresses as they are                  *)
(*   AppsKept    snap services run that have a row (when nothing failed)   *)
(* EraInv, which rests on it, is about central nodes and their databases.  *)
(*   EraKept     the central nodes are of one era: a set of nodes of which *)
(*               the first creates a database, which the others join       *)
(*   CentralKept a node has no database before it has the row of central   *)
(* Each is kept action by action: those of a node that joins, of one that  *)
(* leaves, of a refresh, and the others, which touch no hook.              *)
(***************************************************************************)
EXTENDS Membership, FiniteSetTheorems, TLAPS

---------------------------------------------------------------------------
(* Operators of the model.                                                 *)

\* What a hook enables: services that were asked for, the chassis last.
LEMMA PlanFacts ==
  ASSUME NEW S
  PROVE  /\ Plan(S) \in Seq(Service)
         /\ \A i \in 1..Len(Plan(S)) : Plan(S)[i] \in S \cap Service
         /\ \A i \in 1..(Len(Plan(S)) - 1) : Plan(S)[i] # "chassis"
<1> DEFINE a == Requested("switch", S)
           b == Requested("central", S)
           c == Requested("chassis", S)
<1>1. /\ a \in Seq(Service) /\ b \in Seq(Service) /\ c \in Seq(Service)
      /\ (a = <<"switch">> /\ "switch" \in S \cap Service) \/ a = <<>>
      /\ (b = <<"central">> /\ "central" \in S \cap Service) \/ b = <<>>
      /\ (c = <<"chassis">> /\ "chassis" \in S \cap Service) \/ c = <<>>
  BY DEF Requested
<1>2. Plan(S) = a \o b \o c
  BY DEF Plan
<1>3. Len(a) \in 0..1 /\ Len(b) \in 0..1 /\ Len(c) \in 0..1
  BY <1>1
<1> HIDE DEF a, b, c
<1>4. Plan(S) \in Seq(Service)
  BY <1>1, <1>2
<1>5. \A i \in 1..Len(Plan(S)) : Plan(S)[i] \in S \cap Service
  BY <1>1, <1>2, <1>3, SMTT(20)
<1>6. \A i \in 1..(Len(Plan(S)) - 1) : Plan(S)[i] # "chassis"
  <2> DEFINE p == a \o b
  <2>1. p \in Seq(Service) /\ \A i \in 1..Len(p) : p[i] # "chassis"
    BY <1>1
  <2>2. Plan(S) = p \o c
    BY <1>2
  <2>3. c \in Seq(Service) /\ Len(c) \in 0..1
    BY <1>1, <1>3
  <2> HIDE DEF p
  <2>4. Len(p) \in Nat /\ Len(Plan(S)) = Len(p) + Len(c)
    BY <2>1, <2>2, <2>3
  <2>5. \A i \in 1..Len(p) : Plan(S)[i] = p[i]
    BY <2>1, <2>2, <2>3
  <2> DEFINE k == Len(p)
             l == Len(Plan(S))
             h == Len(c)
  <2>6. k \in Nat /\ h \in 0..1 /\ l = k + h
    BY <2>3, <2>4
  <2> HIDE DEF k, l, h
  <2>7. \A i \in 1..(l - 1) : i \in 1..k
    BY <2>6
  <2> QED BY <2>1, <2>5, <2>7 DEF k, l
<1> QED BY <1>4, <1>5, <1>6

\* The first element of a nonempty set of ids is an element of it.
LEMMA FirstOfType ==
  ASSUME NEW S, S \subseteq Nat, S # {}
  PROVE  FirstOf(S) \in S
<1> DEFINE T == {0..x : x \in S}
<1>1. T \subseteq FiniteSubsetsOf(Nat) /\ T # {}
  <2>1. \A x \in S : IsFiniteSet(0..x) /\ 0..x \subseteq Nat
    BY FS_Interval
  <2> QED BY <2>1 DEF FiniteSubsetsOf
<1>2. PICK U \in T : \A V \in T : <<V, U>> \notin StrictSubsetOrdering(Nat)
  <2>1. IsWellFoundedOn(StrictSubsetOrdering(Nat), FiniteSubsetsOf(Nat))
    BY FS_StrictSubsetOrderingWellFounded
  <2> HIDE DEF T
  <2> QED BY <1>1, <2>1, WFMin, Zenon
<1>3. PICK x \in S : U = 0..x
  OBVIOUS
<1>4. \A y \in S : x <= y
  <2> SUFFICES ASSUME NEW y \in S, y < x PROVE FALSE
    OBVIOUS
  <2>1. 0..y \in T
    OBVIOUS
  <2>2. 0..y \subseteq 0..x /\ 0..y # 0..x
    <3>1. x \in 0..x /\ x \notin 0..y
      OBVIOUS
    <3> QED BY <3>1
  <2>3. 0..y \in SUBSET Nat /\ 0..x \in SUBSET Nat
    OBVIOUS
  <2>4. <<0..y, 0..x>> \in StrictSubsetOrdering(Nat)
    BY <2>2, <2>3, Zenon DEF StrictSubsetOrdering
  <2> QED BY <1>2, <1>3, <2>1, <2>4
<1> QED BY <1>4 DEF FirstOf

\* The initial host is an address or nobody.
LEMMA InitialHostType ==
  ASSUME NEW n \in Node, NEW C \in SUBSET Address
  PROVE  InitialHost(n, C) \in Address \cup {None}
<1>1. Address \subseteq Nat
  BY NodeAssumption, ExternalAssumption DEF Address
<1>2. \A S \in SUBSET Address : S # {} => FirstOf(S) \in Address
  BY <1>1, FirstOfType
<1>3. Cardinality(C) = 1 => C # {}
  BY FS_EmptySet
<1> QED BY <1>2, <1>3 DEF InitialHost

\* Only snap services of microovn are started for a service.
LEMMA AppSetValue ==
  ASSUME NEW svc
  PROVE  /\ AppSet(svc) \subseteq App
         /\ svc = "central" => AppSet(svc) = {"ovsdb", "northd"}
         /\ svc = "chassis" => AppSet(svc) = {"chassis"}
         /\ svc \notin {"central", "chassis"} => AppSet(svc) = {"switch"}
<1>1. svc = "central" => AppSet(svc) = {"ovsdb", "northd"}
  BY DEF AppSet, AppsOf
<1>2. svc = "chassis" => AppSet(svc) = {"chassis"}
  BY DEF AppSet, AppsOf
<1>3. svc \notin {"central", "chassis"} => AppSet(svc) = {"switch"}
  BY DEF AppSet, AppsOf
<1> QED BY <1>1, <1>2, <1>3 DEF App

---------------------------------------------------------------------------
(* The inductive invariant.                                                *)

\* Steps that have a service at hand.
ServiceStep ==
  {"start", "listen", "rollback", "remoteOpt", "remoteRead", "remoteSet"}
    \cup (LeaveStep \ {"leave"})
CentralStep == {"listen", "last", "quit", "wait", "rename"}
\* Steps that write the environment file.
GenerateStep == {"gen", "read", "write"}

\* A hook runs on members, a refresh on those that no hook but Leave runs on.
LifeKept(n) ==
  LET l == life[n] IN
  /\ n \in members <=> l.at \notin {"out", "gone"}
  /\ rf[n].at # "none" => In(n) \/ Leaves(n)
  /\ At(n, "out") => ~l.boot
  /\ Joins(n) /\ l.boot => members = {n}
  /\ l.at \in ServiceStep => l.plan # <<>>
  /\ l.at \in GenerateStep /\ l.next = "start" => l.plan # <<>>
  /\ l.at \in CentralStep => Svc(n) = "central"

---------------------------------------------------------------------------
(* Types.                                                                  *)

\* Database servers, and the files they keep.
ServersType ==
  servers \in [Cluster -> SUBSET Node] /\ db \in [Node -> DatabaseWith(Address)]
\* ... and the snap services.
ClusterType == apps \in [Node -> SUBSET App] /\ ServersType

\* A server that starts.
LEMMA ServerStartedType ==
  ASSUME ServersType, NEW n \in Node, NEW initial \in Address \cup {None},
         ServerStarted(n, initial)
  PROVE  ServersType'
<1>1. Joining(initial) \in DatabaseWith(Address)
  BY DEF Joining, DatabaseWith
<1>2. \A c \in FreeCluster : MemberOf(c) \in DatabaseWith(Address)
  BY DEF FreeCluster, MemberOf, DatabaseWith
<1>3. CASE db' = [db EXCEPT ![n] = Joining(initial)] /\ UNCHANGED servers
  BY <1>1, <1>3 DEF ServersType
<1>4. CASE \E c \in FreeCluster :
             db' = [db EXCEPT ![n] = MemberOf(c)] /\ servers' = [servers EXCEPT ![c] = {n}]
  <2>1. PICK c \in FreeCluster :
          db' = [db EXCEPT ![n] = MemberOf(c)] /\ servers' = [servers EXCEPT ![c] = {n}]
    BY <1>4
  <2>2. MemberOf(c) \in DatabaseWith(Address) /\ {n} \in SUBSET Node
    BY <1>2
  <2> QED BY <2>1, <2>2 DEF ServersType
<1>5. CASE UNCHANGED <<db, servers>>
  BY <1>5 DEF ServersType
<1> QED BY <1>3, <1>4, <1>5 DEF ServerStarted

\* Snap services and databases keep their types.
LEMMA ClusterStepType ==
  ASSUME ClusterType, NEW n \in Node, env[n] \in SUBSET Address,
         \/ \E svc \in Service : SnapStart(n, AppSet(svc), InitialHost(n, env[n]))
         \/ \E svc \in Service : SnapStop(n, AppSet(svc))
         \/ LeaveCommand(n) \/ MoveAside(n) \/ Joined(n) \/ Departed(n)
         \/ UNCHANGED clusterVars
  PROVE  ClusterType'
<1>1. InitialHost(n, env[n]) \in Address \cup {None}
  BY InitialHostType
<1>2. \A svc : AppSet(svc) \subseteq App
  BY AppSetValue
<1>3. NoDatabase \in DatabaseWith(Address)
  BY DEF NoDatabase, DatabaseWith
<1>4. db[n] \in DatabaseWith(Address)
  BY DEF ClusterType, ServersType
<1>5. CASE \E svc \in Service : SnapStart(n, AppSet(svc), InitialHost(n, env[n]))
  <2>1. PICK svc \in Service : SnapStart(n, AppSet(svc), InitialHost(n, env[n]))
    BY <1>5
  <2>2. apps' \in [Node -> SUBSET App]
    BY <1>2, <2>1 DEF SnapStart, ClusterType
  <2>3. CASE ServerStarted(n, InitialHost(n, env[n]))
    BY <1>1, <2>2, <2>3, ServerStartedType DEF ClusterType
  <2>4. CASE UNCHANGED <<db, servers>>
    BY <2>2, <2>4 DEF ClusterType, ServersType
  <2> QED BY <2>1, <2>3, <2>4 DEF SnapStart
<1>6. CASE \E svc \in Service : SnapStop(n, AppSet(svc))
  BY <1>3, <1>6 DEF SnapStop, ClusterType, ServersType
<1>7. CASE LeaveCommand(n)
  BY <1>4, <1>7 DEF LeaveCommand, ClusterType, ServersType, DatabaseWith
<1>8. CASE MoveAside(n)
  BY <1>3, <1>4, <1>8 DEF MoveAside, ClusterType, ServersType, DatabaseWith
<1>9. CASE Joined(n)
  <2>1. db[n].peer \in Node
    BY <1>9 DEF Joined, CanJoin
  <2>2. db[db[n].peer].cid \in Cluster \cup {None}
    BY <2>1 DEF ClusterType, ServersType, DatabaseWith
  <2> QED BY <1>4, <1>9, <2>2 DEF Joined, ClusterType, ServersType, DatabaseWith
<1>10. CASE Departed(n)
  BY <1>4, <1>10 DEF Departed, ClusterType, ServersType, DatabaseWith
<1>11. CASE UNCHANGED clusterVars
  BY <1>11 DEF clusterVars, ClusterType, ServersType
<1> QED BY <1>5, <1>6, <1>7, <1>8, <1>9, <1>10, <1>11

---------------------------------------------------------------------------
(* What a step does to the hook of a node.                                 *)

\* The services of a node that leaves.
LEMMA DisableAllType ==
  /\ DisableAll \in Seq(Service)
  /\ \A svc \in {"chassis", "switch"} :
       svc \in Service => \E i \in 1..Len(DisableAll) : DisableAll[i] = svc
<1> DEFINE a == Requested("chassis", Service)
           b == Requested("central", Service)
           c == Requested("switch", Service)
<1>1. /\ a \in Seq(Service) /\ b \in Seq(Service) /\ c \in Seq(Service)
      /\ IF "chassis" \in Service THEN a = <<"chassis">> ELSE a = <<>>
      /\ b = <<"central">>
      /\ IF "switch" \in Service THEN c = <<"switch">> ELSE c = <<>>
  BY ServiceAssumption DEF Requested
<1>2. DisableAll = a \o b \o c
  BY DEF DisableAll
<1> HIDE DEF a, b, c
<1>3. DisableAll \in Seq(Service)
  BY <1>1, <1>2
<1>4. "chassis" \in Service => DisableAll[1] = "chassis" /\ 1 \in 1..Len(DisableAll)
  BY <1>1, <1>2
<1>5. ASSUME "switch" \in Service
      PROVE  \E i \in 1..Len(DisableAll) : DisableAll[i] = "switch"
  <2> DEFINE k == Len(a) + Len(b) + 1
  <2>1. c = <<"switch">>
    BY <1>1, <1>5
  <2>2. k \in 1..Len(DisableAll) /\ DisableAll[k] = "switch"
    BY <1>1, <1>2, <2>1
  <2> QED BY <2>2
<1> QED BY <1>3, <1>4, <1>5

\* The hook of n goes on to step at.
Becomes(n, at, seen, plan, next, view) ==
  /\ life' \in [Node -> Life]
  /\ \A m \in Node \ {n} : life'[m] = life[m]
  /\ life'[n].at = at /\ life'[n].boot = life[n].boot /\ life'[n].ask = life[n].ask
  /\ life'[n].seen = seen /\ life'[n].plan = plan /\ life'[n].next = next
  /\ life'[n].view = view

\* Hooks are of their type.
LEMMA LifeIn == TypeOK => life \in [Node -> Life]
BY DEF TypeOK

\* The fields of a hook.
LEMMA LifeFields ==
  ASSUME TypeOK, NEW n \in Node
  PROVE  /\ life[n].at \in HookStep
         /\ life[n].boot \in BOOLEAN /\ life[n].ask \in Wanted
         /\ life[n].seen \in SUBSET Node /\ life[n].plan \in Seq(Service)
         /\ life[n].next \in {"client", "start", "service", "relisten"}
         /\ life[n].view \in SUBSET Address
BY LifeIn DEF Life

\* Steps of hooks.
LEMMA Steps ==
  /\ {"out", "in", "failed", "gone"} \cup JoinStep \cup LeaveStep \subseteq HookStep
BY DEF HookStep

\* The tail of the services that are left.
LEMMA TailType ==
  ASSUME TypeOK, NEW n \in Node, life[n].plan # <<>>
  PROVE  Tail(life[n].plan) \in Seq(Service)
BY LifeFields

\* The assignments that occur.
LEMMA AtMoves ==
  ASSUME TypeOK, NEW n \in Node, NEW at \in HookStep,
         life' = [life EXCEPT ![n].at = at]
  PROVE  Becomes(n, at, life[n].seen, life[n].plan, life[n].next, life[n].view)
<1> DEFINE k == [life[n] EXCEPT !.at = at]
<1>1. life[n] \in Life
  BY LifeIn
<1>2. k \in Life
  BY <1>1 DEF Life
<1>3. /\ k.at = at /\ k.boot = life[n].boot /\ k.ask = life[n].ask /\ k.seen = life[n].seen
      /\ k.plan = life[n].plan /\ k.next = life[n].next /\ k.view = life[n].view
  BY <1>1 DEF Life
<1>4. life' = [life EXCEPT ![n] = k]
  OBVIOUS
<1> HIDE DEF k
<1>5. life' \in [Node -> Life] /\ life'[n] = k /\ \A m \in Node \ {n} : life'[m] = life[m]
  BY <1>2, <1>4, LifeIn
<1> QED BY <1>3, <1>5 DEF Becomes

\* ... to the next step, with the central nodes that were counted.
LEMMA AtSeenMoves ==
  ASSUME TypeOK, NEW n \in Node, NEW at \in HookStep, NEW seen \in SUBSET Node,
         life' = [life EXCEPT ![n].at = at, ![n].seen = seen]
  PROVE  Becomes(n, at, seen, life[n].plan, life[n].next, life[n].view)
<1> DEFINE k == [life[n] EXCEPT !.at = at, !.seen = seen]
<1>1. life[n] \in Life
  BY LifeIn
<1>2. k \in Life
  BY <1>1 DEF Life
<1>3. /\ k.at = at /\ k.boot = life[n].boot /\ k.ask = life[n].ask /\ k.seen = seen
      /\ k.plan = life[n].plan /\ k.next = life[n].next /\ k.view = life[n].view
  BY <1>1 DEF Life
<1>4. life' = [life EXCEPT ![n] = k]
  OBVIOUS
<1> HIDE DEF k
<1>5. life' \in [Node -> Life] /\ life'[n] = k /\ \A m \in Node \ {n} : life'[m] = life[m]
  BY <1>2, <1>4, LifeIn
<1> QED BY <1>3, <1>5 DEF Becomes

\* ... to the next step, with the services to enable.
LEMMA AtNextPlanMoves ==
  ASSUME TypeOK, NEW n \in Node, NEW at \in HookStep,
         NEW next \in {"client", "start", "service", "relisten"}, NEW plan \in Seq(Service),
         life' = [life EXCEPT ![n].at = at, ![n].next = next, ![n].plan = plan]
  PROVE  Becomes(n, at, life[n].seen, plan, next, life[n].view)
<1> DEFINE k == [life[n] EXCEPT !.at = at, !.next = next, !.plan = plan]
<1>1. life[n] \in Life
  BY LifeIn
<1>2. k \in Life
  BY <1>1 DEF Life
<1>3. /\ k.at = at /\ k.boot = life[n].boot /\ k.ask = life[n].ask /\ k.seen = life[n].seen
      /\ k.plan = plan /\ k.next = next /\ k.view = life[n].view
  BY <1>1 DEF Life
<1>4. life' = [life EXCEPT ![n] = k]
  OBVIOUS
<1> HIDE DEF k
<1>5. life' \in [Node -> Life] /\ life'[n] = k /\ \A m \in Node \ {n} : life'[m] = life[m]
  BY <1>2, <1>4, LifeIn
<1> QED BY <1>3, <1>5 DEF Becomes

\* ... to the next step, with the addresses that were read.
LEMMA AtViewMoves ==
  ASSUME TypeOK, NEW n \in Node, NEW at \in HookStep, NEW view \in SUBSET Address,
         life' = [life EXCEPT ![n].at = at, ![n].view = view]
  PROVE  Becomes(n, at, life[n].seen, life[n].plan, life[n].next, view)
<1> DEFINE k == [life[n] EXCEPT !.at = at, !.view = view]
<1>1. life[n] \in Life
  BY LifeIn
<1>2. k \in Life
  BY <1>1 DEF Life
<1>3. /\ k.at = at /\ k.boot = life[n].boot /\ k.ask = life[n].ask /\ k.seen = life[n].seen
      /\ k.plan = life[n].plan /\ k.next = life[n].next /\ k.view = view
  BY <1>1 DEF Life
<1>4. life' = [life EXCEPT ![n] = k]
  OBVIOUS
<1> HIDE DEF k
<1>5. life' \in [Node -> Life] /\ life'[n] = k /\ \A m \in Node \ {n} : life'[m] = life[m]
  BY <1>2, <1>4, LifeIn
<1> QED BY <1>3, <1>5 DEF Becomes

\* ... to the next step, with the one that follows it.
LEMMA AtNextMoves ==
  ASSUME TypeOK, NEW n \in Node, NEW at \in HookStep,
         NEW next \in {"client", "start", "service", "relisten"},
         life' = [life EXCEPT ![n].at = at, ![n].next = next]
  PROVE  Becomes(n, at, life[n].seen, life[n].plan, next, life[n].view)
<1> DEFINE k == [life[n] EXCEPT !.at = at, !.next = next]
<1>1. life[n] \in Life
  BY LifeIn
<1>2. k \in Life
  BY <1>1 DEF Life
<1>3. /\ k.at = at /\ k.boot = life[n].boot /\ k.ask = life[n].ask /\ k.seen = life[n].seen
      /\ k.plan = life[n].plan /\ k.next = next /\ k.view = life[n].view
  BY <1>1 DEF Life
<1>4. life' = [life EXCEPT ![n] = k]
  OBVIOUS
<1> HIDE DEF k
<1>5. life' \in [Node -> Life] /\ life'[n] = k /\ \A m \in Node \ {n} : life'[m] = life[m]
  BY <1>2, <1>4, LifeIn
<1> QED BY <1>3, <1>5 DEF Becomes

\* ... to the next step, done with a service.
LEMMA AtPlanMoves ==
  ASSUME TypeOK, NEW n \in Node, NEW at \in HookStep, NEW plan \in Seq(Service),
         life' = [life EXCEPT ![n].at = at, ![n].plan = plan]
  PROVE  Becomes(n, at, life[n].seen, plan, life[n].next, life[n].view)
<1> DEFINE k == [life[n] EXCEPT !.at = at, !.plan = plan]
<1>1. life[n] \in Life
  BY LifeIn
<1>2. k \in Life
  BY <1>1 DEF Life
<1>3. /\ k.at = at /\ k.boot = life[n].boot /\ k.ask = life[n].ask /\ k.seen = life[n].seen
      /\ k.plan = plan /\ k.next = life[n].next /\ k.view = life[n].view
  BY <1>1 DEF Life
<1>4. life' = [life EXCEPT ![n] = k]
  OBVIOUS
<1> HIDE DEF k
<1>5. life' \in [Node -> Life] /\ life'[n] = k /\ \A m \in Node \ {n} : life'[m] = life[m]
  BY <1>2, <1>4, LifeIn
<1> QED BY <1>3, <1>5 DEF Becomes

\* ... to the next step and the one that follows it, done with a service.
LEMMA AtPlanNextMoves ==
  ASSUME TypeOK, NEW n \in Node, NEW at \in HookStep, NEW plan \in Seq(Service),
         NEW next \in {"client", "start", "service", "relisten"},
         life' = [life EXCEPT ![n].at = at, ![n].plan = plan, ![n].next = next]
  PROVE  Becomes(n, at, life[n].seen, plan, next, life[n].view)
<1> DEFINE k == [life[n] EXCEPT !.at = at, !.plan = plan, !.next = next]
<1>1. life[n] \in Life
  BY LifeIn
<1>2. k \in Life
  BY <1>1 DEF Life
<1>3. /\ k.at = at /\ k.boot = life[n].boot /\ k.ask = life[n].ask /\ k.seen = life[n].seen
      /\ k.plan = plan /\ k.next = next /\ k.view = life[n].view
  BY <1>1 DEF Life
<1>4. life' = [life EXCEPT ![n] = k]
  OBVIOUS
<1> HIDE DEF k
<1>5. life' \in [Node -> Life] /\ life'[n] = k /\ \A m \in Node \ {n} : life'[m] = life[m]
  BY <1>2, <1>4, LifeIn
<1> QED BY <1>3, <1>5 DEF Becomes

\* ... to the next step, done with a service and with the addresses.
LEMMA AtPlanViewMoves ==
  ASSUME TypeOK, NEW n \in Node, NEW at \in HookStep, NEW plan \in Seq(Service),
         NEW view \in SUBSET Address,
         life' = [life EXCEPT ![n].at = at, ![n].plan = plan, ![n].view = view]
  PROVE  Becomes(n, at, life[n].seen, plan, life[n].next, view)
<1> DEFINE k == [life[n] EXCEPT !.at = at, !.plan = plan, !.view = view]
<1>1. life[n] \in Life
  BY LifeIn
<1>2. k \in Life
  BY <1>1 DEF Life
<1>3. /\ k.at = at /\ k.boot = life[n].boot /\ k.ask = life[n].ask /\ k.seen = life[n].seen
      /\ k.plan = plan /\ k.next = life[n].next /\ k.view = view
  BY <1>1 DEF Life
<1>4. life' = [life EXCEPT ![n] = k]
  OBVIOUS
<1> HIDE DEF k
<1>5. life' \in [Node -> Life] /\ life'[n] = k /\ \A m \in Node \ {n} : life'[m] = life[m]
  BY <1>2, <1>4, LifeIn
<1> QED BY <1>3, <1>5 DEF Becomes

\* ... to the next step, with the addresses, in the other order.
LEMMA ViewAtMoves ==
  ASSUME TypeOK, NEW n \in Node, NEW view \in SUBSET Address, NEW at \in HookStep,
         life' = [life EXCEPT ![n].view = view, ![n].at = at]
  PROVE  Becomes(n, at, life[n].seen, life[n].plan, life[n].next, view)
<1> DEFINE k == [life[n] EXCEPT !.view = view, !.at = at]
<1>1. life[n] \in Life
  BY LifeIn
<1>2. k \in Life
  BY <1>1 DEF Life
<1>3. /\ k.at = at /\ k.boot = life[n].boot /\ k.ask = life[n].ask /\ k.seen = life[n].seen
      /\ k.plan = life[n].plan /\ k.next = life[n].next /\ k.view = view
  BY <1>1 DEF Life
<1>4. life' = [life EXCEPT ![n] = k]
  OBVIOUS
<1> HIDE DEF k
<1>5. life' \in [Node -> Life] /\ life'[n] = k /\ \A m \in Node \ {n} : life'[m] = life[m]
  BY <1>2, <1>4, LifeIn
<1> QED BY <1>3, <1>5 DEF Becomes

\* An error ends the hook.
LEMMA ErrorAtMoves ==
  ASSUME TypeOK, NEW n \in Node, ErrorAt(n)
  PROVE  Becomes(n, "failed", life[n].seen, life[n].plan, life[n].next, life[n].view)
<1>1. "failed" \in HookStep
  BY Steps DEF JoinStep, LeaveStep
<1> QED BY <1>1, AtMoves DEF ErrorAt, Fail, Goto

\* Bootstrap stored the certificates: its services are what was asked for.
LEMMA StoreCaMoves ==
  ASSUME TypeOK, NEW n \in Node, StoreCa(n)
  PROVE  Becomes(n, "gen", life[n].seen, Plan(Wished(n, Service)), "client",
                 life[n].view)
<1>1. "gen" \in HookStep
  BY Steps DEF JoinStep, LeaveStep
<1> QED BY <1>1, PlanFacts, AtNextPlanMoves DEF StoreCa

\* Join counted the central nodes.
LEMMA CountMoves ==
  ASSUME TypeOK, NEW n \in Node, Count(n)
  PROVE  Becomes(n, "option", Centrals, life[n].plan, life[n].next, life[n].view)
<1>1. "option" \in HookStep
  BY Steps DEF JoinStep, LeaveStep
<1>2. Centrals \in SUBSET Node
  BY DEF Centrals
<1> QED BY <1>1, <1>2, AtSeenMoves DEF Count

\* Join read the option: its services are what was asked for, or fit.
LEMMA DecideMoves ==
  ASSUME TypeOK, NEW n \in Node, Decide(n)
  PROVE  Becomes(n, "gen", life[n].seen, Plan(Wished(n, Automatic(n))), "client",
                 life[n].view)
<1>1. "gen" \in HookStep
  BY Steps DEF JoinStep, LeaveStep
<1> QED BY <1>1, PlanFacts, AtNextPlanMoves DEF Decide

\* The certificate of the client is there.
LEMMA ClientMoves ==
  ASSUME TypeOK, NEW n \in Node, Client(n)
  PROVE  Becomes(n, "service", life[n].seen, life[n].plan, life[n].next, life[n].view)
<1>1. "service" \in HookStep
  BY Steps DEF JoinStep, LeaveStep
<1> QED BY <1>1, AtMoves DEF Client, Goto

\* The option was read for the environment file.
LEMMA GenOptionMoves ==
  ASSUME TypeOK, NEW n \in Node, GenOption(n)
  PROVE  Becomes(n, IF option # {} THEN "write" ELSE "read", life[n].seen, life[n].plan,
                 life[n].next, option)
<1>1. (IF option # {} THEN "write" ELSE "read") \in HookStep
  BY Steps DEF JoinStep, LeaveStep
<1>2. option \in SUBSET Address
  BY DEF TypeOK, Centrals, Address
<1> QED BY <1>1, <1>2, AtViewMoves DEF GenOption

\* The central nodes were read for the environment file.
LEMMA GenReadMoves ==
  ASSUME TypeOK, NEW n \in Node, GenRead(n)
  PROVE  Becomes(n, "write", life[n].seen, life[n].plan, life[n].next, Centrals)
<1>1. "write" \in HookStep
  BY Steps DEF JoinStep, LeaveStep
<1>2. Centrals \in SUBSET Address
  BY DEF TypeOK, Centrals, Address
<1> QED BY <1>1, <1>2, AtViewMoves DEF GenRead

\* The environment file was written, and the hook goes on where it was.
LEMMA GenWriteMoves ==
  ASSUME TypeOK, NEW n \in Node, GenWrite(n)
  PROVE  Becomes(n, life[n].next, life[n].seen, life[n].plan, life[n].next, {})
<1>1. life[n].next \in HookStep
  BY LifeFields, Steps DEF JoinStep
<1>2. {} \in SUBSET Address
  BY DEF TypeOK, Centrals, Address
<1> QED BY <1>1, <1>2, AtViewMoves DEF GenWrite

\* A service has its row; its environment file is next.
LEMMA EnableRowMoves ==
  ASSUME TypeOK, NEW n \in Node, EnableRow(n)
  PROVE  Becomes(n, "gen", life[n].seen, life[n].plan, "start", life[n].view)
<1>1. "gen" \in HookStep
  BY Steps DEF JoinStep, LeaveStep
<1> QED BY <1>1, AtNextMoves DEF EnableRow, Generate

\* A service that did not start ends the hook.
LEMMA RollbackMoves ==
  ASSUME TypeOK, NEW n \in Node, Rollback(n)
  PROVE  Becomes(n, "failed", life[n].seen, life[n].plan, life[n].next, life[n].view)
<1>1. "failed" \in HookStep
  BY Steps DEF JoinStep, LeaveStep
<1> QED BY <1>1, AtMoves DEF Rollback, Goto

\* The central nodes were read for ovn-remote.
LEMMA RemoteReadMoves ==
  ASSUME TypeOK, NEW n \in Node, RemoteRead(n)
  PROVE  Becomes(n, "remoteSet", life[n].seen, life[n].plan, life[n].next, Centrals)
<1>1. "remoteSet" \in HookStep
  BY Steps DEF JoinStep, LeaveStep
<1>2. Centrals \in SUBSET Address
  BY DEF TypeOK, Centrals, Address
<1> QED BY <1>1, <1>2, AtViewMoves DEF RemoteRead

\* ovn-remote is set, and the chassis done with.
LEMMA RemoteSetMoves ==
  ASSUME TypeOK, NEW n \in Node, RemoteSet(n), life[n].plan # <<>>
  PROVE  Becomes(n, "service", life[n].seen, Tail(life[n].plan), life[n].next, {})
<1>1. "service" \in HookStep
  BY Steps DEF JoinStep, LeaveStep
<1>2. {} \in SUBSET Address
  BY DEF TypeOK, Centrals, Address
<1> QED BY <1>1, <1>2, TailType, AtPlanViewMoves DEF RemoteSet

\* The node is in.
LEMMA FinishMoves ==
  ASSUME TypeOK, NEW n \in Node, Finish(n)
  PROVE  Becomes(n, "in", life[n].seen, life[n].plan, life[n].next, life[n].view)
<1>1. "in" \in HookStep
  BY Steps DEF JoinStep, LeaveStep
<1> QED BY <1>1, AtMoves DEF Finish, Goto

\* The node is told to leave.
LEMMA RemoveMoves ==
  ASSUME TypeOK, NEW n \in Node, Remove(n)
  PROVE  Becomes(n, "leave", life[n].seen, DisableAll, life[n].next, life[n].view)
<1>1. "leave" \in HookStep
  BY Steps DEF JoinStep, LeaveStep
<1> QED BY <1>1, DisableAllType, AtPlanMoves DEF Remove

\* The row of a service is gone.
LEMMA DisableRowMoves ==
  ASSUME TypeOK, NEW n \in Node, DisableRow(n)
  PROVE  Becomes(n, IF Svc(n) = "central" THEN "quit" ELSE "halt", life[n].seen,
                 life[n].plan, life[n].next, life[n].view)
<1>1. (IF Svc(n) = "central" THEN "quit" ELSE "halt") \in HookStep
  BY Steps DEF JoinStep, LeaveStep
<1> QED BY <1>1, AtMoves DEF DisableRow, Goto

\* The node asked its cluster of databases to let it go.
LEMMA QuitMoves ==
  ASSUME TypeOK, NEW n \in Node, Quit(n)
  PROVE  Becomes(n, "wait", life[n].seen, life[n].plan, life[n].next, life[n].view)
<1>1. "wait" \in HookStep
  BY Steps DEF JoinStep, LeaveStep
<1> QED BY <1>1, AtMoves DEF Quit, Goto

\* ... which it has, or has not within the time.
LEMMA WaitRemovedMoves ==
  ASSUME TypeOK, NEW n \in Node, WaitRemoved(n)
  PROVE  Becomes(n, "rename", life[n].seen, life[n].plan, life[n].next, life[n].view)
<1>1. "rename" \in HookStep
  BY Steps DEF JoinStep, LeaveStep
<1> QED BY <1>1, AtMoves DEF WaitRemoved, Goto

\* The file of the database is moved aside.
LEMMA RenameMoves ==
  ASSUME TypeOK, NEW n \in Node, Rename(n)
  PROVE  Becomes(n, "halt", life[n].seen, life[n].plan, life[n].next, life[n].view)
<1>1. "halt" \in HookStep
  BY Steps DEF JoinStep, LeaveStep
<1> QED BY <1>1, AtMoves DEF Rename, Goto

\* The service is stopped.
LEMMA HaltMoves ==
  ASSUME TypeOK, NEW n \in Node, Halt(n), life[n].plan # <<>>
  PROVE  Becomes(n, "leave", life[n].seen, Tail(life[n].plan), life[n].next,
                 life[n].view)
<1>1. "leave" \in HookStep
  BY Steps DEF JoinStep, LeaveStep
<1> QED BY <1>1, TailType, AtPlanMoves DEF Halt, NextService

\* The node is out of the cluster, for good.
LEMMA RemovedMoves ==
  ASSUME TypeOK, NEW n \in Node, Removed(n)
  PROVE  Becomes(n, "gone", life[n].seen, life[n].plan, life[n].next, life[n].view)
<1>1. "gone" \in HookStep
  BY Steps DEF JoinStep, LeaveStep
<1> QED BY <1>1, AtMoves DEF Removed, Goto

\* Steps with more than one outcome.
LEMMA StartAppsMoves ==
  ASSUME TypeOK, NEW n \in Node, StartApps(n), life[n].plan # <<>>
  PROVE  \/ /\ SnapStart(n, AppSet(Svc(n)), InitialHost(n, env[n])) /\ faults' = faults
            /\ \/ /\ Svc(n) = "central"
                  /\ Becomes(n, "listen", life[n].seen, life[n].plan, life[n].next,
                             life[n].view)
               \/ /\ Svc(n) = "chassis"
                  /\ Becomes(n, "remoteOpt", life[n].seen, life[n].plan, life[n].next,
                             life[n].view)
               \/ /\ Svc(n) \notin {"central", "chassis"}
                  /\ Becomes(n, "service", life[n].seen, Tail(life[n].plan), life[n].next,
                             life[n].view)
         \/ /\ Becomes(n, "rollback", life[n].seen, life[n].plan, life[n].next,
                       life[n].view)
            /\ Fault("error") /\ UNCHANGED clusterVars
<1>1. {"listen", "remoteOpt", "service", "rollback"} \subseteq HookStep
  BY Steps DEF JoinStep
<1>2. Tail(life[n].plan) \in Seq(Service)
  BY TailType
<1>3. CASE Fault("error") /\ Goto(n, "rollback") /\ UNCHANGED clusterVars
  BY <1>1, <1>3, AtMoves DEF Goto
<1>4. CASE /\ SnapStart(n, AppSet(Svc(n)), InitialHost(n, env[n])) /\ faults' = faults
           /\ CASE Svc(n) = "central" -> Goto(n, "listen")
                [] Svc(n) = "chassis" -> Goto(n, "remoteOpt")
                [] OTHER              -> NextService(n, "service")
  <2>1. CASE Svc(n) = "central"
    <3>1. Goto(n, "listen")
      BY <1>4, <2>1, Zenon
    <3> QED BY <1>1, <1>4, <2>1, <3>1, AtMoves DEF Goto
  <2>2. CASE Svc(n) = "chassis"
    <3>1. Goto(n, "remoteOpt")
      BY <1>4, <2>2
    <3> QED BY <1>1, <1>4, <2>2, <3>1, AtMoves DEF Goto
  <2>3. CASE Svc(n) \notin {"central", "chassis"}
    <3>1. NextService(n, "service")
      BY <1>4, <2>3
    <3> QED BY <1>1, <1>2, <1>4, <2>3, <3>1, AtPlanMoves DEF NextService
  <2> QED BY <2>1, <2>2, <2>3
<1> QED BY <1>3, <1>4 DEF StartApps

\* The databases listen, or do not.
LEMMA ListenMoves ==
  ASSUME TypeOK, NEW n \in Node, Listen(n), life[n].plan # <<>>
  PROVE  \/ Becomes(n, "gen", life[n].seen, Tail(life[n].plan),
                    IF life[n].boot THEN "relisten" ELSE "service", life[n].view)
         \/ Becomes(n, "rollback", life[n].seen, life[n].plan, life[n].next, life[n].view)
<1>1. {"gen", "rollback"} \subseteq HookStep
  BY Steps DEF JoinStep
<1>2. Tail(life[n].plan) \in Seq(Service)
  BY TailType
<1>3. CASE Goto(n, "rollback")
  BY <1>1, <1>3, AtMoves DEF Goto
<1> DEFINE next == IF life[n].boot THEN "relisten" ELSE "service"
<1>4. next \in {"client", "start", "service", "relisten"}
  OBVIOUS
<1>5. ASSUME life' = [life EXCEPT ![n].at = "gen", ![n].plan = Tail(@), ![n].next = next]
      PROVE  Becomes(n, "gen", life[n].seen, Tail(life[n].plan), next, life[n].view)
  <2> HIDE DEF next
  <2> QED BY <1>1, <1>2, <1>4, <1>5, AtPlanNextMoves
<1> QED BY <1>3, <1>5 DEF Listen

\* The databases of the first node listen once more, or do not.
LEMMA RelistenMoves ==
  ASSUME TypeOK, NEW n \in Node, Relisten(n)
  PROVE  \/ /\ Becomes(n, "service", life[n].seen, life[n].plan, life[n].next, life[n].view)
            /\ lapsed' = lapsed
         \/ /\ Becomes(n, "failed", life[n].seen, life[n].plan, life[n].next, life[n].view)
            /\ lapsed' = IF Enabled(n, "central") THEN Node ELSE lapsed
<1>1. {"service", "failed"} \subseteq HookStep
  BY Steps DEF JoinStep
<1> QED BY <1>1, AtMoves DEF Relisten, Fail, Goto

\* The option was read for ovn-remote, or was not.
LEMMA RemoteOptionMoves ==
  ASSUME TypeOK, NEW n \in Node, RemoteOption(n)
  PROVE  \/ /\ Becomes(n, IF option # {} THEN "remoteSet" ELSE "remoteRead", life[n].seen,
                       life[n].plan, life[n].next, option)
            /\ lapsed' = lapsed
         \/ /\ Becomes(n, "failed", life[n].seen, life[n].plan, life[n].next, life[n].view)
            /\ lapsed' = IF Enabled(n, "central") THEN Node ELSE lapsed
<1> DEFINE at == IF option # {} THEN "remoteSet" ELSE "remoteRead"
<1>1. at \in HookStep /\ "failed" \in HookStep
  BY Steps DEF JoinStep
<1>2. option \in SUBSET Address
  BY DEF TypeOK, Address
<1>3. CASE life' = [life EXCEPT ![n].view = option, ![n].at = at] /\ lapsed' = lapsed
  <2> HIDE DEF at
  <2>1. Becomes(n, at, life[n].seen, life[n].plan, life[n].next, option)
    BY <1>1, <1>2, <1>3, ViewAtMoves
  <2> QED BY <1>3, <2>1 DEF at
<1>4. CASE Fail(n)
  BY <1>1, <1>4, AtMoves DEF Fail, Goto
<1> QED BY <1>3, <1>4 DEF RemoteOption

\* A service that is not enabled is passed over.
LEMMA DisableCheckMoves ==
  ASSUME TypeOK, NEW n \in Node, DisableCheck(n)
  PROVE  \/ /\ ~Enabled(n, Svc(n))
            /\ Becomes(n, "leave", life[n].seen, Tail(life[n].plan), life[n].next,
                       life[n].view)
         \/ Becomes(n, IF Svc(n) = "central" THEN "last" ELSE "delete", life[n].seen,
                    life[n].plan, life[n].next, life[n].view)
<1> DEFINE at == IF Svc(n) = "central" THEN "last" ELSE "delete"
<1>1. at \in HookStep /\ "leave" \in HookStep
  BY Steps DEF LeaveStep
<1>2. Tail(life[n].plan) \in Seq(Service)
  BY TailType DEF DisableCheck
<1>3. CASE ~Enabled(n, Svc(n)) /\ NextService(n, "leave")
  BY <1>1, <1>2, <1>3, AtPlanMoves DEF NextService
<1>4. CASE Goto(n, at)
  <2> HIDE DEF at
  <2>1. Becomes(n, at, life[n].seen, life[n].plan, life[n].next, life[n].view)
    BY <1>1, <1>4, AtMoves DEF Goto
  <2> QED BY <2>1 DEF at
<1> QED BY <1>3, <1>4 DEF DisableCheck

\* The last central node is not disabled.
LEMMA DisableLastMoves ==
  ASSUME TypeOK, NEW n \in Node, DisableLast(n), life[n].plan # <<>>
  PROVE  \/ Becomes(n, "leave", life[n].seen, Tail(life[n].plan), life[n].next, life[n].view)
         \/ Becomes(n, "delete", life[n].seen, life[n].plan, life[n].next, life[n].view)
<1>1. {"leave", "delete"} \subseteq HookStep
  BY Steps DEF LeaveStep
<1>2. Tail(life[n].plan) \in Seq(Service)
  BY TailType
<1> QED BY <1>1, <1>2, AtMoves, AtPlanMoves DEF DisableLast, NextService, Goto

\* A hook that begins.
Begins(n, at, boot) ==
  /\ life' \in [Node -> Life]
  /\ \A m \in Node \ {n} : life'[m] = life[m]
  /\ life'[n].at = at /\ life'[n].boot = boot /\ life'[n].ask \in Choice

\* The first node.
LEMMA BootstrapMoves ==
  ASSUME TypeOK, NEW n \in Node, Bootstrap(n)
  PROVE  Begins(n, "ca", TRUE)
<1>1. PICK a \in Choice :
        life' = [life EXCEPT ![n].at = "ca", ![n].boot = TRUE, ![n].ask = a]
  BY DEF Bootstrap
<1> DEFINE k == [life[n] EXCEPT !.at = "ca", !.boot = TRUE, !.ask = a]
<1>2. "ca" \in HookStep /\ a \in Wanted
  BY Steps DEF JoinStep, Wanted
<1>3. life[n] \in Life
  BY LifeIn
<1>4. k \in Life
  BY <1>2, <1>3 DEF Life
<1>5. k.at = "ca" /\ k.boot = TRUE /\ k.ask = a
  BY <1>3 DEF Life
<1>6. life' = [life EXCEPT ![n] = k]
  BY <1>1
<1> HIDE DEF k
<1>7. life' \in [Node -> Life] /\ life'[n] = k /\ \A m \in Node \ {n} : life'[m] = life[m]
  BY <1>4, <1>6, LifeIn
<1> QED BY <1>5, <1>7 DEF Begins

\* A node that joins.
LEMMA JoinMoves ==
  ASSUME TypeOK, NEW n \in Node, Join(n)
  PROVE  Begins(n, "count", life[n].boot)
<1>1. PICK a \in Choice : life' = [life EXCEPT ![n].at = "count", ![n].ask = a]
  BY DEF Join
<1> DEFINE k == [life[n] EXCEPT !.at = "count", !.ask = a]
<1>2. "count" \in HookStep /\ a \in Wanted
  BY Steps DEF JoinStep, Wanted
<1>3. life[n] \in Life
  BY LifeIn
<1>4. k \in Life
  BY <1>2, <1>3 DEF Life
<1>5. k.at = "count" /\ k.boot = life[n].boot /\ k.ask = a
  BY <1>3 DEF Life
<1>6. life' = [life EXCEPT ![n] = k]
  BY <1>1
<1> HIDE DEF k
<1>7. life' \in [Node -> Life] /\ life'[n] = k /\ \A m \in Node \ {n} : life'[m] = life[m]
  BY <1>4, <1>6, LifeIn
<1> QED BY <1>5, <1>7 DEF Begins

---------------------------------------------------------------------------
(* What a step does to the refresh of a node.                              *)

\* A refresh.
Refreshing == [at : RefreshStep, has : SUBSET Service, view : SUBSET Address]

\* The refresh of n goes on to step at.
Refreshed(n, at, has, view) ==
  /\ rf' \in [Node -> Refreshing]
  /\ \A m \in Node \ {n} : rf'[m] = rf[m]
  /\ rf'[n].at = at /\ rf'[n].has = has /\ rf'[n].view = view

\* Refreshes are of their type.
LEMMA RefreshIn == TypeOK => rf \in [Node -> Refreshing]
BY DEF TypeOK, Refreshing

\* The assignments that occur.
LEMMA RfIsMoves ==
  ASSUME TypeOK, NEW n \in Node, NEW at \in RefreshStep, NEW has \in SUBSET Service,
         NEW view \in SUBSET Address,
         rf' = [rf EXCEPT ![n] = [at |-> at, has |-> has, view |-> view]]
  PROVE  Refreshed(n, at, has, view)
BY RefreshIn DEF Refreshing, Refreshed

\* ... to the next step.
LEMMA RfAtMoves ==
  ASSUME TypeOK, NEW n \in Node, NEW at \in RefreshStep, rf' = [rf EXCEPT ![n].at = at]
  PROVE  Refreshed(n, at, rf[n].has, rf[n].view)
<1> DEFINE k == [rf[n] EXCEPT !.at = at]
<1>1. rf[n] \in Refreshing
  BY RefreshIn
<1>2. k \in Refreshing /\ k.at = at /\ k.has = rf[n].has /\ k.view = rf[n].view
  BY <1>1 DEF Refreshing
<1>3. rf' = [rf EXCEPT ![n] = k]
  OBVIOUS
<1> HIDE DEF k
<1> QED BY <1>2, <1>3, RefreshIn DEF Refreshed

\* ... to the next step, with the addresses.
LEMMA RfAtViewMoves ==
  ASSUME TypeOK, NEW n \in Node, NEW at \in RefreshStep, NEW view \in SUBSET Address,
         \/ rf' = [rf EXCEPT ![n].at = at, ![n].view = view]
         \/ rf' = [rf EXCEPT ![n].view = view, ![n].at = at]
  PROVE  Refreshed(n, at, rf[n].has, view)
<1> DEFINE k == [rf[n] EXCEPT !.at = at, !.view = view]
           l == [rf[n] EXCEPT !.view = view, !.at = at]
<1>1. rf[n] \in Refreshing
  BY RefreshIn
<1>2. k \in Refreshing /\ k.at = at /\ k.has = rf[n].has /\ k.view = view
  BY <1>1 DEF Refreshing
<1>3. l \in Refreshing /\ l.at = at /\ l.has = rf[n].has /\ l.view = view
  BY <1>1 DEF Refreshing
<1>4. rf' = [rf EXCEPT ![n] = k] \/ rf' = [rf EXCEPT ![n] = l]
  OBVIOUS
<1> HIDE DEF k, l
<1> QED BY <1>2, <1>3, <1>4, RefreshIn DEF Refreshed

\* The steps of a refresh.
LEMMA RfSteps ==
  {"none", "gen", "read", "write", "remoteOpt", "remoteRead", "remoteSet"}
    \subseteq RefreshStep
BY DEF RefreshStep

\* A refresh has the lock of a node that is in; any other it leaves.
LEMMA RefreshLockMoves ==
  ASSUME TypeOK, NEW n \in Node, RefreshLock(n)
  PROVE  IF In(n) \/ Leaves(n) THEN Refreshed(n, "gen", EnabledOn(n), {})
                               ELSE Refreshed(n, "none", {}, {})
<1>1. EnabledOn(n) \in SUBSET Service
  BY DEF EnabledOn
<1>2. CASE In(n) \/ Leaves(n)
  BY <1>1, <1>2, RfSteps, RfIsMoves DEF RefreshLock
<1>3. CASE ~(In(n) \/ Leaves(n))
  BY <1>3, RfSteps, RfIsMoves DEF RefreshLock, NoRefresh
<1> QED BY <1>2, <1>3

\* It read the option.
LEMMA RefreshOptionMoves ==
  ASSUME TypeOK, NEW n \in Node, RefreshOption(n)
  PROVE  Refreshed(n, IF option # {} THEN "write" ELSE "read", rf[n].has, option)
<1> DEFINE at == IF option # {} THEN "write" ELSE "read"
<1>1. at \in RefreshStep /\ option \in SUBSET Address
  BY RfSteps DEF TypeOK, Address
<1>2. rf' = [rf EXCEPT ![n].at = at, ![n].view = option]
  BY DEF RefreshOption
<1> HIDE DEF at
<1>3. Refreshed(n, at, rf[n].has, option)
  BY <1>1, <1>2, RfAtViewMoves
<1> QED BY <1>3 DEF at

\* It read the central nodes.
LEMMA RefreshReadMoves ==
  ASSUME TypeOK, NEW n \in Node, RefreshRead(n)
  PROVE  Refreshed(n, "write", rf[n].has, Centrals)
<1>1. Centrals \in SUBSET Address
  BY DEF Centrals, Address
<1> QED BY <1>1, RfSteps, RfAtViewMoves DEF RefreshRead

\* It wrote the environment file and goes on, or failed to restart.
LEMMA RefreshWriteMoves ==
  ASSUME TypeOK, NEW n \in Node, RefreshWrite(n)
  PROVE  \/ Refreshed(n, "remoteOpt", rf[n].has, rf[n].view) /\ missed' = missed
         \/ Refreshed(n, "none", {}, {}) /\ missed' = missed \cup {n}
BY RfSteps, RfAtMoves, RfIsMoves DEF RefreshWrite, NoRefresh

\* It read the option, or the central nodes, for ovn-remote.
LEMMA RefreshRemoteMoves ==
  ASSUME TypeOK, NEW n \in Node, RefreshRemote(n)
  PROVE  \/ /\ rf[n].at = "remoteOpt"
            /\ Refreshed(n, IF option # {} THEN "remoteSet" ELSE "remoteRead",
                         rf[n].has, option)
         \/ /\ rf[n].at = "remoteRead"
            /\ Refreshed(n, "remoteSet", rf[n].has, Centrals)
<1> DEFINE at == IF option # {} THEN "remoteSet" ELSE "remoteRead"
<1>1. at \in RefreshStep /\ option \in SUBSET Address /\ Centrals \in SUBSET Address
  BY RfSteps DEF TypeOK, Centrals, Address
<1>2. CASE rf[n].at = "remoteOpt" /\ rf' = [rf EXCEPT ![n].view = option, ![n].at = at]
  <2> HIDE DEF at
  <2>1. Refreshed(n, at, rf[n].has, option)
    BY <1>1, <1>2, RfAtViewMoves
  <2> QED BY <1>2, <2>1 DEF at
<1>3. CASE /\ rf[n].at = "remoteRead"
           /\ rf' = [rf EXCEPT ![n].view = Centrals, ![n].at = "remoteSet"]
  BY <1>1, <1>3, RfSteps, RfAtViewMoves
<1> QED BY <1>2, <1>3 DEF RefreshRemote

\* It set ovn-remote, and is done.
LEMMA RefreshSetMoves ==
  ASSUME TypeOK, NEW n \in Node, RefreshSet(n)
  PROVE  Refreshed(n, "none", {}, {})
BY RfSteps, RfIsMoves DEF RefreshSet, NoRefresh

\* No refresh is left on a node that is out.
LEMMA RemovedRefresh ==
  ASSUME TypeOK, NEW n \in Node, Removed(n)
  PROVE  Refreshed(n, "none", {}, {})
BY RfSteps, RfIsMoves DEF Removed, NoRefresh

---------------------------------------------------------------------------
(* Types.                                                                  *)

\* All variables but those of the databases, hooks and refreshes.
TableType ==
  /\ services \subseteq members \X Service
  /\ env \in [Node -> SUBSET Address] /\ remote \in [Node -> SUBSET Address]
  /\ lapsed \subseteq Node /\ overwritten = {} /\ missed \subseteq Node
  /\ members \subseteq Node /\ option \in {{}, {External}}
  /\ pending \subseteq Node /\ cfg \in {"idle", "fan"} /\ crowded \subseteq Node
  /\ changes \in 0..MaxConfig /\ leaves \in 0..MaxLeaves /\ faults \in 0..MaxFaults

\* The parts of TypeOK.
LEMMA TypeParts ==
  TypeOK <=> /\ ClusterType /\ TableType
             /\ life \in [Node -> Life] /\ rf \in [Node -> Refreshing]
BY DEF TypeOK, ClusterType, ServersType, TableType, Refreshing

\* ... after a step.
LEMMA TypesNext ==
  ASSUME ClusterType', TableType', life' \in [Node -> Life], rf' \in [Node -> Refreshing]
  PROVE  TypeOK'
BY DEF TypeOK, ClusterType, ServersType, TableType, Refreshing

\* A fault counts once.
LEMMA FaultType == ASSUME TableType, NEW kind, Fault(kind) PROVE faults' \in 0..MaxFaults
BY MembershipBounds DEF TableType, Fault

\* Who is notified is a member.
LEMMA NotifyType ==
  ASSUME TableType, NEW T \in SUBSET Node, Notify(T)
  PROVE  faults' \in 0..MaxFaults /\ pending' \subseteq Node /\ lapsed' \subseteq Node
<1>1. faults' \in 0..MaxFaults
  BY FaultType DEF Notify, TableType
<1> QED BY <1>1 DEF Notify, TableType

\* A service at hand is one of those under control.
LEMMA SvcType == ASSUME TypeOK, NEW n \in Node, life[n].plan # <<>> PROVE Svc(n) \in Service
<1>1. life[n].plan \in Seq(Service)
  BY LifeFields
<1> QED BY <1>1 DEF Svc

\* A node that bootstraps or joins.
LEMMA JoinActsType ==
  ASSUME TypeOK, NEW n \in Node, LifeKept(n), JoinActs(n)
  PROVE  TypeOK'
<1>1. CASE Bootstrap(n)
  <2>1. life' \in [Node -> Life]
    BY <1>1, BootstrapMoves DEF Begins
  <2>2. rf' \in [Node -> Refreshing]
    BY <1>1, RefreshIn DEF Bootstrap
  <2>3. ClusterType'
    BY <1>1, TypeParts, ClusterStepType DEF Bootstrap, TableType
  <2>4. TableType'
    BY <1>1, TypeParts DEF Bootstrap, TableType, clusterVars, envVars, ghostVars, bounds
  <2> QED BY <2>1, <2>2, <2>3, <2>4, TypesNext
<1>2. CASE StoreCa(n)
  <2>1. life' \in [Node -> Life]
    BY <1>2, StoreCaMoves DEF Becomes
  <2>2. rf' \in [Node -> Refreshing]
    BY <1>2, RefreshIn DEF StoreCa
  <2>3. ClusterType'
    BY <1>2, TypeParts, ClusterStepType DEF StoreCa, TableType
  <2>4. TableType'
    BY <1>2, TypeParts DEF StoreCa, TableType, clusterVars, envVars, ghostVars, bounds
  <2> QED BY <2>1, <2>2, <2>3, <2>4, TypesNext
<1>3. CASE Join(n)
  <2>1. life' \in [Node -> Life]
    BY <1>3, JoinMoves DEF Begins
  <2>2. rf' \in [Node -> Refreshing]
    BY <1>3, RefreshIn DEF Join
  <2>3. ClusterType'
    BY <1>3, TypeParts, ClusterStepType DEF Join, TableType
  <2>4. TableType'
    BY <1>3, TypeParts DEF Join, TableType, clusterVars, envVars, ghostVars, bounds
  <2> QED BY <2>1, <2>2, <2>3, <2>4, TypesNext
<1>4. CASE Count(n)
  <2>1. life' \in [Node -> Life]
    BY <1>4, CountMoves DEF Becomes
  <2>2. rf' \in [Node -> Refreshing]
    BY <1>4, RefreshIn DEF Count
  <2>3. ClusterType'
    BY <1>4, TypeParts, ClusterStepType DEF Count, TableType
  <2>4. TableType'
    BY <1>4, TypeParts DEF Count, TableType, clusterVars, envVars, ghostVars, bounds
  <2> QED BY <2>1, <2>2, <2>3, <2>4, TypesNext
<1>5. CASE Decide(n)
  <2>1. life' \in [Node -> Life]
    BY <1>5, DecideMoves DEF Becomes
  <2>2. rf' \in [Node -> Refreshing]
    BY <1>5, RefreshIn DEF Decide
  <2>3. ClusterType'
    BY <1>5, TypeParts, ClusterStepType DEF Decide, TableType
  <2>4. TableType'
    BY <1>5, TypeParts DEF Decide, TableType, clusterVars, envVars, ghostVars, bounds
  <2> QED BY <2>1, <2>2, <2>3, <2>4, TypesNext
<1>6. CASE Client(n)
  <2>1. life' \in [Node -> Life]
    BY <1>6, ClientMoves DEF Becomes
  <2>2. rf' \in [Node -> Refreshing]
    BY <1>6, RefreshIn DEF Client
  <2>3. ClusterType'
    BY <1>6, TypeParts, ClusterStepType DEF Client, TableType
  <2>4. TableType'
    BY <1>6, TypeParts DEF Client, TableType, clusterVars, envVars, ghostVars, bounds
  <2> QED BY <2>1, <2>2, <2>3, <2>4, TypesNext
<1>7. CASE GenOption(n)
  <2>1. life' \in [Node -> Life]
    BY <1>7, GenOptionMoves DEF Becomes
  <2>2. rf' \in [Node -> Refreshing]
    BY <1>7, RefreshIn DEF GenOption
  <2>3. ClusterType'
    BY <1>7, TypeParts, ClusterStepType DEF GenOption, TableType
  <2>4. TableType'
    BY <1>7, TypeParts DEF GenOption, TableType, clusterVars, envVars, ghostVars, bounds
  <2> QED BY <2>1, <2>2, <2>3, <2>4, TypesNext
<1>8. CASE GenRead(n)
  <2>1. life' \in [Node -> Life]
    BY <1>8, GenReadMoves DEF Becomes
  <2>2. rf' \in [Node -> Refreshing]
    BY <1>8, RefreshIn DEF GenRead
  <2>3. ClusterType'
    BY <1>8, TypeParts, ClusterStepType DEF GenRead, TableType
  <2>4. TableType'
    BY <1>8, TypeParts DEF GenRead, TableType, clusterVars, envVars, ghostVars, bounds
  <2> QED BY <2>1, <2>2, <2>3, <2>4, TypesNext
<1>9. CASE GenWrite(n)
  <2>1. life' \in [Node -> Life]
    BY <1>9, GenWriteMoves DEF Becomes
  <2>2. rf' \in [Node -> Refreshing]
    BY <1>9, RefreshIn DEF GenWrite
  <2>3. ClusterType'
    BY <1>9, TypeParts, ClusterStepType DEF GenWrite, TableType
  <2>4. TableType'
    BY <1>9, TypeParts, LifeFields DEF GenWrite, TableType, clusterVars, envVars,
       ghostVars, bounds
  <2> QED BY <2>1, <2>2, <2>3, <2>4, TypesNext
<1>10. CASE EnableRow(n)
  <2>1. life[n].plan # <<>>
    BY <1>10 DEF EnableRow, LifeKept, ServiceStep, LeaveStep, At
  <2>2. life' \in [Node -> Life]
    BY <1>10, <2>1, EnableRowMoves DEF Becomes
  <2>3. rf' \in [Node -> Refreshing]
    BY <1>10, RefreshIn DEF EnableRow
  <2>4. Svc(n) \in Service
    BY <2>1, SvcType
  <2>5. ClusterType'
    BY <1>10, TypeParts, ClusterStepType DEF EnableRow, TableType
  <2>6. n \in members
    BY <1>10 DEF EnableRow, LifeKept, At
  <2>7. TableType'
    BY <1>10, TypeParts, <2>4, <2>6 DEF EnableRow, TableType, AddService, clusterVars,
       envVars, ghostVars, bounds
  <2> QED BY <2>2, <2>3, <2>5, <2>7, TypesNext
<1>11. CASE StartApps(n)
  <2>1. life[n].plan # <<>>
    BY <1>11 DEF StartApps, LifeKept, ServiceStep, LeaveStep, At
  <2>2. life' \in [Node -> Life]
    BY <1>11, <2>1, StartAppsMoves DEF Becomes
  <2>3. rf' \in [Node -> Refreshing]
    BY <1>11, RefreshIn DEF StartApps
  <2>4. Svc(n) \in Service
    BY <2>1, SvcType
  <2>5. ClusterType'
    BY <1>11, <2>1, <2>4, TypeParts, ClusterStepType, StartAppsMoves DEF StartApps,
       TableType
  <2>6. TableType'
    BY <1>11, TypeParts, FaultType DEF StartApps, TableType, clusterVars, envVars,
       ghostVars, bounds
  <2> QED BY <2>2, <2>3, <2>5, <2>6, TypesNext
<1>12. CASE Listen(n)
  <2>1. life[n].plan # <<>>
    BY <1>12 DEF Listen, LifeKept, ServiceStep, LeaveStep, At
  <2>2. life' \in [Node -> Life]
    BY <1>12, <2>1, ListenMoves DEF Becomes
  <2>3. rf' \in [Node -> Refreshing]
    BY <1>12, RefreshIn DEF Listen
  <2>4. ClusterType'
    BY <1>12, TypeParts, ClusterStepType DEF Listen, TableType
  <2>5. TableType'
    BY <1>12, TypeParts DEF Listen, TableType, clusterVars, envVars, ghostVars, bounds
  <2> QED BY <2>2, <2>3, <2>4, <2>5, TypesNext
<1>13. CASE Rollback(n)
  <2>1. life' \in [Node -> Life]
    BY <1>13, RollbackMoves DEF Becomes
  <2>2. rf' \in [Node -> Refreshing]
    BY <1>13, RefreshIn DEF Rollback
  <2>3. ClusterType'
    BY <1>13, TypeParts, ClusterStepType DEF Rollback, TableType
  <2>4. TableType'
    BY <1>13, TypeParts DEF Rollback, TableType, RemoveService, clusterVars, envVars,
       ghostVars, bounds
  <2> QED BY <2>1, <2>2, <2>3, <2>4, TypesNext
<1>14. CASE Relisten(n)
  <2>1. life' \in [Node -> Life]
    BY <1>14, RelistenMoves DEF Becomes
  <2>2. rf' \in [Node -> Refreshing]
    BY <1>14, RefreshIn DEF Relisten
  <2>3. ClusterType'
    BY <1>14, TypeParts, ClusterStepType DEF Relisten, TableType
  <2>4. TableType'
    BY <1>14, TypeParts DEF Relisten, TableType, Fail, Goto, clusterVars, envVars,
       ghostVars, bounds
  <2> QED BY <2>1, <2>2, <2>3, <2>4, TypesNext
<1>15. CASE RemoteOption(n)
  <2>1. life' \in [Node -> Life]
    BY <1>15, RemoteOptionMoves DEF Becomes
  <2>2. rf' \in [Node -> Refreshing]
    BY <1>15, RefreshIn DEF RemoteOption
  <2>3. ClusterType'
    BY <1>15, TypeParts, ClusterStepType DEF RemoteOption, TableType
  <2>4. TableType'
    BY <1>15, TypeParts DEF RemoteOption, TableType, Fail, Goto, clusterVars, envVars,
       ghostVars, bounds
  <2> QED BY <2>1, <2>2, <2>3, <2>4, TypesNext
<1>16. CASE RemoteRead(n)
  <2>1. life' \in [Node -> Life]
    BY <1>16, RemoteReadMoves DEF Becomes
  <2>2. rf' \in [Node -> Refreshing]
    BY <1>16, RefreshIn DEF RemoteRead
  <2>3. ClusterType'
    BY <1>16, TypeParts, ClusterStepType DEF RemoteRead, TableType
  <2>4. TableType'
    BY <1>16, TypeParts DEF RemoteRead, TableType, clusterVars, envVars, ghostVars,
       bounds
  <2> QED BY <2>1, <2>2, <2>3, <2>4, TypesNext
<1>17. CASE RemoteSet(n)
  <2>1. life[n].plan # <<>>
    BY <1>17 DEF RemoteSet, LifeKept, ServiceStep, LeaveStep, At
  <2>2. life' \in [Node -> Life]
    BY <1>17, <2>1, RemoteSetMoves DEF Becomes
  <2>3. rf' \in [Node -> Refreshing]
    BY <1>17, RefreshIn DEF RemoteSet
  <2>4. ClusterType'
    BY <1>17, TypeParts, ClusterStepType DEF RemoteSet, TableType
  <2>5. TableType'
    BY <1>17, TypeParts, LifeFields DEF RemoteSet, TableType, SetRemote, clusterVars,
       envVars, ghostVars, bounds
  <2> QED BY <2>2, <2>3, <2>4, <2>5, TypesNext
<1>18. CASE Finish(n)
  <2>1. life' \in [Node -> Life]
    BY <1>18, FinishMoves DEF Becomes
  <2>2. rf' \in [Node -> Refreshing]
    BY <1>18, RefreshIn DEF Finish
  <2>3. ClusterType'
    BY <1>18, TypeParts, ClusterStepType DEF Finish, TableType
  <2>4. Told(n) \in SUBSET Node
    BY TypeParts DEF Told, TableType
  <2>5. pending' \subseteq Node /\ lapsed' \subseteq Node /\ faults' \in 0..MaxFaults
    BY <1>18, <2>4, TypeParts, NotifyType DEF Finish, TableType
  <2>6. TableType'
    BY <1>18, TypeParts, <2>5 DEF Finish, TableType, clusterVars, envVars, ghostVars,
       bounds
  <2> QED BY <2>1, <2>2, <2>3, <2>6, TypesNext
<1>19. CASE ErrorAt(n)
  <2>1. life' \in [Node -> Life]
    BY <1>19, ErrorAtMoves DEF Becomes
  <2>2. rf' \in [Node -> Refreshing]
    BY <1>19, RefreshIn DEF ErrorAt
  <2>3. ClusterType'
    BY <1>19, TypeParts, ClusterStepType DEF ErrorAt, TableType
  <2>4. TableType'
    BY <1>19, TypeParts, FaultType DEF ErrorAt, TableType, Fail, Goto, clusterVars,
       envVars, ghostVars, bounds
  <2> QED BY <2>1, <2>2, <2>3, <2>4, TypesNext
<1> QED BY <1>1, <1>2, <1>3, <1>4, <1>5, <1>6, <1>7, <1>8, <1>9, <1>10, <1>11, <1>12,
      <1>13, <1>14, <1>15, <1>16, <1>17, <1>18, <1>19 DEF JoinActs

\* A node that leaves.
LEMMA LeaveActsType ==
  ASSUME TypeOK, NEW n \in Node, LifeKept(n), LeaveActs(n)
  PROVE  TypeOK'
<1>1. CASE Remove(n)
  <2>1. life' \in [Node -> Life]
    BY <1>1, RemoveMoves DEF Becomes
  <2>2. rf' \in [Node -> Refreshing]
    BY <1>1, RefreshIn DEF Remove
  <2>3. ClusterType'
    BY <1>1, TypeParts, ClusterStepType DEF Remove, TableType
  <2>4. TableType'
    BY <1>1, TypeParts, MembershipBounds DEF Remove, TableType, clusterVars, envVars,
       ghostVars, bounds
  <2> QED BY <2>1, <2>2, <2>3, <2>4, TypesNext
<1>2. CASE DisableCheck(n)
  <2>1. life' \in [Node -> Life]
    BY <1>2, DisableCheckMoves DEF Becomes
  <2>2. rf' \in [Node -> Refreshing]
    BY <1>2, RefreshIn DEF DisableCheck
  <2>3. ClusterType'
    BY <1>2, TypeParts, ClusterStepType DEF DisableCheck, TableType
  <2>4. TableType'
    BY <1>2, TypeParts DEF DisableCheck, TableType, clusterVars, envVars, ghostVars,
       bounds
  <2> QED BY <2>1, <2>2, <2>3, <2>4, TypesNext
<1>3. CASE DisableLast(n)
  <2>1. life[n].plan # <<>>
    BY <1>3 DEF DisableLast, LifeKept, ServiceStep, LeaveStep, At
  <2>2. life' \in [Node -> Life]
    BY <1>3, <2>1, DisableLastMoves DEF Becomes
  <2>3. rf' \in [Node -> Refreshing]
    BY <1>3, RefreshIn DEF DisableLast
  <2>4. ClusterType'
    BY <1>3, TypeParts, ClusterStepType DEF DisableLast, TableType
  <2>5. TableType'
    BY <1>3, TypeParts DEF DisableLast, TableType, clusterVars, envVars, ghostVars,
       bounds
  <2> QED BY <2>2, <2>3, <2>4, <2>5, TypesNext
<1>4. CASE DisableRow(n)
  <2>1. life' \in [Node -> Life]
    BY <1>4, DisableRowMoves DEF Becomes
  <2>2. rf' \in [Node -> Refreshing]
    BY <1>4, RefreshIn DEF DisableRow
  <2>3. ClusterType'
    BY <1>4, TypeParts, ClusterStepType DEF DisableRow, TableType
  <2>4. TableType'
    BY <1>4, TypeParts DEF DisableRow, TableType, RemoveService, clusterVars, envVars,
       ghostVars, bounds
  <2> QED BY <2>1, <2>2, <2>3, <2>4, TypesNext
<1>5. CASE Quit(n)
  <2>1. life' \in [Node -> Life]
    BY <1>5, QuitMoves DEF Becomes
  <2>2. rf' \in [Node -> Refreshing]
    BY <1>5, RefreshIn DEF Quit
  <2>3. ClusterType'
    BY <1>5, TypeParts, ClusterStepType DEF Quit, TableType
  <2>4. TableType'
    BY <1>5, TypeParts DEF Quit, TableType, clusterVars, envVars, ghostVars, bounds
  <2> QED BY <2>1, <2>2, <2>3, <2>4, TypesNext
<1>6. CASE WaitRemoved(n)
  <2>1. life' \in [Node -> Life]
    BY <1>6, WaitRemovedMoves DEF Becomes
  <2>2. rf' \in [Node -> Refreshing]
    BY <1>6, RefreshIn DEF WaitRemoved
  <2>3. ClusterType'
    BY <1>6, TypeParts, ClusterStepType DEF WaitRemoved, TableType
  <2>4. TableType'
    BY <1>6, TypeParts DEF WaitRemoved, TableType, clusterVars, envVars, ghostVars,
       bounds
  <2> QED BY <2>1, <2>2, <2>3, <2>4, TypesNext
<1>7. CASE Rename(n)
  <2>1. life' \in [Node -> Life]
    BY <1>7, RenameMoves DEF Becomes
  <2>2. rf' \in [Node -> Refreshing]
    BY <1>7, RefreshIn DEF Rename
  <2>3. ClusterType'
    BY <1>7, TypeParts, ClusterStepType DEF Rename, TableType
  <2>4. TableType'
    BY <1>7, TypeParts DEF Rename, TableType, clusterVars, envVars, ghostVars, bounds
  <2> QED BY <2>1, <2>2, <2>3, <2>4, TypesNext
<1>8. CASE Halt(n)
  <2>1. life[n].plan # <<>>
    BY <1>8 DEF Halt, LifeKept, ServiceStep, LeaveStep, At
  <2>2. life' \in [Node -> Life]
    BY <1>8, <2>1, HaltMoves DEF Becomes
  <2>3. rf' \in [Node -> Refreshing]
    BY <1>8, RefreshIn DEF Halt
  <2>4. Svc(n) \in Service
    BY <2>1, SvcType
  <2>5. ClusterType'
    BY <1>8, <2>4, TypeParts, ClusterStepType DEF Halt, TableType
  <2>6. TableType'
    BY <1>8, TypeParts, FaultType DEF Halt, TableType, clusterVars, envVars, ghostVars,
       bounds
  <2> QED BY <2>2, <2>3, <2>5, <2>6, TypesNext
<1>9. CASE Removed(n)
  <2>1. life' \in [Node -> Life]
    BY <1>9, RemovedMoves DEF Becomes
  <2>2. rf' \in [Node -> Refreshing]
    BY <1>9, RemovedRefresh DEF Refreshed
  <2>3. ClusterType'
    BY <1>9, TypeParts, ClusterStepType DEF Removed, TableType
  <2>4. TableType'
    BY <1>9, TypeParts, FaultType DEF Removed, TableType, RowsOf, clusterVars, envVars,
       ghostVars, bounds
  <2> QED BY <2>1, <2>2, <2>3, <2>4, TypesNext
<1> QED BY <1>1, <1>2, <1>3, <1>4, <1>5, <1>6, <1>7, <1>8, <1>9 DEF LeaveActs

\* A node that refreshes.
LEMMA RefreshActsType ==
  ASSUME TypeOK, NEW n \in Node, LifeKept(n), RefreshActs(n)
  PROVE  TypeOK'
<1>1. CASE RefreshLock(n)
  <2>1. life' \in [Node -> Life]
    BY <1>1, LifeIn DEF RefreshLock
  <2>2. rf' \in [Node -> Refreshing]
    BY <1>1, RefreshLockMoves, RefreshIn DEF Refreshed
  <2>3. ClusterType'
    BY <1>1, TypeParts, ClusterStepType DEF RefreshLock, TableType
  <2>4. TableType'
    BY <1>1, TypeParts DEF RefreshLock, TableType, clusterVars, envVars, ghostVars,
       bounds
  <2> QED BY <2>1, <2>2, <2>3, <2>4, TypesNext
<1>2. CASE RefreshOption(n)
  <2>1. life' \in [Node -> Life]
    BY <1>2, LifeIn DEF RefreshOption
  <2>2. rf' \in [Node -> Refreshing]
    BY <1>2, RefreshOptionMoves, RefreshIn DEF Refreshed
  <2>3. ClusterType'
    BY <1>2, TypeParts, ClusterStepType DEF RefreshOption, TableType
  <2>4. TableType'
    BY <1>2, TypeParts DEF RefreshOption, TableType, clusterVars, envVars, ghostVars,
       bounds
  <2> QED BY <2>1, <2>2, <2>3, <2>4, TypesNext
<1>3. CASE RefreshRead(n)
  <2>1. life' \in [Node -> Life]
    BY <1>3, LifeIn DEF RefreshRead
  <2>2. rf' \in [Node -> Refreshing]
    BY <1>3, RefreshReadMoves, RefreshIn DEF Refreshed
  <2>3. ClusterType'
    BY <1>3, TypeParts, ClusterStepType DEF RefreshRead, TableType
  <2>4. TableType'
    BY <1>3, TypeParts DEF RefreshRead, TableType, clusterVars, envVars, ghostVars,
       bounds
  <2> QED BY <2>1, <2>2, <2>3, <2>4, TypesNext
<1>4. CASE RefreshWrite(n)
  <2>1. life' \in [Node -> Life]
    BY <1>4, LifeIn DEF RefreshWrite
  <2>2. rf' \in [Node -> Refreshing]
    BY <1>4, RefreshWriteMoves, RefreshIn DEF Refreshed
  <2>3. ClusterType'
    BY <1>4, TypeParts DEF RefreshWrite, ClusterType, ServersType, App
  <2>4. rf[n].view \in SUBSET Address
    BY RefreshIn DEF Refreshing
  <2>5. TableType'
    BY <1>4, TypeParts, <2>4 DEF RefreshWrite, TableType, clusterVars, envVars,
       ghostVars, bounds
  <2> QED BY <2>1, <2>2, <2>3, <2>5, TypesNext
<1>5. CASE RefreshRemote(n)
  <2>1. life' \in [Node -> Life]
    BY <1>5, LifeIn DEF RefreshRemote
  <2>2. rf' \in [Node -> Refreshing]
    BY <1>5, RefreshRemoteMoves, RefreshIn DEF Refreshed
  <2>3. ClusterType'
    BY <1>5, TypeParts, ClusterStepType DEF RefreshRemote, TableType
  <2>4. TableType'
    BY <1>5, TypeParts DEF RefreshRemote, TableType, clusterVars, envVars, ghostVars,
       bounds
  <2> QED BY <2>1, <2>2, <2>3, <2>4, TypesNext
<1>6. CASE RefreshSet(n)
  <2>1. life' \in [Node -> Life]
    BY <1>6, LifeIn DEF RefreshSet
  <2>2. rf' \in [Node -> Refreshing]
    BY <1>6, RefreshSetMoves, RefreshIn DEF Refreshed
  <2>3. ClusterType'
    BY <1>6, TypeParts, ClusterStepType DEF RefreshSet, TableType
  <2>4. rf[n].view \in SUBSET Address
    BY RefreshIn DEF Refreshing
  <2>5. TableType'
    BY <1>6, TypeParts, <2>4 DEF RefreshSet, TableType, SetRemote, clusterVars, envVars,
       ghostVars, bounds
  <2> QED BY <2>1, <2>2, <2>3, <2>5, TypesNext
<1> QED BY <1>1, <1>2, <1>3, <1>4, <1>5, <1>6 DEF RefreshActs

\* What the databases and the option do by themselves.
LEMMA OthersType ==
  ASSUME TypeOK,
         \/ \E n \in Node : RaftActs(n)
         \/ SetConfig \/ DeleteConfig \/ ConfigUpdated \/ UNCHANGED vars
  PROVE  TypeOK' /\ UNCHANGED <<life, rf, members>>
<1>1. CASE \E n \in Node : RaftActs(n)
  <2>1. PICK n \in Node : RaftActs(n)
    BY <1>1
  <2>2. ClusterType'
    BY <2>1, TypeParts, ClusterStepType DEF RaftActs, TableType
  <2> QED BY <2>1, <2>2, TypeParts, TypesNext
        DEF RaftActs, TableType, envVars, ghostVars, bounds
<1>2. CASE SetConfig \/ DeleteConfig
  <2>1. option' \in {{}, {External}} /\ Configures
    BY <1>2 DEF SetConfig, DeleteConfig, UpdateConfigItem, CreateConfigItem,
       DeleteConfigItem, TypeOK
  <2>2. TableType'
    BY <2>1, TypeParts, MembershipBounds DEF Configures, TableType, envVars, ghostVars
  <2>3. ClusterType'
    BY <2>1, TypeParts DEF Configures, ClusterType, ServersType, clusterVars
  <2> QED BY <2>1, <2>2, <2>3, TypeParts, TypesNext DEF Configures
<1>3. CASE ConfigUpdated
  <2>1. pending' \subseteq Node /\ lapsed' \subseteq Node /\ faults' \in 0..MaxFaults
    BY <1>3, TypeParts, NotifyType, FaultType DEF ConfigUpdated, TableType
  <2>2. TableType'
    BY <1>3, <2>1, TypeParts DEF ConfigUpdated, TableType, envVars
  <2>3. ClusterType'
    BY <1>3, TypeParts DEF ConfigUpdated, ClusterType, ServersType, clusterVars
  <2> QED BY <1>3, <2>2, <2>3, TypeParts, TypesNext DEF ConfigUpdated
<1>4. CASE UNCHANGED vars
  <2>1. ClusterType' /\ TableType'
    BY <1>4, TypeParts DEF vars, clusterVars, envVars, ghostVars, ClusterType,
       ServersType, TableType
  <2> QED BY <1>4, <2>1, TypeParts, TypesNext DEF vars
<1> QED BY <1>1, <1>2, <1>3, <1>4

---------------------------------------------------------------------------
(* Hooks and refreshes.                                                    *)

\* Where a step reaches neither hook nor refresh of a node, and members stay.
LEMMA LifeSame ==
  ASSUME NEW m, LifeKept(m), life'[m] = life[m], rf'[m] = rf[m], members' = members
  PROVE  LifeKept(m)'
BY DEF LifeKept, At, In, Joins, Leaves, Svc

\* Where nothing happens and the members are the same.
LEMMA LifeElsewhere ==
  ASSUME NEW m \in Node, LifeKept(m), life'[m] = life[m], rf'[m] = rf[m],
         \/ members' = members
         \/ \E n \in Node \ {m} :
              \/ members' = {n} /\ members = {}
              \/ members' = members \cup {n} /\ \E k \in members : In(k)
              \/ members' = members \ {n} /\ n \in members
  PROVE  LifeKept(m)'
BY DEF LifeKept, At, In, Joins, Leaves, Svc, JoinStep

\* A node that bootstraps or joins.
LEMMA JoinActsLife ==
  ASSUME TypeOK, NEW n \in Node, \A m \in Node : LifeKept(m), JoinActs(n)
  PROVE  \A m \in Node : LifeKept(m)'
<1>1. CASE Bootstrap(n)
  <2>1. \A m \in Node \ {n} : life'[m] = life[m]
    BY <1>1, BootstrapMoves DEF Begins
  <2>2. LifeKept(n)'
    BY <1>1, BootstrapMoves DEF Begins, Bootstrap, LifeKept, At, In, Joins, Leaves, Svc,
       JoinStep, LeaveStep, ServiceStep, CentralStep, GenerateStep
  <2> QED BY <1>1, <2>1, <2>2, LifeElsewhere DEF Bootstrap
<1>2. CASE StoreCa(n)
  <2>1. \A m \in Node \ {n} : life'[m] = life[m]
    BY <1>2, StoreCaMoves DEF Becomes
  <2>2. LifeKept(n)'
    BY <1>2, StoreCaMoves DEF Becomes, StoreCa, LifeKept, At, In, Joins, Leaves, Svc,
       JoinStep, LeaveStep, ServiceStep, CentralStep, GenerateStep
  <2> QED BY <1>2, <2>1, <2>2, LifeSame DEF StoreCa
<1>3. CASE Join(n)
  <2>1. \A m \in Node \ {n} : life'[m] = life[m]
    BY <1>3, JoinMoves DEF Begins
  <2>2. LifeKept(n)'
    BY <1>3, JoinMoves DEF Begins, Join, LifeKept, At, In, Joins, Leaves, Svc, JoinStep,
       LeaveStep, ServiceStep, CentralStep, GenerateStep
  <2> QED BY <1>3, <2>1, <2>2, LifeElsewhere DEF Join
<1>4. CASE Count(n)
  <2>1. \A m \in Node \ {n} : life'[m] = life[m]
    BY <1>4, CountMoves DEF Becomes
  <2>2. LifeKept(n)'
    BY <1>4, CountMoves DEF Becomes, Count, LifeKept, At, In, Joins, Leaves, Svc,
       JoinStep, LeaveStep, ServiceStep, CentralStep, GenerateStep
  <2> QED BY <1>4, <2>1, <2>2, LifeSame DEF Count
<1>5. CASE Decide(n)
  <2>1. \A m \in Node \ {n} : life'[m] = life[m]
    BY <1>5, DecideMoves DEF Becomes
  <2>2. LifeKept(n)'
    BY <1>5, DecideMoves DEF Becomes, Decide, LifeKept, At, In, Joins, Leaves, Svc,
       JoinStep, LeaveStep, ServiceStep, CentralStep, GenerateStep
  <2> QED BY <1>5, <2>1, <2>2, LifeSame DEF Decide
<1>6. CASE Client(n)
  <2>1. \A m \in Node \ {n} : life'[m] = life[m]
    BY <1>6, ClientMoves DEF Becomes
  <2>2. LifeKept(n)'
    BY <1>6, ClientMoves DEF Becomes, Client, LifeKept, At, In, Joins, Leaves, Svc,
       JoinStep, LeaveStep, ServiceStep, CentralStep, GenerateStep
  <2> QED BY <1>6, <2>1, <2>2, LifeSame DEF Client
<1>7. CASE GenOption(n)
  <2>1. \A m \in Node \ {n} : life'[m] = life[m]
    BY <1>7, GenOptionMoves DEF Becomes
  <2>2. life[n].at = "gen" /\ life'[n].at \in {"read", "write"}
          /\ life'[n].plan = life[n].plan /\ life'[n].next = life[n].next
          /\ life'[n].boot = life[n].boot /\ rf' = rf /\ members' = members
    BY <1>7, GenOptionMoves DEF GenOption, Becomes, At
  <2>3. LifeKept(n)'
    BY <2>2, LifeFields DEF LifeKept, At, In, Joins, Leaves, Svc, JoinStep, LeaveStep,
       ServiceStep, CentralStep, GenerateStep
  <2> QED BY <1>7, <2>1, <2>3, LifeSame DEF GenOption
<1>8. CASE GenRead(n)
  <2>1. \A m \in Node \ {n} : life'[m] = life[m]
    BY <1>8, GenReadMoves DEF Becomes
  <2>2. life[n].at = "read" /\ life'[n].at = "write"
          /\ life'[n].plan = life[n].plan /\ life'[n].next = life[n].next
          /\ life'[n].boot = life[n].boot /\ rf' = rf /\ members' = members
    BY <1>8, GenReadMoves DEF GenRead, Becomes, At
  <2>3. LifeKept(n)'
    BY <2>2, LifeFields DEF LifeKept, At, In, Joins, Leaves, Svc, JoinStep, LeaveStep,
       ServiceStep, CentralStep, GenerateStep
  <2> QED BY <1>8, <2>1, <2>3, LifeSame DEF GenRead
<1>9. CASE GenWrite(n)
  <2>1. \A m \in Node \ {n} : life'[m] = life[m]
    BY <1>9, GenWriteMoves DEF Becomes
  <2>2. life[n].at = "write" /\ life'[n].at = life[n].next
          /\ life'[n].plan = life[n].plan /\ life'[n].next = life[n].next
          /\ life'[n].boot = life[n].boot /\ rf' = rf /\ members' = members
    BY <1>9, GenWriteMoves DEF GenWrite, Becomes, At
  <2>3. LifeKept(n)'
    BY <2>2, LifeFields DEF LifeKept, At, In, Joins, Leaves, Svc, JoinStep, LeaveStep,
       ServiceStep, CentralStep, GenerateStep
  <2> QED BY <1>9, <2>1, <2>3, LifeSame DEF GenWrite
<1>10. CASE EnableRow(n)
  <2>1. \A m \in Node \ {n} : life'[m] = life[m]
    BY <1>10, EnableRowMoves DEF Becomes
  <2>2. LifeKept(n)'
    BY <1>10, EnableRowMoves DEF Becomes, EnableRow, LifeKept, At, In, Joins, Leaves,
       Svc, JoinStep, LeaveStep, ServiceStep, CentralStep, GenerateStep
  <2> QED BY <1>10, <2>1, <2>2, LifeSame DEF EnableRow
<1>11. CASE StartApps(n)
  <2>1. life[n].plan # <<>>
    BY <1>11 DEF StartApps, LifeKept, ServiceStep, LeaveStep, At
  <2>2. \A m \in Node \ {n} : life'[m] = life[m]
    BY <1>11, <2>1, StartAppsMoves DEF Becomes
  <2>3. LifeKept(n)'
    BY <1>11, <2>1, StartAppsMoves DEF Becomes, StartApps, LifeKept, At, In, Joins,
       Leaves, Svc, JoinStep, LeaveStep, ServiceStep, CentralStep, GenerateStep
  <2> QED BY <1>11, <2>2, <2>3, LifeSame DEF StartApps
<1>12. CASE Listen(n)
  <2>1. life[n].plan # <<>>
    BY <1>12 DEF Listen, LifeKept, ServiceStep, LeaveStep, At
  <2>2. \A m \in Node \ {n} : life'[m] = life[m]
    BY <1>12, <2>1, ListenMoves DEF Becomes
  <2>3. LifeKept(n)'
    BY <1>12, <2>1, ListenMoves DEF Becomes, Listen, LifeKept, At, In, Joins, Leaves,
       Svc, JoinStep, LeaveStep, ServiceStep, CentralStep, GenerateStep
  <2> QED BY <1>12, <2>2, <2>3, LifeSame DEF Listen
<1>13. CASE Rollback(n)
  <2>1. \A m \in Node \ {n} : life'[m] = life[m]
    BY <1>13, RollbackMoves DEF Becomes
  <2>2. LifeKept(n)'
    BY <1>13, RollbackMoves DEF Becomes, Rollback, LifeKept, At, In, Joins, Leaves, Svc,
       JoinStep, LeaveStep, ServiceStep, CentralStep, GenerateStep
  <2> QED BY <1>13, <2>1, <2>2, LifeSame DEF Rollback
<1>14. CASE Relisten(n)
  <2>1. \A m \in Node \ {n} : life'[m] = life[m]
    BY <1>14, RelistenMoves DEF Becomes
  <2>2. LifeKept(n)'
    BY <1>14, RelistenMoves DEF Becomes, Relisten, LifeKept, At, In, Joins, Leaves, Svc,
       JoinStep, LeaveStep, ServiceStep, CentralStep, GenerateStep
  <2> QED BY <1>14, <2>1, <2>2, LifeSame DEF Relisten
<1>15. CASE RemoteOption(n)
  <2>1. \A m \in Node \ {n} : life'[m] = life[m]
    BY <1>15, RemoteOptionMoves DEF Becomes
  <2>2. LifeKept(n)'
    BY <1>15, RemoteOptionMoves DEF Becomes, RemoteOption, LifeKept, At, In, Joins,
       Leaves, Svc, JoinStep, LeaveStep, ServiceStep, CentralStep, GenerateStep
  <2> QED BY <1>15, <2>1, <2>2, LifeSame DEF RemoteOption
<1>16. CASE RemoteRead(n)
  <2>1. \A m \in Node \ {n} : life'[m] = life[m]
    BY <1>16, RemoteReadMoves DEF Becomes
  <2>2. LifeKept(n)'
    <3>1. Becomes(n, "remoteSet", life[n].seen, life[n].plan, life[n].next, Centrals)
      BY <1>16, RemoteReadMoves
    <3>2. life[n].at = "remoteRead" /\ UNCHANGED <<members, rf>>
      BY <1>16 DEF RemoteRead, At
    <3> QED BY <3>1, <3>2 DEF Becomes, LifeKept, At, In, Joins, Leaves, Svc, JoinStep,
          LeaveStep, ServiceStep, CentralStep, GenerateStep
  <2> QED BY <1>16, <2>1, <2>2, LifeSame DEF RemoteRead
<1>17. CASE RemoteSet(n)
  <2>1. life[n].plan # <<>>
    BY <1>17 DEF RemoteSet, LifeKept, ServiceStep, LeaveStep, At
  <2>2. \A m \in Node \ {n} : life'[m] = life[m]
    BY <1>17, <2>1, RemoteSetMoves DEF Becomes
  <2>3. LifeKept(n)'
    BY <1>17, <2>1, RemoteSetMoves DEF Becomes, RemoteSet, LifeKept, At, In, Joins,
       Leaves, Svc, JoinStep, LeaveStep, ServiceStep, CentralStep, GenerateStep
  <2> QED BY <1>17, <2>2, <2>3, LifeSame DEF RemoteSet
<1>18. CASE Finish(n)
  <2>1. \A m \in Node \ {n} : life'[m] = life[m]
    BY <1>18, FinishMoves DEF Becomes
  <2>2. LifeKept(n)'
    BY <1>18, FinishMoves DEF Becomes, Finish, LifeKept, At, In, Joins, Leaves, Svc,
       JoinStep, LeaveStep, ServiceStep, CentralStep, GenerateStep
  <2> QED BY <1>18, <2>1, <2>2, LifeSame DEF Finish
<1>19. CASE ErrorAt(n)
  <2>1. \A m \in Node \ {n} : life'[m] = life[m]
    BY <1>19, ErrorAtMoves DEF Becomes
  <2>2. LifeKept(n)'
    BY <1>19, ErrorAtMoves DEF Becomes, ErrorAt, LifeKept, At, In, Joins, Leaves, Svc,
       JoinStep, LeaveStep, ServiceStep, CentralStep, GenerateStep
  <2> QED BY <1>19, <2>1, <2>2, LifeSame DEF ErrorAt
<1> QED BY <1>1, <1>2, <1>3, <1>4, <1>5, <1>6, <1>7, <1>8, <1>9, <1>10, <1>11, <1>12,
      <1>13, <1>14, <1>15, <1>16, <1>17, <1>18, <1>19 DEF JoinActs

\* A node that leaves.
LEMMA LeaveActsLife ==
  ASSUME TypeOK, NEW n \in Node, \A m \in Node : LifeKept(m), LeaveActs(n)
  PROVE  \A m \in Node : LifeKept(m)'
<1>1. CASE Remove(n)
  <2>1. \A m \in Node \ {n} : life'[m] = life[m]
    BY <1>1, RemoveMoves DEF Becomes
  <2>2. LifeKept(n)'
    BY <1>1, RemoveMoves DEF Becomes, Remove, LifeKept, At, In, Joins, Leaves, Svc,
       JoinStep, LeaveStep, ServiceStep, CentralStep, GenerateStep
  <2> QED BY <1>1, <2>1, <2>2, LifeSame DEF Remove
<1>2. CASE DisableCheck(n)
  <2>1. \A m \in Node \ {n} : life'[m] = life[m]
    BY <1>2, DisableCheckMoves DEF Becomes
  <2>2. LifeKept(n)'
    BY <1>2, DisableCheckMoves DEF Becomes, DisableCheck, LifeKept, At, In, Joins,
       Leaves, Svc, JoinStep, LeaveStep, ServiceStep, CentralStep, GenerateStep
  <2> QED BY <1>2, <2>1, <2>2, LifeSame DEF DisableCheck
<1>3. CASE DisableLast(n)
  <2>1. life[n].plan # <<>>
    BY <1>3 DEF DisableLast, LifeKept, ServiceStep, LeaveStep, At
  <2>2. \A m \in Node \ {n} : life'[m] = life[m]
    BY <1>3, <2>1, DisableLastMoves DEF Becomes
  <2>3. LifeKept(n)'
    BY <1>3, <2>1, DisableLastMoves DEF Becomes, DisableLast, LifeKept, At, In, Joins,
       Leaves, Svc, JoinStep, LeaveStep, ServiceStep, CentralStep, GenerateStep
  <2> QED BY <1>3, <2>2, <2>3, LifeSame DEF DisableLast
<1>4. CASE DisableRow(n)
  <2>1. \A m \in Node \ {n} : life'[m] = life[m]
    BY <1>4, DisableRowMoves DEF Becomes
  <2>2. LifeKept(n)'
    BY <1>4, DisableRowMoves DEF Becomes, DisableRow, LifeKept, At, In, Joins, Leaves,
       Svc, JoinStep, LeaveStep, ServiceStep, CentralStep, GenerateStep
  <2> QED BY <1>4, <2>1, <2>2, LifeSame DEF DisableRow
<1>5. CASE Quit(n)
  <2>1. \A m \in Node \ {n} : life'[m] = life[m]
    BY <1>5, QuitMoves DEF Becomes
  <2>2. LifeKept(n)'
    BY <1>5, QuitMoves DEF Becomes, Quit, LifeKept, At, In, Joins, Leaves, Svc,
       JoinStep, LeaveStep, ServiceStep, CentralStep, GenerateStep
  <2> QED BY <1>5, <2>1, <2>2, LifeSame DEF Quit
<1>6. CASE WaitRemoved(n)
  <2>1. \A m \in Node \ {n} : life'[m] = life[m]
    BY <1>6, WaitRemovedMoves DEF Becomes
  <2>2. LifeKept(n)'
    BY <1>6, WaitRemovedMoves DEF Becomes, WaitRemoved, LifeKept, At, In, Joins, Leaves,
       Svc, JoinStep, LeaveStep, ServiceStep, CentralStep, GenerateStep
  <2> QED BY <1>6, <2>1, <2>2, LifeSame DEF WaitRemoved
<1>7. CASE Rename(n)
  <2>1. \A m \in Node \ {n} : life'[m] = life[m]
    BY <1>7, RenameMoves DEF Becomes
  <2>2. LifeKept(n)'
    BY <1>7, RenameMoves DEF Becomes, Rename, LifeKept, At, In, Joins, Leaves, Svc,
       JoinStep, LeaveStep, ServiceStep, CentralStep, GenerateStep
  <2> QED BY <1>7, <2>1, <2>2, LifeSame DEF Rename
<1>8. CASE Halt(n)
  <2>1. life[n].plan # <<>>
    BY <1>8 DEF Halt, LifeKept, ServiceStep, LeaveStep, At
  <2>2. \A m \in Node \ {n} : life'[m] = life[m]
    BY <1>8, <2>1, HaltMoves DEF Becomes
  <2>3. LifeKept(n)'
    BY <1>8, <2>1, HaltMoves DEF Becomes, Halt, LifeKept, At, In, Joins, Leaves, Svc,
       JoinStep, LeaveStep, ServiceStep, CentralStep, GenerateStep
  <2> QED BY <1>8, <2>2, <2>3, LifeSame DEF Halt
<1>9. CASE Removed(n)
  <2>1. \A m \in Node \ {n} : life'[m] = life[m]
    BY <1>9, RemovedMoves DEF Becomes
  <2>2. \A m \in Node \ {n} : rf'[m] = rf[m]
    BY <1>9, RemovedRefresh DEF Refreshed
  <2>3. LifeKept(n)'
    BY <1>9, RemovedMoves, RemovedRefresh DEF Becomes, Refreshed, Removed, LifeKept, At,
       In, Joins, Leaves, Svc, JoinStep, LeaveStep, ServiceStep, CentralStep,
       GenerateStep
  <2> QED BY <1>9, <2>1, <2>2, <2>3, LifeElsewhere DEF Removed, LifeKept, At
<1> QED BY <1>1, <1>2, <1>3, <1>4, <1>5, <1>6, <1>7, <1>8, <1>9 DEF LeaveActs

\* A node that refreshes.
LEMMA RefreshActsLife ==
  ASSUME TypeOK, NEW n \in Node, \A m \in Node : LifeKept(m), RefreshActs(n)
  PROVE  \A m \in Node : LifeKept(m)'
<1>1. CASE RefreshLock(n)
  <2>1. \A m \in Node \ {n} : rf'[m] = rf[m]
    BY <1>1, RefreshLockMoves DEF Refreshed
  <2>2. LifeKept(n)'
    BY <1>1, RefreshLockMoves DEF Refreshed, RefreshLock, LifeKept, At, In, Joins,
       Leaves, Svc, JoinStep, LeaveStep, ServiceStep, CentralStep, GenerateStep
  <2> QED BY <1>1, <2>1, <2>2, LifeElsewhere DEF RefreshLock
<1>2. CASE RefreshOption(n)
  <2>1. \A m \in Node \ {n} : rf'[m] = rf[m]
    BY <1>2, RefreshOptionMoves DEF Refreshed
  <2>2. LifeKept(n)'
    BY <1>2, RefreshOptionMoves DEF Refreshed, RefreshOption, LifeKept, At, In, Joins,
       Leaves, Svc, JoinStep, LeaveStep, ServiceStep, CentralStep, GenerateStep
  <2> QED BY <1>2, <2>1, <2>2, LifeElsewhere DEF RefreshOption
<1>3. CASE RefreshRead(n)
  <2>1. \A m \in Node \ {n} : rf'[m] = rf[m]
    BY <1>3, RefreshReadMoves DEF Refreshed
  <2>2. LifeKept(n)'
    BY <1>3, RefreshReadMoves DEF Refreshed, RefreshRead, LifeKept, At, In, Joins,
       Leaves, Svc, JoinStep, LeaveStep, ServiceStep, CentralStep, GenerateStep
  <2> QED BY <1>3, <2>1, <2>2, LifeElsewhere DEF RefreshRead
<1>4. CASE RefreshWrite(n)
  <2>1. \A m \in Node \ {n} : rf'[m] = rf[m]
    BY <1>4, RefreshWriteMoves DEF Refreshed
  <2>2. LifeKept(n)'
    BY <1>4, RefreshWriteMoves DEF Refreshed, RefreshWrite, LifeKept, At, In, Joins,
       Leaves, Svc, JoinStep, LeaveStep, ServiceStep, CentralStep, GenerateStep
  <2> QED BY <1>4, <2>1, <2>2, LifeElsewhere DEF RefreshWrite
<1>5. CASE RefreshRemote(n)
  <2>1. \A m \in Node \ {n} : rf'[m] = rf[m]
    BY <1>5, RefreshRemoteMoves DEF Refreshed
  <2>2. LifeKept(n)'
    BY <1>5, RefreshRemoteMoves DEF Refreshed, RefreshRemote, LifeKept, At, In, Joins,
       Leaves, Svc, JoinStep, LeaveStep, ServiceStep, CentralStep, GenerateStep
  <2> QED BY <1>5, <2>1, <2>2, LifeElsewhere DEF RefreshRemote
<1>6. CASE RefreshSet(n)
  <2>1. \A m \in Node \ {n} : rf'[m] = rf[m]
    BY <1>6, RefreshSetMoves DEF Refreshed
  <2>2. LifeKept(n)'
    BY <1>6, RefreshSetMoves DEF Refreshed, RefreshSet, LifeKept, At, In, Joins, Leaves,
       Svc, JoinStep, LeaveStep, ServiceStep, CentralStep, GenerateStep
  <2> QED BY <1>6, <2>1, <2>2, LifeElsewhere DEF RefreshSet
<1> QED BY <1>1, <1>2, <1>3, <1>4, <1>5, <1>6 DEF RefreshActs

---------------------------------------------------------------------------
(* Lists of services, and rows of the table.                               *)

\* The services in a list.
Listed(s) == {s[i] : i \in 1..Len(s)}

\* The chassis comes last.
ChassisLast(s) == \A i \in 1..(Len(s) - 1) : s[i] # "chassis"

\* The empty list has no element.
LEMMA EmptyList == \A s \in Seq(Service) : Len(s) = 0 => s = <<>>
OBVIOUS

\* What is left once the first service of a list is done with.
LEMMA TailFacts ==
  ASSUME NEW s \in Seq(Service), s # <<>>
  PROVE  /\ Listed(Tail(s)) \subseteq Listed(s)
         /\ Head(s) \in Listed(s)
         /\ \A x \in Listed(s) : x = Head(s) \/ x \in Listed(Tail(s))
         /\ ChassisLast(s) => ChassisLast(Tail(s))
         /\ ChassisLast(s) /\ Head(s) = "chassis" => Tail(s) = <<>>
<1>1. /\ Len(s) \in Nat \ {0} /\ Head(s) = s[1] /\ Len(Tail(s)) = Len(s) - 1
      /\ \A i \in 1..(Len(s) - 1) : Tail(s)[i] = s[i + 1]
      /\ Tail(s) \in Seq(Service)
  OBVIOUS
<1>2. Listed(Tail(s)) \subseteq Listed(s)
  <2> SUFFICES ASSUME NEW i \in 1..Len(Tail(s)) PROVE Tail(s)[i] \in Listed(s)
    BY DEF Listed
  <2>1. i + 1 \in 1..Len(s) /\ Tail(s)[i] = s[i + 1]
    BY <1>1
  <2> QED BY <2>1 DEF Listed
<1>3. Head(s) \in Listed(s)
  BY <1>1 DEF Listed
<1>4. ASSUME NEW x \in Listed(s), x # Head(s) PROVE x \in Listed(Tail(s))
  <2>1. PICK i \in 1..Len(s) : x = s[i]
    BY DEF Listed
  <2>2. i - 1 \in 1..Len(Tail(s)) /\ Tail(s)[i - 1] = s[i]
    BY <1>1, <1>4, <2>1
  <2> QED BY <2>1, <2>2 DEF Listed
<1>5. ChassisLast(s) => ChassisLast(Tail(s))
  BY <1>1 DEF ChassisLast
<1>6. ASSUME ChassisLast(s), Head(s) = "chassis" PROVE Tail(s) = <<>>
  <2>1. Len(s) = 1
    BY <1>1, <1>6 DEF ChassisLast
  <2>2. Tail(s) \in Seq(Service) /\ Len(Tail(s)) = 0
    BY <1>1, <2>1
  <2> QED BY <2>2, EmptyList
<1> QED BY <1>2, <1>3, <1>4, <1>5, <1>6

\* A plan has the chassis last and only what was asked for.
LEMMA PlanListed ==
  ASSUME NEW S
  PROVE  Listed(Plan(S)) \subseteq S /\ ChassisLast(Plan(S))
BY PlanFacts DEF Listed, ChassisLast

\* The rows of m stay.
SameRows(m) == \A svc : Enabled(m, svc)' <=> Enabled(m, svc)

\* What the actions do to the rows of the table.
LEMMA SameTable ==
  ASSUME services' = services
  PROVE  Centrals' = Centrals /\ \A m : SameRows(m)
BY DEF Centrals, Enabled, SameRows

\* ... a row that is added.
LEMMA RowAdded ==
  ASSUME NEW n \in Node, NEW svc, AddService(n, svc)
  PROVE  /\ \A m \in Node \ {n} : SameRows(m)
         /\ \A s : Enabled(n, s)' <=> (Enabled(n, s) \/ s = svc)
         /\ svc # "central" => Centrals' = Centrals
         /\ svc = "central" => Centrals' = Centrals \cup {n}
BY DEF AddService, Centrals, Enabled, SameRows

\* ... a row that is deleted.
LEMMA RowRemoved ==
  ASSUME NEW n \in Node, NEW svc, RemoveService(n, svc)
  PROVE  /\ \A m \in Node \ {n} : SameRows(m)
         /\ \A s : Enabled(n, s)' <=> (Enabled(n, s) /\ s # svc)
         /\ services' \subseteq services /\ Centrals' \subseteq Centrals
         /\ svc # "central" \/ ~Enabled(n, "central") => Centrals' = Centrals
BY DEF RemoveService, Centrals, Enabled, SameRows

\* ... the rows of a node that is out.
LEMMA RowsRemoved ==
  ASSUME TypeOK, NEW n \in Node, Removed(n)
  PROVE  /\ \A m \in Node \ {n} : SameRows(m)
         /\ \A s : ~Enabled(n, s)'
         /\ services' \subseteq services /\ Centrals' \subseteq Centrals
BY DEF TypeOK, Removed, RowsOf, Centrals, Enabled, SameRows

---------------------------------------------------------------------------
(* The services that a hook still has to enable.                           *)

\* A hook that has yet to choose its services.
Chooses(n) == life[n].at \in {"ca", "count", "option"}

\* The chassis is enabled last, so a node that has it is about to be done.
OrderKept(n) ==
  /\ Chooses(n) => ~Enabled(n, "chassis")
  /\ Joins(n) /\ ~Chooses(n) =>
       /\ ChassisLast(life[n].plan)
       /\ Enabled(n, "chassis") =>
            \/ life[n].plan # <<>> /\ Svc(n) = "chassis"
            \/ life[n].plan = <<>> /\ At(n, "service")

\* Where a step reaches neither the hook nor the rows of a node.
LEMMA OrderElsewhere ==
  ASSUME NEW m, OrderKept(m), life'[m] = life[m], SameRows(m)
  PROVE  OrderKept(m)'
BY DEF OrderKept, SameRows, Chooses, Joins, At, Svc

\* A step of a node that bootstraps or joins reaches no other node either.
JoinFrame(n) ==
  /\ \A m \in Node \ {n} : life'[m] = life[m] /\ SameRows(m)
  /\ EnableRow(n) \/ (services' \subseteq services /\ Centrals' \subseteq Centrals)

\* All its actions.
LEMMA JoinActsFrame ==
  ASSUME TypeOK, NEW n \in Node, LifeKept(n), JoinActs(n)
  PROVE  JoinFrame(n)
<1>1. CASE Bootstrap(n)
  <2>1. \A m \in Node \ {n} : life'[m] = life[m]
    BY <1>1, BootstrapMoves DEF Begins
  <2>2. /\ \A m \in Node : SameRows(m)
        /\ services' \subseteq services /\ Centrals' = Centrals
    BY <1>1, SameTable DEF Bootstrap, envVars
  <2> QED BY <2>1, <2>2 DEF JoinFrame
<1>2. CASE StoreCa(n)
  <2>1. \A m \in Node \ {n} : life'[m] = life[m]
    BY <1>2, StoreCaMoves DEF Becomes
  <2>2. /\ \A m \in Node : SameRows(m)
        /\ services' \subseteq services /\ Centrals' = Centrals
    BY <1>2, SameTable DEF StoreCa, envVars
  <2> QED BY <2>1, <2>2 DEF JoinFrame
<1>3. CASE Join(n)
  <2>1. \A m \in Node \ {n} : life'[m] = life[m]
    BY <1>3, JoinMoves DEF Begins
  <2>2. /\ \A m \in Node : SameRows(m)
        /\ services' \subseteq services /\ Centrals' = Centrals
    BY <1>3, SameTable DEF Join, envVars
  <2> QED BY <2>1, <2>2 DEF JoinFrame
<1>4. CASE Count(n)
  <2>1. \A m \in Node \ {n} : life'[m] = life[m]
    BY <1>4, CountMoves DEF Becomes
  <2>2. /\ \A m \in Node : SameRows(m)
        /\ services' \subseteq services /\ Centrals' = Centrals
    BY <1>4, SameTable DEF Count, envVars
  <2> QED BY <2>1, <2>2 DEF JoinFrame
<1>5. CASE Decide(n)
  <2>1. \A m \in Node \ {n} : life'[m] = life[m]
    BY <1>5, DecideMoves DEF Becomes
  <2>2. /\ \A m \in Node : SameRows(m)
        /\ services' \subseteq services /\ Centrals' = Centrals
    BY <1>5, SameTable DEF Decide, envVars
  <2> QED BY <2>1, <2>2 DEF JoinFrame
<1>6. CASE Client(n)
  <2>1. \A m \in Node \ {n} : life'[m] = life[m]
    BY <1>6, ClientMoves DEF Becomes
  <2>2. /\ \A m \in Node : SameRows(m)
        /\ services' \subseteq services /\ Centrals' = Centrals
    BY <1>6, SameTable DEF Client, envVars
  <2> QED BY <2>1, <2>2 DEF JoinFrame
<1>7. CASE GenOption(n)
  <2>1. \A m \in Node \ {n} : life'[m] = life[m]
    BY <1>7, GenOptionMoves DEF Becomes
  <2>2. /\ \A m \in Node : SameRows(m)
        /\ services' \subseteq services /\ Centrals' = Centrals
    BY <1>7, SameTable DEF GenOption, envVars
  <2> QED BY <2>1, <2>2 DEF JoinFrame
<1>8. CASE GenRead(n)
  <2>1. \A m \in Node \ {n} : life'[m] = life[m]
    BY <1>8, GenReadMoves DEF Becomes
  <2>2. /\ \A m \in Node : SameRows(m)
        /\ services' \subseteq services /\ Centrals' = Centrals
    BY <1>8, SameTable DEF GenRead, envVars
  <2> QED BY <2>1, <2>2 DEF JoinFrame
<1>9. CASE GenWrite(n)
  <2>1. \A m \in Node \ {n} : life'[m] = life[m]
    BY <1>9, GenWriteMoves DEF Becomes
  <2>2. /\ \A m \in Node : SameRows(m)
        /\ services' \subseteq services /\ Centrals' = Centrals
    BY <1>9, SameTable DEF GenWrite, envVars
  <2> QED BY <2>1, <2>2 DEF JoinFrame
<1>10. CASE EnableRow(n)
  <2>1. \A m \in Node \ {n} : life'[m] = life[m]
    BY <1>10, EnableRowMoves DEF Becomes
  <2>2. \A m \in Node \ {n} : SameRows(m)
    BY <1>10, RowAdded DEF EnableRow
  <2> QED BY <2>1, <2>2, <1>10 DEF JoinFrame
<1>11. CASE StartApps(n)
  <2>1. life[n].plan # <<>>
    BY <1>11 DEF StartApps, LifeKept, ServiceStep, At
  <2>2. \A m \in Node \ {n} : life'[m] = life[m]
    BY <1>11, <2>1, StartAppsMoves DEF Becomes
  <2>3. /\ \A m \in Node : SameRows(m)
        /\ services' \subseteq services /\ Centrals' = Centrals
    BY <1>11, SameTable DEF StartApps, envVars
  <2> QED BY <2>2, <2>3 DEF JoinFrame
<1>12. CASE Listen(n)
  <2>1. life[n].plan # <<>>
    BY <1>12 DEF Listen, LifeKept, ServiceStep, At
  <2>2. \A m \in Node \ {n} : life'[m] = life[m]
    BY <1>12, <2>1, ListenMoves DEF Becomes
  <2>3. /\ \A m \in Node : SameRows(m)
        /\ services' \subseteq services /\ Centrals' = Centrals
    BY <1>12, SameTable DEF Listen, envVars
  <2> QED BY <2>2, <2>3 DEF JoinFrame
<1>13. CASE Rollback(n)
  <2>1. \A m \in Node \ {n} : life'[m] = life[m]
    BY <1>13, RollbackMoves DEF Becomes
  <2>2. /\ \A m \in Node \ {n} : SameRows(m)
        /\ services' \subseteq services /\ Centrals' \subseteq Centrals
    BY <1>13, RowRemoved DEF Rollback
  <2> QED BY <2>1, <2>2 DEF JoinFrame
<1>14. CASE Relisten(n)
  <2>1. \A m \in Node \ {n} : life'[m] = life[m]
    BY <1>14, RelistenMoves DEF Becomes
  <2>2. /\ \A m \in Node : SameRows(m)
        /\ services' \subseteq services /\ Centrals' = Centrals
    BY <1>14, SameTable DEF Relisten, envVars
  <2> QED BY <2>1, <2>2 DEF JoinFrame
<1>15. CASE RemoteOption(n)
  <2>1. \A m \in Node \ {n} : life'[m] = life[m]
    BY <1>15, RemoteOptionMoves DEF Becomes
  <2>2. /\ \A m \in Node : SameRows(m)
        /\ services' \subseteq services /\ Centrals' = Centrals
    BY <1>15, SameTable DEF RemoteOption, envVars
  <2> QED BY <2>1, <2>2 DEF JoinFrame
<1>16. CASE RemoteRead(n)
  <2>1. \A m \in Node \ {n} : life'[m] = life[m]
    BY <1>16, RemoteReadMoves DEF Becomes
  <2>2. /\ \A m \in Node : SameRows(m)
        /\ services' \subseteq services /\ Centrals' = Centrals
    BY <1>16, SameTable DEF RemoteRead, envVars
  <2> QED BY <2>1, <2>2 DEF JoinFrame
<1>17. CASE RemoteSet(n)
  <2>1. life[n].plan # <<>>
    BY <1>17 DEF RemoteSet, LifeKept, ServiceStep, At
  <2>2. \A m \in Node \ {n} : life'[m] = life[m]
    BY <1>17, <2>1, RemoteSetMoves DEF Becomes
  <2>3. /\ \A m \in Node : SameRows(m)
        /\ services' \subseteq services /\ Centrals' = Centrals
    BY <1>17, SameTable DEF RemoteSet, envVars
  <2> QED BY <2>2, <2>3 DEF JoinFrame
<1>18. CASE Finish(n)
  <2>1. \A m \in Node \ {n} : life'[m] = life[m]
    BY <1>18, FinishMoves DEF Becomes
  <2>2. /\ \A m \in Node : SameRows(m)
        /\ services' \subseteq services /\ Centrals' = Centrals
    BY <1>18, SameTable DEF Finish, envVars
  <2> QED BY <2>1, <2>2 DEF JoinFrame
<1>19. CASE ErrorAt(n)
  <2>1. \A m \in Node \ {n} : life'[m] = life[m]
    BY <1>19, ErrorAtMoves DEF Becomes
  <2>2. /\ \A m \in Node : SameRows(m)
        /\ services' \subseteq services /\ Centrals' = Centrals
    BY <1>19, SameTable DEF ErrorAt, envVars
  <2> QED BY <2>1, <2>2 DEF JoinFrame
<1> QED BY <1>1, <1>2, <1>3, <1>4, <1>5, <1>6, <1>7, <1>8, <1>9, <1>10, <1>11, <1>12,
      <1>13, <1>14, <1>15, <1>16, <1>17, <1>18, <1>19 DEF JoinActs

\* A step of a node that leaves reaches no other node.
LeavesStep(n) ==
  /\ \A m \in Node \ {n} : life'[m] = life[m] /\ SameRows(m)
  /\ life[n].at \in LeaveStep \cup {"in"} /\ life'[n].at \in LeaveStep \cup {"gone"}
  /\ services' \subseteq services /\ Centrals' \subseteq Centrals

\* All its actions.
LEMMA LeaveActsStep ==
  ASSUME TypeOK, NEW n \in Node, LifeKept(n), LeaveActs(n)
  PROVE  LeavesStep(n)
<1>1. CASE Remove(n)
  <2>1. \A m \in Node \ {n} : life'[m] = life[m]
    BY <1>1, RemoveMoves DEF Becomes
  <2>2. life[n].at \in LeaveStep \cup {"in"} /\ life'[n].at \in LeaveStep \cup {"gone"}
    BY <1>1, RemoveMoves DEF Remove, Becomes, At, In, LeaveStep
  <2>3. services' = services
    BY <1>1 DEF Remove, envVars
  <2> QED BY <1>1, <2>1, <2>2, <2>3, SameTable DEF LeavesStep
<1>2. CASE DisableCheck(n)
  <2>1. \A m \in Node \ {n} : life'[m] = life[m]
    BY <1>2, DisableCheckMoves DEF Becomes
  <2>2. life[n].at \in LeaveStep \cup {"in"} /\ life'[n].at \in LeaveStep \cup {"gone"}
    BY <1>2, DisableCheckMoves DEF DisableCheck, Becomes, At, In, LeaveStep
  <2>3. services' = services
    BY <1>2 DEF DisableCheck, envVars
  <2> QED BY <1>2, <2>1, <2>2, <2>3, SameTable DEF LeavesStep
<1>3. CASE DisableLast(n)
  <2>1. life[n].plan # <<>>
    BY <1>3 DEF DisableLast, LifeKept, ServiceStep, LeaveStep, At
  <2>2. \A m \in Node \ {n} : life'[m] = life[m]
    BY <1>3, <2>1, DisableLastMoves DEF Becomes
  <2>3. life[n].at \in LeaveStep \cup {"in"} /\ life'[n].at \in LeaveStep \cup {"gone"}
    BY <1>3, <2>1, DisableLastMoves DEF DisableLast, Becomes, At, In, LeaveStep
  <2>4. services' = services
    BY <1>3 DEF DisableLast, envVars
  <2> QED BY <1>3, <2>2, <2>3, <2>4, SameTable DEF LeavesStep
<1>4. CASE DisableRow(n)
  <2>1. \A m \in Node \ {n} : life'[m] = life[m]
    BY <1>4, DisableRowMoves DEF Becomes
  <2>2. life[n].at \in LeaveStep \cup {"in"} /\ life'[n].at \in LeaveStep \cup {"gone"}
    BY <1>4, DisableRowMoves DEF DisableRow, Becomes, At, In, LeaveStep
  <2> QED BY <1>4, <2>1, <2>2, RowRemoved DEF LeavesStep, DisableRow
<1>5. CASE Quit(n)
  <2>1. \A m \in Node \ {n} : life'[m] = life[m]
    BY <1>5, QuitMoves DEF Becomes
  <2>2. life[n].at \in LeaveStep \cup {"in"} /\ life'[n].at \in LeaveStep \cup {"gone"}
    BY <1>5, QuitMoves DEF Quit, Becomes, At, In, LeaveStep
  <2>3. services' = services
    BY <1>5 DEF Quit, envVars
  <2> QED BY <1>5, <2>1, <2>2, <2>3, SameTable DEF LeavesStep
<1>6. CASE WaitRemoved(n)
  <2>1. \A m \in Node \ {n} : life'[m] = life[m]
    BY <1>6, WaitRemovedMoves DEF Becomes
  <2>2. life[n].at \in LeaveStep \cup {"in"} /\ life'[n].at \in LeaveStep \cup {"gone"}
    BY <1>6, WaitRemovedMoves DEF WaitRemoved, Becomes, At, In, LeaveStep
  <2>3. services' = services
    BY <1>6 DEF WaitRemoved, envVars
  <2> QED BY <1>6, <2>1, <2>2, <2>3, SameTable DEF LeavesStep
<1>7. CASE Rename(n)
  <2>1. \A m \in Node \ {n} : life'[m] = life[m]
    BY <1>7, RenameMoves DEF Becomes
  <2>2. life[n].at \in LeaveStep \cup {"in"} /\ life'[n].at \in LeaveStep \cup {"gone"}
    BY <1>7, RenameMoves DEF Rename, Becomes, At, In, LeaveStep
  <2>3. services' = services
    BY <1>7 DEF Rename, envVars
  <2> QED BY <1>7, <2>1, <2>2, <2>3, SameTable DEF LeavesStep
<1>8. CASE Halt(n)
  <2>1. life[n].plan # <<>>
    BY <1>8 DEF Halt, LifeKept, ServiceStep, LeaveStep, At
  <2>2. \A m \in Node \ {n} : life'[m] = life[m]
    BY <1>8, <2>1, HaltMoves DEF Becomes
  <2>3. life[n].at \in LeaveStep \cup {"in"} /\ life'[n].at \in LeaveStep \cup {"gone"}
    BY <1>8, <2>1, HaltMoves DEF Halt, Becomes, At, In, LeaveStep
  <2>4. services' = services
    BY <1>8 DEF Halt, envVars
  <2> QED BY <1>8, <2>2, <2>3, <2>4, SameTable DEF LeavesStep
<1>9. CASE Removed(n)
  <2>1. \A m \in Node \ {n} : life'[m] = life[m]
    BY <1>9, RemovedMoves DEF Becomes
  <2>2. life[n].at \in LeaveStep \cup {"in"} /\ life'[n].at \in LeaveStep \cup {"gone"}
    BY <1>9, RemovedMoves DEF Removed, Becomes, At, In, LeaveStep
  <2> QED BY <1>9, <2>1, <2>2, RowsRemoved DEF LeavesStep
<1> QED BY <1>1, <1>2, <1>3, <1>4, <1>5, <1>6, <1>7, <1>8, <1>9 DEF LeaveActs

\* A refresh, the databases and the option touch neither hooks nor rows.
LEMMA OthersStep ==
  ASSUME \/ \E n \in Node : RefreshActs(n) \/ RaftActs(n)
         \/ SetConfig \/ DeleteConfig \/ ConfigUpdated \/ UNCHANGED vars
  PROVE  life' = life /\ services' = services /\ members' = members
<1>1. \A n \in Node :
        RefreshActs(n) => life' = life /\ services' = services /\ members' = members
  BY DEF RefreshActs, RefreshLock, RefreshOption, RefreshRead, RefreshWrite,
     RefreshRemote, RefreshSet, envVars
<1>2. \A n \in Node :
        RaftActs(n) => life' = life /\ services' = services /\ members' = members
  BY DEF RaftActs, envVars
<1>3. Configures => life' = life /\ services' = services /\ members' = members
  BY DEF Configures, envVars
<1>4. ConfigUpdated => life' = life /\ services' = services /\ members' = members
  BY DEF ConfigUpdated, envVars
<1>5. UNCHANGED vars => life' = life /\ services' = services /\ members' = members
  BY DEF vars, envVars
<1> QED BY <1>1, <1>2, <1>3, <1>4, <1>5 DEF SetConfig, DeleteConfig

\* A node that bootstraps or joins.
LEMMA JoinActsOrder ==
  ASSUME TypeOK, NEW n \in Node, LifeKept(n), \A m \in Node : OrderKept(m), JoinActs(n)
  PROVE  \A m \in Node : OrderKept(m)'
<1>0. life[n].plan \in Seq(Service)
  BY LifeFields
<1> SUFFICES OrderKept(n)'
  BY JoinActsFrame, OrderElsewhere DEF JoinFrame
<1>1. CASE Bootstrap(n)
  <2>1. SameRows(n)
    BY <1>1, SameTable DEF Bootstrap, envVars
  <2>2. ~Enabled(n, "chassis")
    BY <1>1 DEF Bootstrap, LifeKept, At, TypeOK, Enabled
  <2>3. OrderKept(n)'
    BY <1>0, <1>1, BootstrapMoves, <2>1, <2>2 DEF Begins, Bootstrap, OrderKept, Chooses,
       At, Joins, Svc, JoinStep, SameRows
  <2> QED BY <2>3
<1>2. CASE StoreCa(n)
  <2>1. SameRows(n)
    BY <1>2, SameTable DEF StoreCa, envVars
  <2>2. /\ life[n].at = "ca" /\ life'[n].at = "gen"
        /\ life'[n].plan = Plan(Wished(n, Service))
    BY <1>2, StoreCaMoves DEF StoreCa, Becomes, At
  <2>3. ChassisLast(life'[n].plan)
    BY <2>2, PlanListed
  <2>4. OrderKept(n)'
    BY <2>2, <2>3, <2>1 DEF OrderKept, Chooses, Joins, JoinStep, At, Svc, SameRows
  <2> QED BY <2>4
<1>3. CASE Join(n)
  <2>1. SameRows(n)
    BY <1>3, SameTable DEF Join, envVars
  <2>2. ~Enabled(n, "chassis")
    BY <1>3 DEF Join, LifeKept, At, TypeOK, Enabled
  <2>3. OrderKept(n)'
    BY <1>0, <1>3, JoinMoves, <2>1, <2>2 DEF Begins, Join, OrderKept, Chooses, At,
       Joins, Svc, JoinStep, SameRows
  <2> QED BY <2>3
<1>4. CASE Count(n)
  <2>1. SameRows(n)
    BY <1>4, SameTable DEF Count, envVars
  <2>2. OrderKept(n)'
    BY <1>0, <1>4, CountMoves, <2>1 DEF Becomes, Count, OrderKept, Chooses, At, Joins,
       Svc, JoinStep, SameRows
  <2> QED BY <2>2
<1>5. CASE Decide(n)
  <2>1. SameRows(n)
    BY <1>5, SameTable DEF Decide, envVars
  <2>2. /\ life[n].at = "option" /\ life'[n].at = "gen"
        /\ life'[n].plan = Plan(Wished(n, Automatic(n)))
    BY <1>5, DecideMoves DEF Decide, Becomes, At
  <2>3. ChassisLast(life'[n].plan)
    BY <2>2, PlanListed
  <2>4. OrderKept(n)'
    BY <2>2, <2>3, <2>1 DEF OrderKept, Chooses, Joins, JoinStep, At, Svc, SameRows
  <2> QED BY <2>4
<1>6. CASE Client(n)
  <2>1. SameRows(n)
    BY <1>6, SameTable DEF Client, envVars
  <2>2. OrderKept(n)'
    BY <1>0, <1>6, ClientMoves, <2>1 DEF Becomes, Client, OrderKept, Chooses, At, Joins,
       Svc, JoinStep, SameRows
  <2> QED BY <2>2
<1>7. CASE GenOption(n)
  <2>1. SameRows(n)
    BY <1>7, SameTable DEF GenOption, envVars
  <2>2. /\ life[n].at = "gen" /\ life'[n].at \in {"read", "write"}
        /\ life'[n].plan = life[n].plan
    BY <1>7, GenOptionMoves DEF GenOption, Becomes, At
  <2>3. OrderKept(n)'
    BY <2>2, <2>1 DEF OrderKept, Chooses, Joins, JoinStep, At, Svc, SameRows
  <2> QED BY <2>3
<1>8. CASE GenRead(n)
  <2>1. SameRows(n)
    BY <1>8, SameTable DEF GenRead, envVars
  <2>2. OrderKept(n)'
    BY <1>0, <1>8, GenReadMoves, <2>1 DEF Becomes, GenRead, OrderKept, Chooses, At,
       Joins, Svc, JoinStep, SameRows
  <2> QED BY <2>2
<1>9. CASE GenWrite(n)
  <2>1. SameRows(n)
    BY <1>9, SameTable DEF GenWrite, envVars
  <2>2. life[n].at = "write" /\ life'[n].at = life[n].next /\ life'[n].plan = life[n].plan
    BY <1>9, GenWriteMoves DEF GenWrite, Becomes, At
  <2>3. OrderKept(n)'
    BY <2>2, LifeFields, <2>1 DEF OrderKept, Chooses, Joins, JoinStep, At, Svc, SameRows
  <2> QED BY <2>3
<1>10. CASE EnableRow(n)
  <2>1. /\ life[n].at = "service" /\ life'[n].at = "gen" /\ life'[n].plan = life[n].plan
          /\ life[n].plan # <<>>
    BY <1>10, EnableRowMoves DEF EnableRow, Becomes, At
  <2>2. \A x : Enabled(n, x)' <=> (Enabled(n, x) \/ x = Svc(n))
    BY <1>10, RowAdded DEF EnableRow
  <2>3. OrderKept(n)'
    BY <2>1, <2>2 DEF OrderKept, Chooses, Joins, JoinStep, At, Svc
  <2> QED BY <2>3
<1>11. CASE StartApps(n)
  <2>1. life[n].plan # <<>>
    BY <1>11 DEF StartApps, LifeKept, ServiceStep, At
  <2>2. SameRows(n)
    BY <1>11, SameTable DEF StartApps, envVars
  <2>3. OrderKept(n)'
    BY <1>0, <1>11, <2>1, StartAppsMoves, <2>2, TailFacts DEF Becomes, StartApps,
       OrderKept, Chooses, At, Joins, Svc, JoinStep, SameRows
  <2> QED BY <2>3
<1>12. CASE Listen(n)
  <2>1. life[n].plan # <<>>
    BY <1>12 DEF Listen, LifeKept, ServiceStep, At
  <2>2. SameRows(n)
    BY <1>12, SameTable DEF Listen, envVars
  <2>3. Joins(n) /\ ~Chooses(n) /\ Svc(n) = "central"
    BY <1>12 DEF Listen, LifeKept, CentralStep, At, Joins, JoinStep, Chooses
  <2>4. /\ ~Enabled(n, "chassis") /\ ChassisLast(life[n].plan)
        /\ ChassisLast(Tail(life[n].plan))
    BY <1>0, <2>1, <2>3, TailFacts DEF OrderKept
  <2>5. /\ life'[n].at \in {"gen", "rollback"}
        /\ life'[n].plan \in {life[n].plan, Tail(life[n].plan)}
    BY <1>12, <2>1, ListenMoves DEF Becomes
  <2>6. OrderKept(n)'
    BY <2>4, <2>5, <2>2 DEF OrderKept, Chooses, Joins, JoinStep, At, Svc, SameRows
  <2> QED BY <2>6
<1>13. CASE Rollback(n)
  <2>1. OrderKept(n)'
    BY <1>0, <1>13, RollbackMoves, RowRemoved DEF Becomes, Rollback, OrderKept, Chooses,
       At, Joins, Svc, JoinStep
  <2> QED BY <2>1
<1>14. CASE Relisten(n)
  <2>1. SameRows(n)
    BY <1>14, SameTable DEF Relisten, envVars
  <2>2. OrderKept(n)'
    BY <1>0, <1>14, RelistenMoves, <2>1 DEF Becomes, Relisten, OrderKept, Chooses, At,
       Joins, Svc, JoinStep, SameRows
  <2> QED BY <2>2
<1>15. CASE RemoteOption(n)
  <2>1. SameRows(n)
    BY <1>15, SameTable DEF RemoteOption, envVars
  <2>2. OrderKept(n)'
    BY <1>0, <1>15, RemoteOptionMoves, <2>1 DEF Becomes, RemoteOption, OrderKept,
       Chooses, At, Joins, Svc, JoinStep, SameRows
  <2> QED BY <2>2
<1>16. CASE RemoteRead(n)
  <2>1. SameRows(n)
    BY <1>16, SameTable DEF RemoteRead, envVars
  <2>2. OrderKept(n)'
    BY <1>0, <1>16, RemoteReadMoves, <2>1 DEF Becomes, RemoteRead, OrderKept, Chooses,
       At, Joins, Svc, JoinStep, SameRows
  <2> QED BY <2>2
<1>17. CASE RemoteSet(n)
  <2>1. life[n].plan # <<>>
    BY <1>17 DEF RemoteSet, LifeKept, ServiceStep, At
  <2>2. SameRows(n)
    BY <1>17, SameTable DEF RemoteSet, envVars
  <2>3. /\ life[n].at = "remoteSet" /\ life'[n].at = "service"
        /\ life'[n].plan = Tail(life[n].plan)
    BY <1>17, <2>1, RemoteSetMoves DEF RemoteSet, Becomes, At
  <2>4. ChassisLast(life[n].plan) => /\ ChassisLast(Tail(life[n].plan))
                                       /\ Svc(n) = "chassis" => Tail(life[n].plan) = <<>>
    BY <1>0, <2>1, TailFacts DEF Svc
  <2>5. ChassisLast(life[n].plan) /\ (Enabled(n, "chassis") => Svc(n) = "chassis")
    BY <2>3 DEF OrderKept, Joins, Chooses, JoinStep, At
  <2>6. ChassisLast(life'[n].plan) /\ (Enabled(n, "chassis")' => life'[n].plan = <<>>)
    BY <2>3, <2>4, <2>5, <2>2 DEF SameRows, ChassisLast
  <2>7. OrderKept(n)'
    BY <2>3, <2>6 DEF OrderKept, Chooses, Joins, JoinStep, At
  <2> QED BY <2>7
<1>18. CASE Finish(n)
  <2>1. SameRows(n)
    BY <1>18, SameTable DEF Finish, envVars
  <2>2. OrderKept(n)'
    BY <1>0, <1>18, FinishMoves, <2>1 DEF Becomes, Finish, OrderKept, Chooses, At,
       Joins, Svc, JoinStep, SameRows
  <2> QED BY <2>2
<1>19. CASE ErrorAt(n)
  <2>1. SameRows(n)
    BY <1>19, SameTable DEF ErrorAt, envVars
  <2>2. OrderKept(n)'
    BY <1>0, <1>19, ErrorAtMoves, <2>1 DEF Becomes, ErrorAt, OrderKept, Chooses, At,
       Joins, Svc, JoinStep, SameRows
  <2> QED BY <2>2
<1> QED BY <1>1, <1>2, <1>3, <1>4, <1>5, <1>6, <1>7, <1>8, <1>9, <1>10, <1>11, <1>12,
      <1>13, <1>14, <1>15, <1>16, <1>17, <1>18, <1>19 DEF JoinActs

\* Other steps.
LEMMA OtherActsOrder ==
  ASSUME TypeOK, \A m \in Node : LifeKept(m), \A m \in Node : OrderKept(m),
         \/ \E n \in Node : LeaveActs(n) \/ RefreshActs(n) \/ RaftActs(n)
         \/ SetConfig \/ DeleteConfig \/ ConfigUpdated \/ UNCHANGED vars
  PROVE  \A m \in Node : OrderKept(m)'
<1>1. CASE \E n \in Node : LeaveActs(n)
  <2>1. PICK n \in Node : LeaveActs(n)
    BY <1>1
  <2>2. LeavesStep(n)
    BY <2>1, LeaveActsStep
  <2>3. OrderKept(n)'
    BY <2>2 DEF LeavesStep, OrderKept, Chooses, Joins, JoinStep, LeaveStep
  <2> QED BY <2>2, <2>3, OrderElsewhere DEF LeavesStep
<1>2. CASE life' = life /\ services' = services
  BY <1>2, SameTable, OrderElsewhere
<1> QED BY <1>1, <1>2, OthersStep

---------------------------------------------------------------------------
(* Central nodes.                                                          *)

\* A node that is to decide knows of every central node; one that decided to have
\* central, and has not got it yet, decided so because there were too few.
CountKept(n) ==
  Joins(n) /\ life[n].ask = AutoChoice /\ ~life[n].boot /\ n \notin crowded =>
    /\ ~At(n, "ca")
    /\ At(n, "option") => IsFiniteSet(life[n].seen) /\ Centrals \subseteq life[n].seen
    /\ ~Chooses(n) /\ "central" \in Listed(life[n].plan) /\ ~Enabled(n, "central") =>
         option = {} /\ Cardinality(Centrals) < Enough

\* There are no more central nodes than members.
LEMMA CentralsFinite ==
  ASSUME TypeOK, IsFiniteSet(members)
  PROVE  IsFiniteSet(Centrals) /\ Cardinality(Centrals) \in Nat
<1>1. Centrals \subseteq members
  BY DEF TypeOK, Centrals, Enabled
<1> QED BY <1>1, FS_Subset, FS_CardinalityType

\* Fewer central nodes are not more than enough.
LEMMA FewerCentrals ==
  ASSUME NEW S, IsFiniteSet(S), NEW T \in SUBSET S, Cardinality(S) < Enough
  PROVE  Cardinality(T) < Enough
<1>1. Cardinality(T) <= Cardinality(S) /\ IsFiniteSet(T)
  BY FS_Subset
<1>2. Cardinality(T) \in Nat /\ Cardinality(S) \in Nat /\ Enough \in Nat
  BY <1>1, FS_CardinalityType, MembershipBounds
<1> QED BY <1>1, <1>2

\* Where a step reaches neither the hook nor the rows of a node.
LEMMA CountElsewhere ==
  ASSUME NEW m, CountKept(m), life'[m] = life[m], SameRows(m), crowded \subseteq crowded',
         IsFiniteSet(Centrals),
         m \in crowded' \/ ~Joins(m) \/ (option' = option /\ Centrals' \subseteq Centrals)
  PROVE  CountKept(m)'
<1>1. CASE m \in crowded' \/ ~Joins(m)
  BY <1>1 DEF CountKept, Joins
<1>2. CASE option' = option /\ Centrals' \subseteq Centrals
  <2>1. Cardinality(Centrals) < Enough => Cardinality(Centrals') < Enough
    BY <1>2, FewerCentrals
  <2> QED BY <1>2, <2>1 DEF CountKept, SameRows, Chooses, Joins, At
<1> QED BY <1>1, <1>2

\* What the hook of n does once it has made its plan.
Proceeds(n) ==
  /\ Joins(n) /\ ~Chooses(n)
  /\ life'[n].at \notin {"ca", "count", "option"}
  /\ life'[n].ask = life[n].ask /\ life'[n].boot = life[n].boot
  /\ Listed(life'[n].plan) \subseteq Listed(life[n].plan)
  /\ services' = services /\ option' = option

\* ... and what it counted stays true.
LEMMA ProceedsCount ==
  ASSUME NEW n, CountKept(n), Proceeds(n), crowded' = crowded
  PROVE  CountKept(n)'
<1>1. Centrals' = Centrals /\ SameRows(n)
  BY SameTable DEF Proceeds
<1>2. ~Chooses(n)' /\ ~At(n, "ca")' /\ ~At(n, "option")'
  BY DEF Proceeds, Chooses, At
<1> QED BY <1>1, <1>2 DEF Proceeds, CountKept, SameRows

\* Nothing is in an empty list.
LEMMA EmptyListed == \A x : x \in Listed(<<>>) => FALSE
BY DEF Listed

\* The actions of which this is all.
LEMMA JoinActsProceed ==
  ASSUME TypeOK, NEW n \in Node, LifeKept(n),
         \/ Client(n) \/ GenOption(n) \/ GenRead(n) \/ GenWrite(n)
         \/ StartApps(n) \/ Listen(n) \/ Relisten(n)
         \/ RemoteOption(n) \/ RemoteRead(n) \/ RemoteSet(n)
  PROVE  Proceeds(n) /\ crowded' = crowded
<1>0. life[n].plan \in Seq(Service)
  BY LifeFields
<1>1. CASE Client(n)
  <2>1. Joins(n) /\ ~Chooses(n)
    BY <1>1 DEF Client, Joins, JoinStep, Chooses, At
  <2>2. life'[n].at \notin {"ca", "count", "option"}
          /\ life'[n].ask = life[n].ask /\ life'[n].boot = life[n].boot
    BY <1>1, ClientMoves DEF Becomes
  <2>3. life'[n].plan = life[n].plan
    BY <1>1, ClientMoves DEF Becomes
  <2>4. services' = services /\ option' = option /\ crowded' = crowded
    BY <1>1 DEF Client, envVars
  <2>5. Listed(life'[n].plan) \subseteq Listed(life[n].plan)
    BY <2>3 DEF Listed
  <2> QED BY <2>1, <2>2, <2>4, <2>5 DEF Proceeds
<1>2. CASE GenOption(n)
  <2>1. Joins(n) /\ ~Chooses(n)
    BY <1>2 DEF GenOption, Joins, JoinStep, Chooses, At
  <2>2. life'[n].at \notin {"ca", "count", "option"}
          /\ life'[n].ask = life[n].ask /\ life'[n].boot = life[n].boot
    BY <1>2, GenOptionMoves DEF Becomes
  <2>3. life'[n].plan = life[n].plan
    BY <1>2, GenOptionMoves DEF Becomes
  <2>4. services' = services /\ option' = option /\ crowded' = crowded
    BY <1>2 DEF GenOption, envVars
  <2>5. Listed(life'[n].plan) \subseteq Listed(life[n].plan)
    BY <2>3 DEF Listed
  <2> QED BY <2>1, <2>2, <2>4, <2>5 DEF Proceeds
<1>3. CASE GenRead(n)
  <2>1. Joins(n) /\ ~Chooses(n)
    BY <1>3 DEF GenRead, Joins, JoinStep, Chooses, At
  <2>2. life'[n].at \notin {"ca", "count", "option"}
          /\ life'[n].ask = life[n].ask /\ life'[n].boot = life[n].boot
    BY <1>3, GenReadMoves DEF Becomes
  <2>3. life'[n].plan = life[n].plan
    BY <1>3, GenReadMoves DEF Becomes
  <2>4. services' = services /\ option' = option /\ crowded' = crowded
    BY <1>3 DEF GenRead, envVars
  <2>5. Listed(life'[n].plan) \subseteq Listed(life[n].plan)
    BY <2>3 DEF Listed
  <2> QED BY <2>1, <2>2, <2>4, <2>5 DEF Proceeds
<1>4. CASE GenWrite(n)
  <2>1. Joins(n) /\ ~Chooses(n)
    BY <1>4 DEF GenWrite, Joins, JoinStep, Chooses, At
  <2>2. life'[n].at \notin {"ca", "count", "option"}
          /\ life'[n].ask = life[n].ask /\ life'[n].boot = life[n].boot
    BY <1>4, GenWriteMoves, LifeFields DEF Becomes
  <2>3. life'[n].plan = life[n].plan
    BY <1>4, GenWriteMoves DEF Becomes
  <2>4. services' = services /\ option' = option /\ crowded' = crowded
    BY <1>4 DEF GenWrite, envVars
  <2>5. Listed(life'[n].plan) \subseteq Listed(life[n].plan)
    BY <2>3 DEF Listed
  <2> QED BY <2>1, <2>2, <2>4, <2>5 DEF Proceeds
<1>5. CASE StartApps(n)
  <2>1. life[n].plan # <<>>
    BY <1>5 DEF StartApps, LifeKept, ServiceStep, At
  <2>2. Joins(n) /\ ~Chooses(n)
    BY <1>5 DEF StartApps, Joins, JoinStep, Chooses, At
  <2>3. life'[n].at \notin {"ca", "count", "option"}
          /\ life'[n].ask = life[n].ask /\ life'[n].boot = life[n].boot
    BY <1>5, <2>1, StartAppsMoves DEF Becomes
  <2>4. Listed(Tail(life[n].plan)) \subseteq Listed(life[n].plan)
    BY <1>0, <2>1, TailFacts
  <2>5. life'[n].plan \in {life[n].plan, Tail(life[n].plan)}
    BY <1>5, <2>1, StartAppsMoves DEF Becomes
  <2>6. services' = services /\ option' = option /\ crowded' = crowded
    BY <1>5 DEF StartApps, envVars
  <2>7. Listed(life'[n].plan) \subseteq Listed(life[n].plan)
    BY <2>5, <2>4
  <2> QED BY <2>2, <2>3, <2>6, <2>7 DEF Proceeds
<1>6. CASE Listen(n)
  <2>1. life[n].plan # <<>>
    BY <1>6 DEF Listen, LifeKept, ServiceStep, At
  <2>2. Joins(n) /\ ~Chooses(n)
    BY <1>6 DEF Listen, Joins, JoinStep, Chooses, At
  <2>3. life'[n].at \notin {"ca", "count", "option"}
          /\ life'[n].ask = life[n].ask /\ life'[n].boot = life[n].boot
    BY <1>6, <2>1, ListenMoves DEF Becomes
  <2>4. Listed(Tail(life[n].plan)) \subseteq Listed(life[n].plan)
    BY <1>0, <2>1, TailFacts
  <2>5. life'[n].plan \in {life[n].plan, Tail(life[n].plan)}
    BY <1>6, <2>1, ListenMoves DEF Becomes
  <2>6. services' = services /\ option' = option /\ crowded' = crowded
    BY <1>6 DEF Listen, envVars
  <2>7. Listed(life'[n].plan) \subseteq Listed(life[n].plan)
    BY <2>5, <2>4
  <2> QED BY <2>2, <2>3, <2>6, <2>7 DEF Proceeds
<1>7. CASE Relisten(n)
  <2>1. Joins(n) /\ ~Chooses(n)
    BY <1>7 DEF Relisten, Joins, JoinStep, Chooses, At
  <2>2. life'[n].at \notin {"ca", "count", "option"}
          /\ life'[n].ask = life[n].ask /\ life'[n].boot = life[n].boot
    BY <1>7, RelistenMoves DEF Becomes
  <2>3. life'[n].plan = life[n].plan
    BY <1>7, RelistenMoves DEF Becomes
  <2>4. services' = services /\ option' = option /\ crowded' = crowded
    BY <1>7 DEF Relisten, envVars
  <2>5. Listed(life'[n].plan) \subseteq Listed(life[n].plan)
    BY <2>3 DEF Listed
  <2> QED BY <2>1, <2>2, <2>4, <2>5 DEF Proceeds
<1>8. CASE RemoteOption(n)
  <2>1. Joins(n) /\ ~Chooses(n)
    BY <1>8 DEF RemoteOption, Joins, JoinStep, Chooses, At
  <2>2. life'[n].at \notin {"ca", "count", "option"}
          /\ life'[n].ask = life[n].ask /\ life'[n].boot = life[n].boot
    BY <1>8, RemoteOptionMoves DEF Becomes
  <2>3. life'[n].plan = life[n].plan
    BY <1>8, RemoteOptionMoves DEF Becomes
  <2>4. services' = services /\ option' = option /\ crowded' = crowded
    BY <1>8 DEF RemoteOption, envVars
  <2>5. Listed(life'[n].plan) \subseteq Listed(life[n].plan)
    BY <2>3 DEF Listed
  <2> QED BY <2>1, <2>2, <2>4, <2>5 DEF Proceeds
<1>9. CASE RemoteRead(n)
  <2>1. Joins(n) /\ ~Chooses(n)
    BY <1>9 DEF RemoteRead, Joins, JoinStep, Chooses, At
  <2>2. life'[n].at \notin {"ca", "count", "option"}
          /\ life'[n].ask = life[n].ask /\ life'[n].boot = life[n].boot
    BY <1>9, RemoteReadMoves DEF Becomes
  <2>3. life'[n].plan = life[n].plan
    BY <1>9, RemoteReadMoves DEF Becomes
  <2>4. services' = services /\ option' = option /\ crowded' = crowded
    BY <1>9 DEF RemoteRead, envVars
  <2>5. Listed(life'[n].plan) \subseteq Listed(life[n].plan)
    BY <2>3 DEF Listed
  <2> QED BY <2>1, <2>2, <2>4, <2>5 DEF Proceeds
<1>10. CASE RemoteSet(n)
  <2>1. life[n].plan # <<>>
    BY <1>10 DEF RemoteSet, LifeKept, ServiceStep, At
  <2>2. Joins(n) /\ ~Chooses(n)
    BY <1>10 DEF RemoteSet, Joins, JoinStep, Chooses, At
  <2>3. life'[n].at \notin {"ca", "count", "option"}
          /\ life'[n].ask = life[n].ask /\ life'[n].boot = life[n].boot
    BY <1>10, <2>1, RemoteSetMoves DEF Becomes
  <2>4. Listed(Tail(life[n].plan)) \subseteq Listed(life[n].plan)
    BY <1>0, <2>1, TailFacts
  <2>5. life'[n].plan \in {life[n].plan, Tail(life[n].plan)}
    BY <1>10, <2>1, RemoteSetMoves DEF Becomes
  <2>6. services' = services /\ option' = option /\ crowded' = crowded
    BY <1>10 DEF RemoteSet, envVars
  <2>7. Listed(life'[n].plan) \subseteq Listed(life[n].plan)
    BY <2>5, <2>4
  <2> QED BY <2>2, <2>3, <2>6, <2>7 DEF Proceeds
<1> QED BY <1>1, <1>2, <1>3, <1>4, <1>5, <1>6, <1>7, <1>8, <1>9, <1>10

\* A node that bootstraps or joins.
LEMMA JoinActsCount ==
  ASSUME TypeOK, IsFiniteSet(members), NEW n \in Node, LifeKept(n),
         \A m \in Node : CountKept(m), JoinActs(n)
  PROVE  \A m \in Node : CountKept(m)'
<1>0. IsFiniteSet(Centrals) /\ JoinFrame(n) /\ life[n].plan \in Seq(Service)
  BY CentralsFinite, JoinActsFrame, LifeFields
<1>a. option' = option /\ crowded \subseteq crowded'
  BY DEF JoinActs, Bootstrap, StoreCa, Join, Count, Decide, Client, GenOption, GenRead,
     GenWrite, EnableRow, StartApps, Listen, Rollback, Relisten, RemoteOption,
     RemoteRead, RemoteSet, Finish, ErrorAt
<1>b. ASSUME NEW m \in Node \ {n} PROVE CountKept(m)'
  <2>1. CASE EnableRow(n) /\ Svc(n) = "central"
    <3>1. m \in crowded' \/ ~Joins(m)
      BY <2>1 DEF EnableRow
    <3> QED BY <1>0, <1>a, <3>1, CountElsewhere DEF JoinFrame
  <2>2. CASE EnableRow(n) /\ Svc(n) # "central"
    <3>1. Centrals' = Centrals
      BY <2>2, RowAdded DEF EnableRow
    <3> QED BY <1>0, <1>a, <3>1, CountElsewhere DEF JoinFrame
  <2>3. CASE ~EnableRow(n)
    BY <1>0, <1>a, <2>3, CountElsewhere DEF JoinFrame
  <2> QED BY <2>1, <2>2, <2>3
<1> SUFFICES CountKept(n)'
  BY <1>b
<1>1. CASE Bootstrap(n)
  <2>1. life'[n].boot
    BY <1>1, BootstrapMoves DEF Begins
  <2> QED BY <2>1 DEF CountKept
<1>2. CASE StoreCa(n)
  <2>1. /\ life'[n].ask = life[n].ask /\ life'[n].boot = life[n].boot
        /\ At(n, "ca") /\ Joins(n)
        /\ crowded' = crowded
    BY <1>2, StoreCaMoves DEF Becomes, StoreCa, At, Joins, JoinStep
  <2> QED BY <2>1 DEF CountKept
<1>3. CASE Join(n)
  <2>1. life'[n].at = "count"
    BY <1>3, JoinMoves DEF Begins
  <2> QED BY <2>1 DEF CountKept, At, Chooses
<1>4. CASE Count(n)
  <2>1. life'[n].at = "option" /\ life'[n].seen = Centrals
    BY <1>4, CountMoves DEF Becomes
  <2>2. Centrals' = Centrals
    BY <1>4, SameTable DEF Count, envVars
  <2> QED BY <1>0, <2>1, <2>2 DEF CountKept, At, Chooses
<1>5. CASE Decide(n)
  <2>1. /\ At(n, "option") /\ life'[n].at = "gen"
        /\ life'[n].plan = Plan(Wished(n, Automatic(n)))
        /\ life'[n].ask = life[n].ask /\ life'[n].boot = life[n].boot /\ crowded' = crowded
    BY <1>5, DecideMoves DEF Becomes, Decide
  <2>2. Centrals' = Centrals
    BY <1>5, SameTable DEF Decide, envVars
  <2>3. ASSUME life[n].ask = AutoChoice, ~life[n].boot, n \notin crowded,
               "central" \in Listed(life'[n].plan)
        PROVE  option = {} /\ Cardinality(Centrals) < Enough
    <3>1. IsFiniteSet(life[n].seen) /\ Centrals \subseteq life[n].seen
      BY <2>1, <2>3 DEF CountKept, Joins, At, JoinStep
    <3>2. Wished(n, Automatic(n)) = Automatic(n)
      BY <2>3, Zenon DEF Wished
    <3>3. "central" \in Automatic(n)
      BY <2>1, <2>3, <3>2, PlanListed
    <3>4. option = {} /\ Cardinality(life[n].seen) < Enough
      BY <3>3 DEF Automatic, FewCentrals
    <3> QED BY <3>1, <3>4, FewerCentrals
  <2> QED BY <1>a, <2>1, <2>2, <2>3 DEF CountKept, At, Chooses
<1>6. CASE EnableRow(n)
  <2>1. /\ life'[n].at = "gen" /\ life'[n].plan = life[n].plan /\ life'[n].ask = life[n].ask
        /\ life'[n].boot = life[n].boot /\ At(n, "service") /\ Joins(n) /\ ~Chooses(n)
    BY <1>6, EnableRowMoves DEF Becomes, EnableRow, At, Joins, Chooses, JoinStep
  <2>2. CASE Svc(n) = "central"
    <3>1. Enabled(n, "central")'
      BY <1>6, <2>2, RowAdded DEF EnableRow
    <3> QED BY <2>1, <3>1 DEF CountKept, At, Chooses
  <2>3. CASE Svc(n) # "central"
    <3>1. Centrals' = Centrals /\ (Enabled(n, "central")' <=> Enabled(n, "central"))
      BY <1>6, <2>3, RowAdded DEF EnableRow
    <3>2. crowded' = crowded /\ Listed(life'[n].plan) = Listed(life[n].plan)
      BY <1>6, <2>1, <2>3 DEF EnableRow, Listed
    <3> QED BY <1>a, <2>1, <3>1, <3>2 DEF CountKept, At, Chooses
  <2> QED BY <2>2, <2>3
<1>7. CASE Rollback(n) \/ Finish(n) \/ ErrorAt(n)
  <2>1. life'[n].at \in {"failed", "in"}
    BY <1>7, RollbackMoves, FinishMoves, ErrorAtMoves DEF Becomes
  <2> QED BY <2>1 DEF CountKept, Joins, JoinStep
<1>8. CASE ~(\/ Bootstrap(n) \/ StoreCa(n) \/ Join(n) \/ Count(n) \/ Decide(n) \/ EnableRow(n)
             \/ Rollback(n) \/ Finish(n) \/ ErrorAt(n))
  <2>1. Proceeds(n) /\ crowded' = crowded
    BY <1>8, JoinActsProceed DEF JoinActs
  <2> QED BY <2>1, ProceedsCount
<1> QED BY <1>1, <1>2, <1>3, <1>4, <1>5, <1>6, <1>7, <1>8

\* Other steps.
LEMMA OtherActsCount ==
  ASSUME TypeOK, IsFiniteSet(members), \A m \in Node : LifeKept(m) /\ CountKept(m),
         \/ \E n \in Node : LeaveActs(n) \/ RefreshActs(n) \/ RaftActs(n)
         \/ SetConfig \/ DeleteConfig \/ ConfigUpdated \/ UNCHANGED vars
  PROVE  \A m \in Node : CountKept(m)'
<1>0. IsFiniteSet(Centrals)
  BY CentralsFinite
<1>1. CASE \E n \in Node : LeaveActs(n)
  <2>1. PICK n \in Node : LeaveActs(n)
    BY <1>1
  <2>2. LeavesStep(n)
    BY <2>1, LeaveActsStep
  <2>3. option' = option /\ crowded' = crowded
    BY <2>1 DEF LeaveActs, Remove, DisableCheck, DisableLast, DisableRow, Quit,
       WaitRemoved, Rename, Halt, Removed
  <2>4. CountKept(n)'
    BY <2>2 DEF LeavesStep, CountKept, Joins, JoinStep, LeaveStep
  <2> QED BY <1>0, <2>2, <2>3, <2>4, CountElsewhere DEF LeavesStep
<1>2. CASE SetConfig \/ DeleteConfig
  <2>1. Configures
    BY <1>2 DEF SetConfig, DeleteConfig
  <2>2. /\ life' = life /\ services' = services /\ crowded \subseteq crowded'
        /\ \A m \in Node : m \in crowded' \/ ~Joins(m)
    BY <2>1 DEF Configures, envVars
  <2> QED BY <1>0, <2>2, CountElsewhere, SameTable
<1>3. CASE \/ \E n \in Node : RefreshActs(n) \/ RaftActs(n)
           \/ ConfigUpdated \/ UNCHANGED vars
  <2>1. life' = life /\ services' = services
    BY <1>3, OthersStep
  <2>2. option' = option /\ crowded' = crowded
    BY <1>3 DEF RefreshActs, RefreshLock, RefreshOption, RefreshRead, RefreshWrite,
       RefreshRemote, RefreshSet, RaftActs, ConfigUpdated, vars
  <2> QED BY <1>0, <2>1, <2>2, CountElsewhere, SameTable
<1> QED BY <1>1, <1>2, <1>3

\* Only a hook that enables a service adds a row.
LEMMA RowAppears ==
  ASSUME TypeOK, \A m \in Node : LifeKept(m), Next,
         NEW n \in Node, NEW svc, ~Enabled(n, svc), Enabled(n, svc)'
  PROVE  EnableRow(n) /\ Svc(n) = svc
<1>1. CASE \E k \in Node : JoinActs(k)
  <2>1. PICK k \in Node : JoinActs(k)
    BY <1>1
  <2>2. JoinFrame(k)
    BY <2>1, JoinActsFrame
  <2>3. k = n /\ EnableRow(k)
    BY <2>2 DEF JoinFrame, SameRows, Enabled
  <2> QED BY <2>3, RowAdded DEF EnableRow
<1>2. CASE \E k \in Node : LeaveActs(k)
  <2>1. PICK k \in Node : LeaveActs(k)
    BY <1>2
  <2>2. LeavesStep(k)
    BY <2>1, LeaveActsStep
  <2> QED BY <2>2 DEF LeavesStep, Enabled
<1>3. CASE services' = services
  BY <1>3 DEF Enabled
<1> QED BY <1>1, <1>2, <1>3, OthersStep DEF Next, Idle

---------------------------------------------------------------------------
(* What members know of the addresses.                                     *)

\* A hook that tells the others when it is done.
Tells(m) == (Joins(m) /\ ~life[m].boot /\ Enabled(m, "central")) \/ Leaves(m)

\* A refresh is on its way to n, or n was not told.
Excused(n) ==
  \/ n \in pending \cup lapsed
  \/ \E m \in members \ {n} : Tells(m)
  \/ Leaves(n) \/ cfg = "fan"

\* The step at which n reads the addresses or uses what it read.
Stage(n) == IF Joins(n) THEN life[n].at ELSE rf[n].at
\* ... and what it read.
View(n) == IF Joins(n) THEN life[n].view ELSE rf[n].view

\* What n has read of the addresses for its environment file, or wrote to it,
\* is as they are.
EnvCurrent(n) ==
  /\ Stage(n) = "read" => option = {}
  /\ Stage(n) = "write" => View(n) = CentralIps
  /\ Stage(n) \notin {"ca", "count", "option", "gen", "read", "write"} =>
       env[n] = CentralIps

\* What n has read of them for ovn-remote, or set it to, is as they are, unless
\* the refresh of n did not get that far.
RemoteCurrent(n) ==
  /\ Stage(n) = "remoteRead" => option = {}
  /\ Stage(n) = "remoteSet" => View(n) = CentralIps
  /\ Stage(n) = "service" /\ life[n].plan = <<>> /\ Enabled(n, "chassis") =>
       remote[n] = CentralIps
  /\ Stage(n) = "none" => n \in missed \/ remote[n] = CentralIps

\* n knows the addresses.
Fresh(n) == EnvCurrent(n) /\ RemoteCurrent(n)

\* A member knows the addresses, or is to be told.
CopiesKept(n) == Present(n) => Excused(n) \/ Fresh(n)

\* The addresses depend on the table and the option.
LEMMA SameIps ==
  ASSUME services' = services, option' = option
  PROVE  CentralIps' = CentralIps
BY SameTable DEF CentralIps

\* Where a step reaches neither the node nor the addresses.
LEMMA CopiesElsewhere ==
  ASSUME NEW n, CopiesKept(n), Present(n)' => Present(n), Excused(n) => Excused(n)',
         life'[n] = life[n], rf'[n] = rf[n], env'[n] = env[n], remote'[n] = remote[n],
         SameRows(n), n \in missed' <=> n \in missed,
         Excused(n)' \/ (CentralIps' = CentralIps /\ option' = option)
  PROVE  CopiesKept(n)'
<1>1. CASE Excused(n)'
  BY <1>1 DEF CopiesKept
<1>2. CASE CentralIps' = CentralIps /\ option' = option
  <2>1. Fresh(n) => Fresh(n)'
    BY <1>2 DEF Fresh, EnvCurrent, RemoteCurrent, Stage, View, Joins, SameRows
  <2> QED BY <2>1 DEF CopiesKept
<1> QED BY <1>1, <1>2

\* What a hook that bootstraps or joins leaves alone.
JoinAround(k) ==
  /\ cfg' = cfg /\ option' = option /\ rf' = rf
  /\ members \subseteq members' /\ members' \subseteq members \cup {k}
  /\ pending \subseteq pending'
  /\ lapsed \ {k} \subseteq lapsed' /\ (GenOption(k) \/ lapsed \subseteq lapsed')
  /\ \A n \in Node \ {k} : /\ env'[n] = env[n] /\ remote'[n] = remote[n]
                           /\ n \in missed' <=> n \in missed

\* All its actions.
LEMMA JoinActsAround ==
  ASSUME TypeOK, NEW k \in Node, JoinActs(k)
  PROVE  JoinAround(k)
<1>0. /\ lapsed \subseteq Node /\ env \in [Node -> SUBSET Address]
      /\ remote \in [Node -> SUBSET Address]
  BY DEF TypeOK
<1>1. CASE Bootstrap(k)
  BY <1>0, <1>1 DEF JoinAround, Bootstrap, envVars, ghostVars, SetRemote, Fail, Notify
<1>2. CASE StoreCa(k) \/ Join(k) \/ Count(k) \/ Decide(k)
  BY <1>0, <1>2 DEF JoinAround, StoreCa, Join, Count, Decide, envVars, ghostVars,
     SetRemote, Fail, Notify
<1>3. CASE Client(k) \/ GenRead(k) \/ EnableRow(k)
  BY <1>0, <1>3 DEF JoinAround, Client, GenRead, EnableRow, envVars, ghostVars,
     SetRemote, Fail, Notify
<1>4. CASE Listen(k) \/ RemoteRead(k) \/ StartApps(k)
  BY <1>0, <1>4 DEF JoinAround, Listen, RemoteRead, StartApps, envVars, ghostVars,
     SetRemote, Fail, Notify
<1>5. CASE GenOption(k)
  BY <1>0, <1>5 DEF JoinAround, GenOption, envVars, ghostVars, SetRemote, Fail, Notify
<1>6. CASE GenWrite(k)
  BY <1>0, <1>6 DEF JoinAround, GenWrite, envVars, ghostVars, SetRemote, Fail, Notify
<1>7. CASE RemoteSet(k)
  BY <1>0, <1>7 DEF JoinAround, RemoteSet, envVars, ghostVars, SetRemote, Fail, Notify
<1>8. CASE Rollback(k) \/ Relisten(k)
  BY <1>0, <1>8 DEF JoinAround, Rollback, Relisten, envVars, ghostVars, SetRemote, Fail,
     Notify
<1>9. CASE RemoteOption(k) \/ ErrorAt(k)
  BY <1>0, <1>9 DEF JoinAround, RemoteOption, ErrorAt, envVars, ghostVars, SetRemote,
     Fail, Notify
<1>10. CASE Finish(k)
  BY <1>0, <1>10 DEF JoinAround, Finish, envVars, ghostVars, SetRemote, Fail, Notify
<1> QED BY <1>1, <1>2, <1>3, <1>4, <1>5, <1>6, <1>7, <1>8, <1>9, <1>10 DEF JoinActs

\* A hook that has something to tell goes on, tells, or fails, and then
\* nobody was told.
LEMMA JoinActsTell ==
  ASSUME TypeOK, NEW k \in Node, LifeKept(k), JoinActs(k), Tells(k)
  PROVE  Tells(k)' \/ members \ {k} \subseteq pending' \cup lapsed'
<1>1. CASE Bootstrap(k)
  <2> QED BY <1>1 DEF Bootstrap, Tells, Joins, Leaves, At, JoinStep, LeaveStep
<1>2. CASE StoreCa(k)
  <2>1. Joins(k)
    BY <1>2 DEF StoreCa, At, Joins, JoinStep
  <2>2. life'[k].boot = life[k].boot /\ life'[k].at \in JoinStep
    BY <1>2, StoreCaMoves DEF Becomes, JoinStep
  <2>3. services \subseteq services'
    BY <1>2 DEF StoreCa, envVars, AddService
  <2> QED BY <2>1, <2>2, <2>3 DEF Tells, Joins, Leaves, JoinStep, LeaveStep, Enabled
<1>3. CASE Join(k)
  <2> QED BY <1>3 DEF Join, Tells, Joins, Leaves, At, JoinStep, LeaveStep
<1>4. CASE Count(k)
  <2>1. Joins(k)
    BY <1>4 DEF Count, At, Joins, JoinStep
  <2>2. life'[k].boot = life[k].boot /\ life'[k].at \in JoinStep
    BY <1>4, CountMoves DEF Becomes, JoinStep
  <2>3. services \subseteq services'
    BY <1>4 DEF Count, envVars, AddService
  <2> QED BY <2>1, <2>2, <2>3 DEF Tells, Joins, Leaves, JoinStep, LeaveStep, Enabled
<1>5. CASE Decide(k)
  <2>1. Joins(k)
    BY <1>5 DEF Decide, At, Joins, JoinStep
  <2>2. life'[k].boot = life[k].boot /\ life'[k].at \in JoinStep
    BY <1>5, DecideMoves DEF Becomes, JoinStep
  <2>3. services \subseteq services'
    BY <1>5 DEF Decide, envVars, AddService
  <2> QED BY <2>1, <2>2, <2>3 DEF Tells, Joins, Leaves, JoinStep, LeaveStep, Enabled
<1>6. CASE Client(k)
  <2>1. Joins(k)
    BY <1>6 DEF Client, At, Joins, JoinStep
  <2>2. life'[k].boot = life[k].boot /\ life'[k].at \in JoinStep
    BY <1>6, ClientMoves DEF Becomes, JoinStep
  <2>3. services \subseteq services'
    BY <1>6 DEF Client, envVars, AddService
  <2> QED BY <2>1, <2>2, <2>3 DEF Tells, Joins, Leaves, JoinStep, LeaveStep, Enabled
<1>7. CASE GenOption(k)
  <2>1. Joins(k)
    BY <1>7 DEF GenOption, At, Joins, JoinStep
  <2>2. life'[k].boot = life[k].boot /\ life'[k].at \in JoinStep
    BY <1>7, GenOptionMoves DEF Becomes, JoinStep
  <2>3. services \subseteq services'
    BY <1>7 DEF GenOption, envVars, AddService
  <2> QED BY <2>1, <2>2, <2>3 DEF Tells, Joins, Leaves, JoinStep, LeaveStep, Enabled
<1>8. CASE GenRead(k)
  <2>1. Joins(k)
    BY <1>8 DEF GenRead, At, Joins, JoinStep
  <2>2. life'[k].boot = life[k].boot /\ life'[k].at \in JoinStep
    BY <1>8, GenReadMoves DEF Becomes, JoinStep
  <2>3. services \subseteq services'
    BY <1>8 DEF GenRead, envVars, AddService
  <2> QED BY <2>1, <2>2, <2>3 DEF Tells, Joins, Leaves, JoinStep, LeaveStep, Enabled
<1>9. CASE GenWrite(k)
  <2>1. Joins(k)
    BY <1>9 DEF GenWrite, At, Joins, JoinStep
  <2>2. life'[k].boot = life[k].boot /\ life'[k].at \in JoinStep
    BY <1>9, GenWriteMoves, LifeFields DEF Becomes, JoinStep
  <2>3. services \subseteq services'
    BY <1>9 DEF GenWrite, envVars, AddService
  <2> QED BY <2>1, <2>2, <2>3 DEF Tells, Joins, Leaves, JoinStep, LeaveStep, Enabled
<1>10. CASE EnableRow(k)
  <2>1. Joins(k)
    BY <1>10 DEF EnableRow, At, Joins, JoinStep
  <2>2. life'[k].boot = life[k].boot /\ life'[k].at \in JoinStep
    BY <1>10, EnableRowMoves DEF Becomes, JoinStep
  <2>3. services \subseteq services'
    BY <1>10 DEF EnableRow, envVars, AddService
  <2> QED BY <2>1, <2>2, <2>3 DEF Tells, Joins, Leaves, JoinStep, LeaveStep, Enabled
<1>11. CASE StartApps(k)
  <2>1. life[k].plan # <<>>
    BY <1>11 DEF StartApps, LifeKept, ServiceStep, At
  <2>2. Joins(k)
    BY <1>11 DEF StartApps, At, Joins, JoinStep
  <2>3. life'[k].boot = life[k].boot /\ life'[k].at \in JoinStep
    BY <1>11, <2>1, StartAppsMoves DEF Becomes, JoinStep
  <2>4. services \subseteq services'
    BY <1>11 DEF StartApps, envVars, AddService
  <2> QED BY <2>2, <2>3, <2>4 DEF Tells, Joins, Leaves, JoinStep, LeaveStep, Enabled
<1>12. CASE Listen(k)
  <2>1. life[k].plan # <<>>
    BY <1>12 DEF Listen, LifeKept, ServiceStep, At
  <2>2. Joins(k)
    BY <1>12 DEF Listen, At, Joins, JoinStep
  <2>3. life'[k].boot = life[k].boot /\ life'[k].at \in JoinStep
    BY <1>12, <2>1, ListenMoves DEF Becomes, JoinStep
  <2>4. services \subseteq services'
    BY <1>12 DEF Listen, envVars, AddService
  <2> QED BY <2>2, <2>3, <2>4 DEF Tells, Joins, Leaves, JoinStep, LeaveStep, Enabled
<1>13. CASE Rollback(k)
  <2>1. Joins(k)
    BY <1>13 DEF Rollback, At, Joins, JoinStep
  <2>2. Enabled(k, "central") => lapsed' = Node
    BY <1>13, ServiceAssumption DEF Rollback, Fail, RemoveService
  <2>3. members \subseteq Node
    BY TypeParts DEF TableType
  <2> QED BY <2>1, <2>2, <2>3 DEF Tells, Joins, Leaves, JoinStep, LeaveStep
<1>14. CASE Relisten(k)
  <2>1. Joins(k)
    BY <1>14 DEF Relisten, At, Joins, JoinStep
  <2>2. /\ life'[k].boot = life[k].boot
        /\ \/ life'[k].at \in JoinStep
           \/ Enabled(k, "central") => lapsed' = Node
    BY <1>14, RelistenMoves DEF Becomes, JoinStep
  <2>3. services' = services /\ members \subseteq Node
    BY <1>14, TypeParts DEF Relisten, envVars, TableType
  <2> QED BY <2>1, <2>2, <2>3 DEF Tells, Joins, Leaves, JoinStep, LeaveStep, Enabled
<1>15. CASE RemoteOption(k)
  <2>1. Joins(k)
    BY <1>15 DEF RemoteOption, At, Joins, JoinStep
  <2>2. /\ life'[k].boot = life[k].boot
        /\ \/ life'[k].at \in JoinStep
           \/ Enabled(k, "central") => lapsed' = Node
    BY <1>15, RemoteOptionMoves DEF Becomes, JoinStep
  <2>3. services' = services /\ members \subseteq Node
    BY <1>15, TypeParts DEF RemoteOption, envVars, TableType
  <2> QED BY <2>1, <2>2, <2>3 DEF Tells, Joins, Leaves, JoinStep, LeaveStep, Enabled
<1>16. CASE RemoteRead(k)
  <2>1. Joins(k)
    BY <1>16 DEF RemoteRead, At, Joins, JoinStep
  <2>2. life'[k].boot = life[k].boot /\ life'[k].at \in JoinStep
    BY <1>16, RemoteReadMoves DEF Becomes, JoinStep
  <2>3. services \subseteq services'
    BY <1>16 DEF RemoteRead, envVars, AddService
  <2> QED BY <2>1, <2>2, <2>3 DEF Tells, Joins, Leaves, JoinStep, LeaveStep, Enabled
<1>17. CASE RemoteSet(k)
  <2>1. life[k].plan # <<>>
    BY <1>17 DEF RemoteSet, LifeKept, ServiceStep, At
  <2>2. Joins(k)
    BY <1>17 DEF RemoteSet, At, Joins, JoinStep
  <2>3. life'[k].boot = life[k].boot /\ life'[k].at \in JoinStep
    BY <1>17, <2>1, RemoteSetMoves DEF Becomes, JoinStep
  <2>4. services \subseteq services'
    BY <1>17 DEF RemoteSet, envVars, AddService
  <2> QED BY <2>2, <2>3, <2>4 DEF Tells, Joins, Leaves, JoinStep, LeaveStep, Enabled
<1>18. CASE Finish(k)
  <2>1. Joins(k)
    BY <1>18 DEF Finish, At, Joins, JoinStep
  <2>2. ~life[k].boot => members \ {k} \subseteq pending' \cup lapsed'
    BY <1>18 DEF Finish, Notify, Told
  <2> QED BY <2>1, <2>2 DEF Tells, Joins, Leaves, JoinStep, LeaveStep
<1>19. CASE ErrorAt(k)
  <2>1. Joins(k)
    BY <1>19 DEF ErrorAt, At, Joins, JoinStep
  <2>2. Enabled(k, "central") => lapsed' = Node
    BY <1>19, ServiceAssumption DEF ErrorAt, Fail, RemoveService
  <2>3. members \subseteq Node
    BY TypeParts DEF TableType
  <2> QED BY <2>1, <2>2, <2>3 DEF Tells, Joins, Leaves, JoinStep, LeaveStep
<1> QED BY <1>1, <1>2, <1>3, <1>4, <1>5, <1>6, <1>7, <1>8, <1>9, <1>10, <1>11, <1>12,
      <1>13, <1>14, <1>15, <1>16, <1>17, <1>18, <1>19 DEF JoinActs

\* The other nodes.
LEMMA JoinActsOthers ==
  ASSUME TypeOK, NEW k \in Node, LifeKept(k), JoinActs(k),
         NEW n \in Node \ {k}, CopiesKept(n)
  PROVE  CopiesKept(n)'
<1>1. JoinFrame(k) /\ JoinAround(k)
  BY JoinActsFrame, JoinActsAround
<1>2. life'[n] = life[n] /\ SameRows(n)
  BY <1>1 DEF JoinFrame
<1>3. \A m \in members \ {n} :
        Tells(m) => Tells(m)' \/ n \in pending' \cup lapsed' \/ n \notin members
  <2> SUFFICES ASSUME NEW m \in members \ {n}, Tells(m), n \in members
               PROVE  Tells(m)' \/ n \in pending' \cup lapsed'
    OBVIOUS
  <2>1. CASE m = k
    BY <2>1, JoinActsTell
  <2>2. CASE m # k
    <3>1. life'[m] = life[m] /\ SameRows(m)
      BY <1>1, <2>2 DEF JoinFrame, TypeOK
    <3> QED BY <3>1 DEF Tells, Joins, Leaves, SameRows
  <2> QED BY <2>1, <2>2
<1>4. Present(n)' => Present(n) /\ n \in members
  BY <1>1, <1>2 DEF Present, JoinAround, At
<1> SUFFICES ASSUME Present(n)' PROVE CopiesKept(n)'
  BY DEF CopiesKept
<1>5. Excused(n) => Excused(n)'
  <2> SUFFICES ASSUME Excused(n) PROVE Excused(n)'
    OBVIOUS
  <2>1. n \in pending \cup lapsed => n \in pending' \cup lapsed'
    BY <1>1 DEF JoinAround
  <2>2. ASSUME NEW m \in members \ {n}, Tells(m) PROVE Excused(n)'
    <3>1. m \in members' \ {n} /\ (Tells(m)' \/ n \in pending' \cup lapsed')
      BY <1>1, <1>3, <1>4, <2>2 DEF JoinAround
    <3> QED BY <3>1 DEF Excused
  <2>3. Leaves(n) => Leaves(n)'
    BY <1>2 DEF Leaves
  <2>4. cfg' = cfg
    BY <1>1 DEF JoinAround
  <2> QED BY <2>1, <2>2, <2>3, <2>4 DEF Excused
<1>6. Excused(n)' \/ (CentralIps' = CentralIps /\ option' = option)
  <2>1. option' = option
    BY <1>1 DEF JoinAround
  <2>2. CASE EnableRow(k) /\ Svc(k) = "central"
    <3>1. /\ Enabled(k, "central")' /\ life'[k].at = "gen" /\ life'[k].boot = life[k].boot
          /\ Joins(k) /\ members' = members
      BY <2>2, RowAdded, EnableRowMoves DEF EnableRow, Becomes, Joins, At, JoinStep
    <3>2. k \in members /\ ~life[k].boot
      BY <1>4, <3>1 DEF LifeKept, Joins, JoinStep
    <3>3. Tells(k)'
      BY <3>1, <3>2 DEF Tells, Joins, JoinStep
    <3> QED BY <3>1, <3>2, <3>3 DEF Excused
  <2>3. CASE EnableRow(k) /\ Svc(k) # "central"
    <3>1. Centrals' = Centrals
      BY <2>3, RowAdded DEF EnableRow
    <3> QED BY <2>1, <3>1 DEF CentralIps
  <2>4. CASE Rollback(k)
    <3>1. CASE Svc(k) = "central" \/ Enabled(k, "central")
      <4>1. lapsed' = Node
        BY <2>4, <3>1, ServiceAssumption DEF Rollback
      <4> QED BY <4>1 DEF Excused
    <3>2. CASE ~(Svc(k) = "central" \/ Enabled(k, "central"))
      <4>1. Centrals' = Centrals
        BY <2>4, <3>2, RowRemoved DEF Rollback
      <4> QED BY <2>1, <4>1 DEF CentralIps
    <3> QED BY <3>1, <3>2
  <2>5. CASE services' = services
    BY <2>1, <2>5, SameIps
  <2>6. EnableRow(k) \/ Rollback(k) \/ services' = services
    BY DEF JoinActs, Bootstrap, StoreCa, Join, Count, Decide, Client, GenOption,
       GenRead, GenWrite, StartApps, Listen, Relisten, RemoteOption, RemoteRead,
       RemoteSet, Finish, ErrorAt, envVars
  <2> QED BY <2>2, <2>3, <2>4, <2>5, <2>6
<1> QED BY <1>1, <1>2, <1>4, <1>5, <1>6, CopiesElsewhere DEF JoinAround

\* The node itself.
LEMMA JoinActsOwn ==
  ASSUME TypeOK, NEW n \in Node, LifeKept(n), OrderKept(n), JoinActs(n), CopiesKept(n)
  PROVE  CopiesKept(n)'
<1>0. JoinFrame(n) /\ JoinAround(n)
  BY JoinActsFrame, JoinActsAround
<1>a. Excused(n) => Excused(n)' \/ GenOption(n)
  <2> SUFFICES ASSUME Excused(n), ~GenOption(n) PROVE Excused(n)'
    OBVIOUS
  <2>1. n \in pending \cup lapsed => n \in pending' \cup lapsed'
    BY <1>0 DEF JoinAround
  <2>2. ASSUME NEW m \in members \ {n}, Tells(m) PROVE Excused(n)'
    <3>1. life'[m] = life[m] /\ SameRows(m)
      BY <1>0 DEF JoinFrame, TypeOK
    <3>2. m \in members' \ {n} /\ Tells(m)'
      BY <1>0, <2>2, <3>1 DEF JoinAround, Tells, Joins, Leaves, SameRows
    <3> QED BY <3>2 DEF Excused
  <2>3. ~Leaves(n)
    BY DEF JoinActs, Bootstrap, StoreCa, Join, Count, Decide, Client, GenOption,
       GenRead, GenWrite, EnableRow, StartApps, Listen, Rollback, Relisten,
       RemoteOption, RemoteRead, RemoteSet, Finish, ErrorAt, Leaves, LeaveStep, At
  <2>4. cfg' = cfg
    BY <1>0 DEF JoinAround
  <2> QED BY <2>1, <2>2, <2>3, <2>4 DEF Excused
<1>b. Present(n)' /\ (Fresh(n) \/ ~Present(n)) => Fresh(n)'
  <2> SUFFICES ASSUME Present(n)', Fresh(n) \/ ~Present(n) PROVE Fresh(n)'
    OBVIOUS
  <2>1. CASE Bootstrap(n)
    <3>1. life'[n].at \in {"ca", "count"}
      BY <2>1, BootstrapMoves DEF Begins
    <3> QED BY <3>1 DEF Fresh, EnvCurrent, RemoteCurrent, Stage, View, Joins, JoinStep
  <2>2. CASE StoreCa(n)
    <3>1. life'[n].at \in {"gen", "option"}
      BY <2>2, StoreCaMoves DEF Becomes
    <3> QED BY <3>1 DEF Fresh, EnvCurrent, RemoteCurrent, Stage, View, Joins, JoinStep
  <2>3. CASE Join(n)
    <3>1. life'[n].at \in {"ca", "count"}
      BY <2>3, JoinMoves DEF Begins
    <3> QED BY <3>1 DEF Fresh, EnvCurrent, RemoteCurrent, Stage, View, Joins, JoinStep
  <2>4. CASE Count(n)
    <3>1. life'[n].at \in {"gen", "option"}
      BY <2>4, CountMoves DEF Becomes
    <3> QED BY <3>1 DEF Fresh, EnvCurrent, RemoteCurrent, Stage, View, Joins, JoinStep
  <2>5. CASE Decide(n)
    <3>1. life'[n].at \in {"gen", "option"}
      BY <2>5, DecideMoves DEF Becomes
    <3> QED BY <3>1 DEF Fresh, EnvCurrent, RemoteCurrent, Stage, View, Joins, JoinStep
  <2>6. CASE Client(n)
    <3>1. Joins(n) /\ Present(n) /\ rf[n].at = "none"
      BY <2>6 DEF Client, Joins, JoinStep, Present, At, In, Leaves, LeaveStep, LifeKept
    <3>2. CentralIps' = CentralIps /\ option' = option
      BY <2>6, SameIps DEF Client, envVars
    <3>3. SameRows(n)
      BY <2>6, SameTable DEF Client, envVars
    <3>4. /\ life[n].at = "client" /\ life'[n].at \in {"service", "failed"}
          /\ life'[n].plan = life[n].plan
      BY <2>6, ClientMoves DEF Client, Becomes, At
    <3>5. env' = env /\ remote' = remote
      BY <2>6 DEF Client, envVars
    <3>6. life[n].plan = <<>> => ~Enabled(n, "chassis")
      BY <3>4, <3>1 DEF OrderKept, Chooses, At
    <3> QED BY <3>1, <3>2, <3>3, <3>4, <3>5, <3>6 DEF Fresh, EnvCurrent, RemoteCurrent,
          Stage, View, Joins, JoinStep, SameRows, Present, At
  <2>7. CASE GenOption(n)
    <3>1. CentralIps' = CentralIps /\ option' = option
      BY <2>7, SameIps DEF GenOption, envVars
    <3>2. /\ life'[n].at = (IF option # {} THEN "write" ELSE "read")
          /\ life'[n].view = option
      BY <2>7, GenOptionMoves DEF Becomes
    <3> QED BY <3>1, <3>2 DEF Fresh, EnvCurrent, RemoteCurrent, Stage, View, Joins,
          JoinStep, CentralIps
  <2>8. CASE GenRead(n)
    <3>1. Joins(n) /\ Present(n) /\ rf[n].at = "none"
      BY <2>8 DEF GenRead, Joins, JoinStep, Present, At, In, Leaves, LeaveStep, LifeKept
    <3>2. CentralIps' = CentralIps /\ option' = option
      BY <2>8, SameIps DEF GenRead, envVars
    <3>3. SameRows(n)
      BY <2>8, SameTable DEF GenRead, envVars
    <3>4. life[n].at = "read" /\ life'[n].at = "write" /\ life'[n].view = Centrals
      BY <2>8, GenReadMoves DEF GenRead, Becomes, At
    <3> QED BY <3>1, <3>2, <3>3, <3>4 DEF Fresh, EnvCurrent, RemoteCurrent, Stage, View,
          Joins, JoinStep, SameRows, CentralIps
  <2>9. CASE GenWrite(n)
    <3>1. Joins(n) /\ Present(n) /\ rf[n].at = "none"
      BY <2>9 DEF GenWrite, Joins, JoinStep, Present, At, In, Leaves, LeaveStep,
         LifeKept
    <3>2. CentralIps' = CentralIps /\ option' = option
      BY <2>9, SameIps DEF GenWrite, envVars
    <3>3. SameRows(n)
      BY <2>9, SameTable DEF GenWrite, envVars
    <3>4. /\ life[n].at = "write" /\ life'[n].plan = life[n].plan
          /\ life'[n].at \in {"client", "start", "service", "relisten"}
      BY <2>9, GenWriteMoves, LifeFields DEF GenWrite, Becomes, At
    <3>5. env'[n] = life[n].view
      BY <2>9, TypeParts DEF GenWrite, TableType
    <3>6. life[n].plan = <<>> => ~Enabled(n, "chassis")
      BY <3>4, <3>1 DEF OrderKept, Chooses, At
    <3> QED BY <3>1, <3>2, <3>3, <3>4, <3>5, <3>6 DEF Fresh, EnvCurrent, RemoteCurrent,
          Stage, View, Joins, JoinStep, SameRows
  <2>10. CASE EnableRow(n)
    <3>1. life'[n].at \in {"gen", "option"}
      BY <2>10, EnableRowMoves DEF Becomes
    <3> QED BY <3>1 DEF Fresh, EnvCurrent, RemoteCurrent, Stage, View, Joins, JoinStep
  <2>11. CASE StartApps(n)
    <3>1. life[n].plan # <<>>
      BY <2>11 DEF StartApps, LifeKept, ServiceStep, At
    <3>2. Joins(n) /\ Present(n) /\ rf[n].at = "none"
      BY <2>11 DEF StartApps, Joins, JoinStep, Present, At, In, Leaves, LeaveStep,
         LifeKept
    <3>3. CentralIps' = CentralIps /\ option' = option
      BY <2>11, SameIps DEF StartApps, envVars
    <3>4. SameRows(n)
      BY <2>11, SameTable DEF StartApps, envVars
    <3>5. env' = env /\ remote' = remote
      BY <2>11 DEF StartApps, envVars
    <3>6. /\ life[n].at = "start"
          /\ \/ life'[n].at \in {"listen", "remoteOpt", "rollback"}
             \/ life'[n].at = "service" /\ Svc(n) # "chassis"
      BY <2>11, <3>1, StartAppsMoves DEF StartApps, Becomes, At
    <3>7. Enabled(n, "chassis") => Svc(n) = "chassis"
      BY <3>6, <3>2 DEF OrderKept, Chooses, At
    <3> QED BY <3>2, <3>3, <3>4, <3>6, <3>5, <3>7 DEF Fresh, EnvCurrent, RemoteCurrent,
          Stage, View, Joins, JoinStep, SameRows
  <2>12. CASE Listen(n)
    <3>1. life[n].plan # <<>>
      BY <2>12 DEF Listen, LifeKept, ServiceStep, At
    <3>2. Joins(n) /\ Present(n) /\ rf[n].at = "none"
      BY <2>12 DEF Listen, Joins, JoinStep, Present, At, In, Leaves, LeaveStep, LifeKept
    <3>3. CentralIps' = CentralIps /\ option' = option
      BY <2>12, SameIps DEF Listen, envVars
    <3>4. SameRows(n)
      BY <2>12, SameTable DEF Listen, envVars
    <3>5. env' = env /\ remote' = remote
      BY <2>12 DEF Listen, envVars
    <3>6. life[n].at = "listen" /\ life'[n].at \in {"gen", "rollback"}
      BY <2>12, <3>1, ListenMoves DEF Listen, Becomes, At
    <3> QED BY <3>2, <3>3, <3>4, <3>6, <3>5 DEF Fresh, EnvCurrent, RemoteCurrent, Stage,
          View, Joins, JoinStep, SameRows
  <2>13. CASE Rollback(n)
    <3>1. life'[n].at = "failed"
      BY <2>13, RollbackMoves DEF Becomes
    <3> QED BY <3>1 DEF Present, At
  <2>14. CASE Relisten(n)
    <3>1. Joins(n) /\ Present(n) /\ rf[n].at = "none"
      BY <2>14 DEF Relisten, Joins, JoinStep, Present, At, In, Leaves, LeaveStep,
         LifeKept
    <3>2. CentralIps' = CentralIps /\ option' = option
      BY <2>14, SameIps DEF Relisten, envVars
    <3>3. SameRows(n)
      BY <2>14, SameTable DEF Relisten, envVars
    <3>4. /\ life[n].at = "relisten" /\ life'[n].at \in {"service", "failed"}
          /\ life'[n].plan = life[n].plan
      BY <2>14, RelistenMoves DEF Relisten, Becomes, At
    <3>5. env' = env /\ remote' = remote
      BY <2>14 DEF Relisten, envVars
    <3>6. life[n].plan = <<>> => ~Enabled(n, "chassis")
      BY <3>4, <3>1 DEF OrderKept, Chooses, At
    <3> QED BY <3>1, <3>2, <3>3, <3>4, <3>5, <3>6 DEF Fresh, EnvCurrent, RemoteCurrent,
          Stage, View, Joins, JoinStep, SameRows, Present, At
  <2>15. CASE RemoteOption(n)
    <3>1. Joins(n) /\ Present(n) /\ rf[n].at = "none"
      BY <2>15 DEF RemoteOption, Joins, JoinStep, Present, At, In, Leaves, LeaveStep,
         LifeKept
    <3>2. CentralIps' = CentralIps /\ option' = option
      BY <2>15, SameIps DEF RemoteOption, envVars
    <3>3. SameRows(n)
      BY <2>15, SameTable DEF RemoteOption, envVars
    <3>4. env' = env /\ remote' = remote
      BY <2>15 DEF RemoteOption, envVars
    <3>5. /\ life[n].at = "remoteOpt"
          /\ \/ /\ life'[n].at = (IF option # {} THEN "remoteSet" ELSE "remoteRead")
                /\ life'[n].view = option
             \/ life'[n].at = "failed"
      BY <2>15, RemoteOptionMoves DEF RemoteOption, Becomes, At
    <3> QED BY <3>1, <3>2, <3>3, <3>5, <3>4 DEF Fresh, EnvCurrent, RemoteCurrent, Stage,
          View, Joins, JoinStep, SameRows, CentralIps, Present, At
  <2>16. CASE RemoteRead(n)
    <3>1. Joins(n) /\ Present(n) /\ rf[n].at = "none"
      BY <2>16 DEF RemoteRead, Joins, JoinStep, Present, At, In, Leaves, LeaveStep,
         LifeKept
    <3>2. CentralIps' = CentralIps /\ option' = option
      BY <2>16, SameIps DEF RemoteRead, envVars
    <3>3. SameRows(n)
      BY <2>16, SameTable DEF RemoteRead, envVars
    <3>4. env' = env /\ remote' = remote
      BY <2>16 DEF RemoteRead, envVars
    <3>5. /\ life[n].at = "remoteRead" /\ life'[n].at = "remoteSet"
          /\ life'[n].view = Centrals
      BY <2>16, RemoteReadMoves DEF RemoteRead, Becomes, At
    <3> QED BY <3>1, <3>2, <3>3, <3>5, <3>4 DEF Fresh, EnvCurrent, RemoteCurrent, Stage,
          View, Joins, JoinStep, SameRows, CentralIps
  <2>17. CASE RemoteSet(n)
    <3>1. life[n].plan # <<>>
      BY <2>17 DEF RemoteSet, LifeKept, ServiceStep, At
    <3>2. Joins(n) /\ Present(n) /\ rf[n].at = "none"
      BY <2>17 DEF RemoteSet, Joins, JoinStep, Present, At, In, Leaves, LeaveStep,
         LifeKept
    <3>3. CentralIps' = CentralIps /\ option' = option
      BY <2>17, SameIps DEF RemoteSet, envVars
    <3>4. SameRows(n)
      BY <2>17, SameTable DEF RemoteSet, envVars
    <3>5. life[n].at = "remoteSet" /\ life'[n].at = "service"
      BY <2>17, <3>1, RemoteSetMoves DEF RemoteSet, Becomes, At
    <3>6. env' = env /\ remote'[n] = life[n].view
      BY <2>17, TypeParts DEF RemoteSet, SetRemote, TableType
    <3> QED BY <3>2, <3>3, <3>4, <3>5, <3>6 DEF Fresh, EnvCurrent, RemoteCurrent, Stage,
          View, Joins, JoinStep, SameRows
  <2>18. CASE Finish(n)
    <3>1. Joins(n) /\ Present(n) /\ rf[n].at = "none"
      BY <2>18 DEF Finish, Joins, JoinStep, Present, At, In, Leaves, LeaveStep, LifeKept
    <3>2. CentralIps' = CentralIps /\ option' = option
      BY <2>18, SameIps DEF Finish, envVars
    <3>3. SameRows(n)
      BY <2>18, SameTable DEF Finish, envVars
    <3>4. life[n].at = "service" /\ life[n].plan = <<>> /\ life'[n].at = "in"
      BY <2>18, FinishMoves DEF Finish, Becomes, At
    <3>5. /\ env' = env /\ remote' = remote /\ rf' = rf
          /\ Enabled(n, "chassis") \/ n \in missed'
      BY <2>18 DEF Finish, envVars
    <3> QED BY <3>1, <3>2, <3>3, <3>4, <3>5 DEF Fresh, EnvCurrent, RemoteCurrent, Stage,
          View, Joins, JoinStep, SameRows
  <2>19. CASE ErrorAt(n)
    <3>1. life'[n].at = "failed"
      BY <2>19, ErrorAtMoves DEF Becomes
    <3> QED BY <3>1 DEF Present, At
  <2> QED BY <2>1, <2>2, <2>3, <2>4, <2>5, <2>6, <2>7, <2>8, <2>9, <2>10, <2>11, <2>12,
        <2>13, <2>14, <2>15, <2>16, <2>17, <2>18, <2>19 DEF JoinActs
<1>c. GenOption(n) => Fresh(n)'
  <2> SUFFICES ASSUME GenOption(n) PROVE Fresh(n)'
    OBVIOUS
  <2>1. CentralIps' = CentralIps /\ option' = option
    BY SameIps DEF GenOption, envVars
  <2>2. life'[n].at = (IF option # {} THEN "write" ELSE "read") /\ life'[n].view = option
    BY GenOptionMoves DEF Becomes
  <2> QED BY <2>1, <2>2 DEF Fresh, EnvCurrent, RemoteCurrent, Stage, View, Joins,
        JoinStep, CentralIps
<1> QED BY <1>a, <1>b, <1>c DEF CopiesKept

\* A node that leaves tells all the others.
LEMMA LeaveActsCopies ==
  ASSUME TypeOK, \A m \in Node : LifeKept(m), NEW k \in Node, LeaveActs(k)
  PROVE  \A n \in Node : CopiesKept(n)'
<1>0. LeavesStep(k) /\ LifeKept(k)' /\ k \in members
  <2>1. LeavesStep(k) /\ LifeKept(k)'
    BY LeaveActsStep, LeaveActsLife
  <2> QED BY <2>1 DEF LeavesStep, LifeKept, LeaveStep
<1>1. CASE k \in members'
  <2>1. Leaves(k)'
    BY <1>0, <1>1 DEF LeavesStep, LifeKept, Leaves, LeaveStep
  <2>2. \A n \in Node : Excused(n)'
    BY <1>1, <2>1 DEF Excused, Tells
  <2> QED BY <2>2 DEF CopiesKept
<1>2. CASE k \notin members'
  <2>1. Removed(k)
    BY <1>0, <1>2 DEF LeaveActs, Remove, DisableCheck, DisableLast, DisableRow, Quit,
       WaitRemoved, Rename, Halt
  <2>2. members' = members \ {k} /\ members \ {k} \subseteq pending' \cup lapsed'
    BY <2>1 DEF Removed
  <2> QED BY <2>2 DEF CopiesKept, Excused, Present
<1> QED BY <1>1, <1>2

\* What a refresh leaves alone.
RefreshAround(k) ==
  /\ life' = life /\ services' = services /\ members' = members
  /\ option' = option /\ cfg' = cfg
  /\ pending \ {k} \subseteq pending' /\ (RefreshLock(k) \/ pending' = pending)
  /\ lapsed \ {k} \subseteq lapsed' /\ (RefreshOption(k) \/ lapsed' = lapsed)
  /\ \A n \in Node \ {k} : /\ env'[n] = env[n] /\ remote'[n] = remote[n] /\ rf'[n] = rf[n]
                           /\ n \in missed' <=> n \in missed

\* All its actions.
LEMMA RefreshActsAround ==
  ASSUME TypeOK, NEW k \in Node, RefreshActs(k)
  PROVE  RefreshAround(k)
<1>0. env \in [Node -> SUBSET Address] /\ remote \in [Node -> SUBSET Address]
  BY DEF TypeOK
<1>1. CASE RefreshLock(k)
  <2>1. \A n \in Node \ {k} : rf'[n] = rf[n]
    BY <1>1, RefreshLockMoves DEF Refreshed
  <2> QED BY <1>0, <1>1, <2>1 DEF RefreshLock, RefreshAround, envVars, ghostVars
<1>2. CASE RefreshOption(k)
  <2>1. \A n \in Node \ {k} : rf'[n] = rf[n]
    BY <1>2, RefreshOptionMoves DEF Refreshed
  <2> QED BY <1>0, <1>2, <2>1 DEF RefreshOption, RefreshAround, envVars, ghostVars
<1>3. CASE RefreshRead(k)
  <2>1. \A n \in Node \ {k} : rf'[n] = rf[n]
    BY <1>3, RefreshReadMoves DEF Refreshed
  <2> QED BY <1>0, <1>3, <2>1 DEF RefreshRead, RefreshAround, envVars, ghostVars
<1>4. CASE RefreshWrite(k)
  <2>1. \A n \in Node \ {k} : rf'[n] = rf[n]
    BY <1>4, RefreshWriteMoves DEF Refreshed
  <2> QED BY <1>0, <1>4, <2>1 DEF RefreshWrite, RefreshAround, envVars, ghostVars
<1>5. CASE RefreshRemote(k)
  <2>1. \A n \in Node \ {k} : rf'[n] = rf[n]
    BY <1>5, RefreshRemoteMoves DEF Refreshed
  <2> QED BY <1>0, <1>5, <2>1 DEF RefreshRemote, RefreshAround, envVars, ghostVars
<1>6. CASE RefreshSet(k)
  <2>1. \A n \in Node \ {k} : rf'[n] = rf[n]
    BY <1>6, RefreshSetMoves DEF Refreshed
  <2> QED BY <1>0, <1>6, <2>1 DEF RefreshSet, RefreshAround, envVars, ghostVars,
        SetRemote
<1> QED BY <1>1, <1>2, <1>3, <1>4, <1>5, <1>6 DEF RefreshActs

\* A refresh reads the addresses after it was asked for.
LEMMA RefreshActsCopies ==
  ASSUME TypeOK, \A m \in Node : LifeKept(m), \A m \in Node : CopiesKept(m),
         NEW k \in Node, RefreshActs(k)
  PROVE  \A n \in Node : CopiesKept(n)'
<1>0. RefreshAround(k)
  BY RefreshActsAround
<1>1. /\ CentralIps' = CentralIps /\ \A n : SameRows(n)
      /\ \A n \in Node : (Present(n)' <=> Present(n)) /\ (Tells(n)' <=> Tells(n))
      /\ \A n \in Node : (Leaves(n)' <=> Leaves(n)) /\ (Joins(n)' <=> Joins(n))
  <2>1. CentralIps' = CentralIps /\ \A n : SameRows(n)
    BY <1>0, SameIps, SameTable DEF RefreshAround
  <2> QED BY <1>0, <2>1 DEF RefreshAround, Present, At, Tells, Joins, Leaves, SameRows
<1>2. \A n \in Node :
        Excused(n) /\ (n \in pending \cup lapsed => n \in pending' \cup lapsed')
          => Excused(n)'
  BY <1>0, <1>1 DEF Excused, RefreshAround, TypeOK
<1>3. ASSUME NEW n \in Node \ {k} PROVE CopiesKept(n)'
  <2>1. Excused(n) => Excused(n)'
    BY <1>0, <1>2 DEF RefreshAround
  <2> QED BY <1>0, <1>1, <2>1, CopiesElsewhere DEF RefreshAround
<1> SUFFICES ASSUME Present(k) PROVE Excused(k)' \/ Fresh(k)'
  BY <1>1, <1>3 DEF CopiesKept
<1>4. CASE RefreshLock(k)
  <2>1. ~Joins(k) /\ rf[k].at = "none" /\ ~At(k, "failed") /\ k \in members
    BY <1>4 DEF RefreshLock, Refreshes, Present
  <2>2. In(k) \/ Leaves(k)
    BY <2>1, LifeFields DEF LifeKept, In, Leaves, Joins, At, HookStep
  <2>3. rf'[k].at = "gen"
    BY <1>4, <2>2, RefreshLockMoves DEF Refreshed
  <2> QED BY <1>1, <2>1, <2>3 DEF Fresh, EnvCurrent, RemoteCurrent, Stage, View
<1>5. CASE ~RefreshLock(k)
  <2>1. rf[k].at # "none" /\ ~Joins(k)
    BY <1>5 DEF RefreshActs, RefreshOption, RefreshRead, RefreshWrite, RefreshRemote,
       RefreshSet, LifeKept, In, At, Leaves, Joins, JoinStep, LeaveStep
  <2>2. /\ Stage(k) = rf[k].at /\ Stage(k)' = rf'[k].at
        /\ View(k) = rf[k].view /\ View(k)' = rf'[k].view
    BY <1>1, <2>1 DEF Stage, View
  <2>3. option' = option
    BY <1>0 DEF RefreshAround
  <2>4. CASE RefreshOption(k)
    <3>1. rf'[k].at = (IF option # {} THEN "write" ELSE "read") /\ rf'[k].view = option
      BY <2>4, RefreshOptionMoves DEF Refreshed
    <3> QED BY <1>1, <2>2, <2>3, <3>1 DEF Fresh, EnvCurrent, RemoteCurrent, CentralIps
  <2>5. CASE ~RefreshOption(k)
    <3>1. Excused(k) => Excused(k)'
      BY <1>0, <1>2, <1>5, <2>5 DEF RefreshAround
    <3> SUFFICES ASSUME Fresh(k) PROVE Fresh(k)'
      BY <3>1 DEF CopiesKept
    <3>2. CASE RefreshRead(k)
      <4>1. rf[k].at = "read" /\ rf'[k].at = "write" /\ rf'[k].view = Centrals
        BY <3>2, RefreshReadMoves DEF RefreshRead, Refreshed
      <4> QED BY <1>1, <2>2, <2>3, <4>1 DEF Fresh, EnvCurrent, RemoteCurrent, CentralIps
    <3>3. CASE RefreshWrite(k)
      <4>1. /\ rf[k].at = "write"
            /\ \/ rf'[k].at = "remoteOpt"
               \/ rf'[k].at = "none" /\ k \in missed'
        BY <3>3, RefreshWriteMoves DEF RefreshWrite, Refreshed
      <4>2. env'[k] = rf[k].view
        BY <3>3, TypeParts DEF RefreshWrite, TableType
      <4> QED BY <1>1, <2>2, <4>1, <4>2 DEF Fresh, EnvCurrent, RemoteCurrent
    <3>4. CASE RefreshRemote(k)
      <4>1. \/ /\ rf[k].at = "remoteOpt" /\ rf'[k].view = option
               /\ rf'[k].at = (IF option # {} THEN "remoteSet" ELSE "remoteRead")
            \/ rf[k].at = "remoteRead" /\ rf'[k].at = "remoteSet" /\ rf'[k].view = Centrals
        BY <3>4, RefreshRemoteMoves DEF Refreshed
      <4>2. env' = env
        BY <3>4 DEF RefreshRemote, envVars
      <4> QED BY <1>1, <2>2, <2>3, <4>1, <4>2 DEF Fresh, EnvCurrent, RemoteCurrent,
            CentralIps
    <3>5. CASE RefreshSet(k)
      <4>1. rf[k].at = "remoteSet" /\ rf'[k].at = "none"
        BY <3>5, RefreshSetMoves DEF RefreshSet, Refreshed
      <4>2. env' = env /\ (remote'[k] = rf[k].view \/ k \in missed')
        BY <3>5, TypeParts DEF RefreshSet, SetRemote, TableType
      <4> QED BY <1>1, <2>2, <4>1, <4>2 DEF Fresh, EnvCurrent, RemoteCurrent
    <3> QED BY <1>5, <2>5, <3>2, <3>3, <3>4, <3>5 DEF RefreshActs
  <2> QED BY <2>4, <2>5
<1> QED BY <1>4, <1>5

\* The option, and what reaches no address at all.
LEMMA OthersCopies ==
  ASSUME TypeOK, \A m \in Node : CopiesKept(m),
         \/ \E n \in Node : RaftActs(n)
         \/ SetConfig \/ DeleteConfig \/ ConfigUpdated \/ UNCHANGED vars
  PROVE  \A n \in Node : CopiesKept(n)'
<1>1. CASE SetConfig \/ DeleteConfig
  <2>1. cfg' = "fan"
    BY <1>1 DEF SetConfig, DeleteConfig, Configures
  <2> QED BY <2>1 DEF CopiesKept, Excused
<1>2. CASE ConfigUpdated
  <2>1. members' = members /\ members \subseteq pending' \cup lapsed'
    BY <1>2 DEF ConfigUpdated, Notify
  <2> QED BY <2>1 DEF CopiesKept, Excused, Present
<1>3. CASE (\E n \in Node : RaftActs(n)) \/ UNCHANGED vars
  <2>1. UNCHANGED <<envVars, ghostVars, members, option, life, pending, rf, cfg>>
    BY <1>3 DEF RaftActs, vars
  <2>2. /\ services' = services /\ env' = env /\ remote' = remote /\ lapsed' = lapsed
        /\ missed' = missed
    BY <2>1 DEF envVars, ghostVars
  <2>3. CentralIps' = CentralIps /\ \A n : SameRows(n)
    BY <2>1, <2>2, SameIps, SameTable
  <2>4. \A n : Present(n)' => Present(n)
    BY <2>1 DEF Present, At
  <2>5. \A n : Excused(n) => Excused(n)'
    BY <2>1, <2>2, <2>3 DEF Excused, Tells, Joins, Leaves, SameRows
  <2> QED BY <2>1, <2>2, <2>3, <2>4, <2>5, CopiesElsewhere
<1> QED BY <1>1, <1>2, <1>3

---------------------------------------------------------------------------
(* Snap services of a node on which nothing failed.                        *)

\* The service at hand has its row while it is enabled, none when it is stopped.
RowKept(n) ==
  /\ At(n, "start") \/ (life[n].at \in GenerateStep /\ life[n].next = "start") =>
       Enabled(n, Svc(n))
  /\ life[n].at \in {"quit", "wait", "rename", "halt"} => ~Enabled(n, Svc(n))

\* A service of snap runs that has a row, or is about to be stopped.
AppsRowed(n) ==
  /\ \A svc \in {"chassis", "switch"} :
       svc \in apps[n] => Enabled(n, svc) \/ (At(n, "halt") /\ Svc(n) = svc)
  /\ "ovsdb" \in apps[n] =>
       \/ Enabled(n, "central")
       \/ life[n].at \in {"quit", "wait", "rename", "halt"} /\ Svc(n) = "central"

\* Leave has every service before it that is enabled.
PlanCovers(n) ==
  Leaves(n) =>
    \A svc \in {"chassis", "switch"} : Enabled(n, svc) => svc \in Listed(life[n].plan)

\* Snap services follow the rows of the table.
AppsKept(n) ==
  life[n].at \notin {"failed", "gone"} => RowKept(n) /\ AppsRowed(n) /\ PlanCovers(n)

\* Where a step reaches neither the hook nor the rows of a node.
LEMMA AppsElsewhere ==
  ASSUME NEW m, AppsKept(m), life'[m] = life[m], SameRows(m),
         \A a : a \in apps'[m] => a \in apps[m] \/ a = "northd"
  PROVE  AppsKept(m)'
<1>1. RowKept(m) => RowKept(m)'
  BY DEF RowKept, SameRows, At, Svc
<1>2. AppsRowed(m) => AppsRowed(m)'
  BY DEF AppsRowed, SameRows, At, Svc
<1>3. PlanCovers(m) => PlanCovers(m)'
  BY DEF PlanCovers, SameRows, Leaves
<1> QED BY <1>1, <1>2, <1>3 DEF AppsKept

\* A hook that does not leave and starts nothing.
LEMMA JoinKeepsApps ==
  ASSUME NEW n, AppsKept(n), life[n].at \notin LeaveStep \cup {"failed", "gone"},
         life'[n].at \notin LeaveStep,
         services \subseteq services', apps' = apps, RowKept(n)'
  PROVE  AppsKept(n)'
<1>1. ~Leaves(n)' /\ AppsRowed(n)
  BY DEF Leaves, AppsKept
<1>2. AppsRowed(n)'
  BY <1>1 DEF AppsRowed, Enabled, At, LeaveStep
<1> QED BY <1>1, <1>2 DEF AppsKept, PlanCovers

\* A node that bootstraps or joins.
LEMMA JoinActsApps ==
  ASSUME TypeOK, NEW n \in Node, LifeKept(n), \A m \in Node : AppsKept(m), JoinActs(n),
         faults' = faults
  PROVE  \A m \in Node : AppsKept(m)'
<1>0. JoinFrame(n) /\ life[n].at \notin LeaveStep \cup {"failed", "gone"}
  BY JoinActsFrame DEF JoinActs, Bootstrap, StoreCa, Join, Count, Decide, Client,
     GenOption, GenRead, GenWrite, EnableRow, StartApps, Listen, Rollback, Relisten,
     RemoteOption, RemoteRead, RemoteSet, Finish, ErrorAt, At, LeaveStep
<1>a. \A m \in Node \ {n} : apps'[m] = apps[m]
  BY TypeParts DEF JoinActs, Bootstrap, StoreCa, Join, Count, Decide, Client, GenOption,
     GenRead, GenWrite, EnableRow, StartApps, Listen, Rollback, Relisten, RemoteOption,
     RemoteRead, RemoteSet, Finish, ErrorAt, clusterVars, SnapStart, ClusterType
<1> SUFFICES AppsKept(n)'
  BY <1>0, <1>a, AppsElsewhere DEF JoinFrame
<1>b. RowKept(n)
  BY <1>0 DEF AppsKept
<1>1. CASE Bootstrap(n)
  <2>1. services' = services /\ apps' = apps
    BY <1>1 DEF Bootstrap, envVars, clusterVars
  <2>2. life'[n].at \in {"ca"}
    BY <1>1, BootstrapMoves DEF Begins
  <2>3. RowKept(n)' /\ life'[n].at \notin LeaveStep
    BY <2>2 DEF RowKept, At, GenerateStep, LeaveStep
  <2> QED BY <1>0, <2>1, <2>3, JoinKeepsApps
<1>2. CASE StoreCa(n)
  <2>1. services' = services /\ apps' = apps
    BY <1>2 DEF StoreCa, envVars, clusterVars
  <2>2. life'[n].at = "gen" /\ life'[n].next = "client"
    BY <1>2, StoreCaMoves DEF Becomes
  <2>3. RowKept(n)' /\ life'[n].at \notin LeaveStep
    BY <2>2 DEF RowKept, At, GenerateStep, LeaveStep
  <2> QED BY <1>0, <2>1, <2>3, JoinKeepsApps
<1>3. CASE Join(n)
  <2>1. services' = services /\ apps' = apps
    BY <1>3 DEF Join, envVars, clusterVars
  <2>2. life'[n].at \in {"count"}
    BY <1>3, JoinMoves DEF Begins
  <2>3. RowKept(n)' /\ life'[n].at \notin LeaveStep
    BY <2>2 DEF RowKept, At, GenerateStep, LeaveStep
  <2> QED BY <1>0, <2>1, <2>3, JoinKeepsApps
<1>4. CASE Count(n)
  <2>1. services' = services /\ apps' = apps
    BY <1>4 DEF Count, envVars, clusterVars
  <2>2. life'[n].at \in {"option"}
    BY <1>4, CountMoves DEF Becomes
  <2>3. RowKept(n)' /\ life'[n].at \notin LeaveStep
    BY <2>2 DEF RowKept, At, GenerateStep, LeaveStep
  <2> QED BY <1>0, <2>1, <2>3, JoinKeepsApps
<1>5. CASE Decide(n)
  <2>1. services' = services /\ apps' = apps
    BY <1>5 DEF Decide, envVars, clusterVars
  <2>2. life'[n].at = "gen" /\ life'[n].next = "client"
    BY <1>5, DecideMoves DEF Becomes
  <2>3. RowKept(n)' /\ life'[n].at \notin LeaveStep
    BY <2>2 DEF RowKept, At, GenerateStep, LeaveStep
  <2> QED BY <1>0, <2>1, <2>3, JoinKeepsApps
<1>6. CASE Client(n)
  <2>1. services' = services /\ apps' = apps
    BY <1>6 DEF Client, envVars, clusterVars
  <2>2. life'[n].at \in {"service"}
    BY <1>6, ClientMoves DEF Becomes
  <2>3. RowKept(n)' /\ life'[n].at \notin LeaveStep
    BY <2>2 DEF RowKept, At, GenerateStep, LeaveStep
  <2> QED BY <1>0, <2>1, <2>3, JoinKeepsApps
<1>7. CASE GenOption(n)
  <2>1. services' = services /\ apps' = apps
    BY <1>7 DEF GenOption, envVars, clusterVars
  <2>2. /\ life[n].at = "gen" /\ life'[n].at \in {"read", "write"}
        /\ life'[n].plan = life[n].plan /\ life'[n].next = life[n].next
    BY <1>7, GenOptionMoves DEF GenOption, Becomes, At
  <2>3. life'[n].at \notin LeaveStep \cup {"quit", "wait", "rename", "halt"}
    BY <2>2, LifeFields DEF LeaveStep
  <2>4. RowKept(n)'
    BY <2>2, <2>3, <2>1, <1>b DEF RowKept, At, Svc, GenerateStep, Enabled
  <2> QED BY <1>0, <2>1, <2>3, <2>4, JoinKeepsApps
<1>8. CASE GenRead(n)
  <2>1. services' = services /\ apps' = apps
    BY <1>8 DEF GenRead, envVars, clusterVars
  <2>2. /\ life[n].at = "read" /\ life'[n].at = "write"
        /\ life'[n].plan = life[n].plan /\ life'[n].next = life[n].next
    BY <1>8, GenReadMoves DEF GenRead, Becomes, At
  <2>3. life'[n].at \notin LeaveStep \cup {"quit", "wait", "rename", "halt"}
    BY <2>2, LifeFields DEF LeaveStep
  <2>4. RowKept(n)'
    BY <2>2, <2>3, <2>1, <1>b DEF RowKept, At, Svc, GenerateStep, Enabled
  <2> QED BY <1>0, <2>1, <2>3, <2>4, JoinKeepsApps
<1>9. CASE GenWrite(n)
  <2>1. services' = services /\ apps' = apps
    BY <1>9 DEF GenWrite, envVars, clusterVars
  <2>2. /\ life[n].at = "write" /\ life'[n].at = life[n].next
        /\ life'[n].plan = life[n].plan /\ life'[n].next = life[n].next
    BY <1>9, GenWriteMoves DEF GenWrite, Becomes, At
  <2>3. life'[n].at \notin LeaveStep \cup {"quit", "wait", "rename", "halt"}
    BY <2>2, LifeFields DEF LeaveStep
  <2>4. RowKept(n)'
    BY <2>2, <2>3, <2>1, <1>b DEF RowKept, At, Svc, GenerateStep, Enabled
  <2> QED BY <1>0, <2>1, <2>3, <2>4, JoinKeepsApps
<1>10. CASE EnableRow(n)
  <2>1. life'[n].at = "gen" /\ life'[n].plan = life[n].plan
    BY <1>10, EnableRowMoves DEF Becomes
  <2>2. Enabled(n, Svc(n))' /\ services \subseteq services' /\ apps' = apps
    BY <1>10, RowAdded, <2>1 DEF EnableRow, clusterVars, AddService, Svc
  <2>3. RowKept(n)'
    BY <2>1, <2>2 DEF RowKept, At
  <2> QED BY <1>0, <2>1, <2>2, <2>3, JoinKeepsApps DEF LeaveStep
<1>11. CASE StartApps(n)
  <2>1. life[n].plan # <<>>
    BY <1>11 DEF StartApps, LifeKept, ServiceStep, At
  <2>2. services' = services /\ SameRows(n) /\ Enabled(n, Svc(n))
    BY <1>11, <1>b, SameTable DEF StartApps, envVars, RowKept
  <2>3. /\ \/ Svc(n) = "central" /\ life'[n].at = "listen"
           \/ Svc(n) = "chassis" /\ life'[n].at = "remoteOpt"
           \/ Svc(n) \notin {"central", "chassis"} /\ life'[n].at = "service"
        /\ apps' = [apps EXCEPT ![n] = @ \cup AppSet(Svc(n))]
    <3>1. ~Fault("error")
      BY MembershipBounds DEF Fault, TypeOK
    <3> QED BY <1>11, <2>1, <3>1, StartAppsMoves DEF Becomes, SnapStart
  <2>4. apps'[n] = apps[n] \cup AppSet(Svc(n))
    BY <2>3 DEF TypeOK
  <2>5. RowKept(n)' /\ ~Leaves(n)'
    BY <2>3 DEF RowKept, At, GenerateStep, Leaves, LeaveStep
  <2>6. Svc(n) \in {"central", "chassis", "switch"}
    BY <2>1, SvcType, ServiceAssumption
  <2>7. \A svc \in {"chassis", "switch"} : svc \in AppSet(Svc(n)) => svc = Svc(n)
    BY <2>6, AppSetValue
  <2>8. "ovsdb" \in AppSet(Svc(n)) => Svc(n) = "central"
    BY <2>6, AppSetValue
  <2>9. AppsRowed(n)
    BY <1>0 DEF AppsKept
  <2>10. AppsRowed(n)'
    <3>1. life[n].at = "start"
      BY <1>11 DEF StartApps, At
    <3> QED BY <2>2, <2>4, <2>7, <2>8, <2>9, <3>1 DEF AppsRowed, SameRows, At
  <2> QED BY <2>5, <2>10 DEF AppsKept, PlanCovers
<1>12. CASE Listen(n)
  <2>1. life[n].plan # <<>>
    BY <1>12 DEF Listen, LifeKept, ServiceStep, At
  <2>2. services' = services /\ apps' = apps
    BY <1>12 DEF Listen, envVars, clusterVars
  <2>3. \/ life'[n].at = "rollback"
        \/ life'[n].at = "gen" /\ life'[n].next \in {"relisten", "service"}
    BY <1>12, <2>1, ListenMoves DEF Becomes
  <2>4. RowKept(n)' /\ life'[n].at \notin LeaveStep
    BY <2>3 DEF RowKept, At, GenerateStep, LeaveStep
  <2> QED BY <1>0, <2>2, <2>4, JoinKeepsApps
<1>13. CASE Rollback(n)
  <2>1. life'[n].at = "failed"
    BY <1>13, RollbackMoves DEF Becomes
  <2> QED BY <2>1 DEF AppsKept
<1>14. CASE Relisten(n)
  <2>1. services' = services /\ apps' = apps
    BY <1>14 DEF Relisten, envVars, clusterVars
  <2>2. life'[n].at \in {"service", "failed"}
    BY <1>14, RelistenMoves DEF Becomes
  <2>3. RowKept(n)' /\ life'[n].at \notin LeaveStep
    BY <2>2 DEF RowKept, At, GenerateStep, LeaveStep
  <2> QED BY <1>0, <2>1, <2>3, JoinKeepsApps
<1>15. CASE RemoteOption(n)
  <2>1. services' = services /\ apps' = apps
    BY <1>15 DEF RemoteOption, envVars, clusterVars
  <2>2. life'[n].at \in {"remoteSet", "remoteRead", "failed"}
    BY <1>15, RemoteOptionMoves DEF Becomes
  <2>3. RowKept(n)' /\ life'[n].at \notin LeaveStep
    BY <2>2 DEF RowKept, At, GenerateStep, LeaveStep
  <2> QED BY <1>0, <2>1, <2>3, JoinKeepsApps
<1>16. CASE RemoteRead(n)
  <2>1. services' = services /\ apps' = apps
    BY <1>16 DEF RemoteRead, envVars, clusterVars
  <2>2. life'[n].at \in {"remoteSet"}
    BY <1>16, RemoteReadMoves DEF Becomes
  <2>3. RowKept(n)' /\ life'[n].at \notin LeaveStep
    BY <2>2 DEF RowKept, At, GenerateStep, LeaveStep
  <2> QED BY <1>0, <2>1, <2>3, JoinKeepsApps
<1>17. CASE RemoteSet(n)
  <2>1. life[n].plan # <<>>
    BY <1>17 DEF RemoteSet, LifeKept, ServiceStep, At
  <2>2. services' = services /\ apps' = apps
    BY <1>17 DEF RemoteSet, envVars, clusterVars
  <2>3. life'[n].at \in {"service"}
    BY <1>17, <2>1, RemoteSetMoves DEF Becomes
  <2>4. RowKept(n)' /\ life'[n].at \notin LeaveStep
    BY <2>3 DEF RowKept, At, GenerateStep, LeaveStep
  <2> QED BY <1>0, <2>2, <2>4, JoinKeepsApps
<1>18. CASE Finish(n)
  <2>1. services' = services /\ apps' = apps
    BY <1>18 DEF Finish, envVars, clusterVars
  <2>2. life'[n].at \in {"in"}
    BY <1>18, FinishMoves DEF Becomes
  <2>3. RowKept(n)' /\ life'[n].at \notin LeaveStep
    BY <2>2 DEF RowKept, At, GenerateStep, LeaveStep
  <2> QED BY <1>0, <2>1, <2>3, JoinKeepsApps
<1>19. CASE ErrorAt(n)
  <2>1. life'[n].at = "failed"
    BY <1>19, ErrorAtMoves DEF Becomes
  <2> QED BY <2>1 DEF AppsKept
<1> QED BY <1>1, <1>2, <1>3, <1>4, <1>5, <1>6, <1>7, <1>8, <1>9, <1>10, <1>11, <1>12,
      <1>13, <1>14, <1>15, <1>16, <1>17, <1>18, <1>19 DEF JoinActs

\* A node that leaves.
LEMMA LeaveActsApps ==
  ASSUME TypeOK, NEW n \in Node, LifeKept(n), \A m \in Node : AppsKept(m), LeaveActs(n),
         faults' = faults
  PROVE  \A m \in Node : AppsKept(m)'
<1>0. LeavesStep(n) /\ life[n].plan \in Seq(Service)
  BY LeaveActsStep, LifeFields
<1>a. \A m \in Node \ {n} : apps'[m] = apps[m]
  BY TypeParts DEF LeaveActs, Remove, DisableCheck, DisableLast, DisableRow, Quit,
     WaitRemoved, Rename, Halt, Removed, clusterVars, SnapStop, LeaveCommand, MoveAside,
     ClusterType
<1> SUFFICES AppsKept(n)'
  BY <1>0, <1>a, AppsElsewhere DEF LeavesStep
<1>b. RowKept(n) /\ AppsRowed(n) /\ PlanCovers(n)
  BY <1>0 DEF AppsKept, LeavesStep, LeaveStep
<1>c. life[n].plan # <<>> =>
        \A x \in Listed(life[n].plan) : x = Svc(n) \/ x \in Listed(Tail(life[n].plan))
  BY <1>0, TailFacts DEF Svc
<1>1. CASE Remove(n)
  <2>1. life[n].at = "in" /\ life'[n].at = "leave" /\ life'[n].plan = DisableAll
    BY <1>1, RemoveMoves DEF Becomes, Remove, In, At
  <2>2. apps' = apps /\ services' = services
    BY <1>1 DEF Remove, clusterVars, envVars
  <2>3. \A svc \in {"chassis", "switch"} : Enabled(n, svc) => svc \in Listed(DisableAll)
    <3>1. \A svc : Enabled(n, svc) => svc \in Service
      BY DEF TypeOK, Enabled
    <3> QED BY <3>1, DisableAllType DEF Listed
  <2>4. RowKept(n)' /\ AppsRowed(n)'
    BY <1>b, <2>1, <2>2 DEF RowKept, AppsRowed, At, GenerateStep, Enabled
  <2>5. PlanCovers(n)'
    BY <2>1, <2>2, <2>3 DEF PlanCovers, Enabled, Listed
  <2> QED BY <2>4, <2>5 DEF AppsKept
<1>2. CASE DisableCheck(n)
  <2>1. /\ life[n].at = "leave" /\ life[n].plan # <<>>
        /\ \/ /\ ~Enabled(n, Svc(n)) /\ life'[n].at = "leave"
              /\ life'[n].plan = Tail(life[n].plan)
           \/ life'[n].at \in {"last", "delete"} /\ life'[n].plan = life[n].plan
    BY <1>2, DisableCheckMoves DEF Becomes, DisableCheck, At
  <2>2. apps' = apps /\ services' = services
    BY <1>2 DEF DisableCheck, clusterVars, envVars
  <2>3. RowKept(n)' /\ AppsRowed(n)'
    BY <1>b, <2>1, <2>2 DEF RowKept, AppsRowed, At, GenerateStep, Enabled
  <2>4. PlanCovers(n)'
    <3>1. Leaves(n) /\ \A svc : Enabled(n, svc)' <=> Enabled(n, svc)
      BY <2>1, <2>2 DEF Leaves, LeaveStep, Enabled
    <3>2. CASE life'[n].plan = life[n].plan
      BY <1>b, <3>1, <3>2 DEF PlanCovers
    <3>3. CASE ~Enabled(n, Svc(n)) /\ life'[n].plan = Tail(life[n].plan)
      BY <1>b, <1>c, <2>1, <3>1, <3>3 DEF PlanCovers
    <3> QED BY <2>1, <3>2, <3>3
  <2> QED BY <2>3, <2>4 DEF AppsKept
<1>3. CASE DisableLast(n)
  <2>1. life[n].plan # <<>> /\ Svc(n) = "central"
    BY <1>3 DEF DisableLast, LifeKept, ServiceStep, LeaveStep, CentralStep, At
  <2>2. /\ life[n].at = "last"
        /\ \/ life'[n].at = "leave" /\ life'[n].plan = Tail(life[n].plan)
           \/ life'[n].at = "delete" /\ life'[n].plan = life[n].plan
    BY <1>3, <2>1, DisableLastMoves DEF Becomes, DisableLast, At
  <2>3. apps' = apps /\ services' = services
    BY <1>3 DEF DisableLast, clusterVars, envVars
  <2>4. RowKept(n)' /\ AppsRowed(n)'
    BY <1>b, <2>2, <2>3 DEF RowKept, AppsRowed, At, GenerateStep, Enabled
  <2>5. PlanCovers(n)'
    BY <1>b, <1>c, <2>1, <2>2, <2>3 DEF PlanCovers, Enabled, Leaves, LeaveStep, Listed
  <2> QED BY <2>4, <2>5 DEF AppsKept
<1>4. CASE DisableRow(n)
  <2>1. /\ life[n].at = "delete" /\ life'[n].plan = life[n].plan
        /\ life'[n].at = (IF Svc(n) = "central" THEN "quit" ELSE "halt")
    BY <1>4, DisableRowMoves DEF Becomes, DisableRow, At
  <2>2. apps' = apps
    BY <1>4 DEF DisableRow, clusterVars
  <2>3. \A s : Enabled(n, s)' <=> (Enabled(n, s) /\ s # Svc(n))
    BY <1>4, RowRemoved DEF DisableRow
  <2>4. Svc(n)' = Svc(n)
    BY <2>1 DEF Svc
  <2>5. RowKept(n)' /\ AppsRowed(n)'
    BY <1>b, <2>1, <2>2, <2>3, <2>4 DEF RowKept, AppsRowed, At, GenerateStep
  <2>6. PlanCovers(n)'
    BY <1>b, <2>1, <2>3 DEF PlanCovers, Leaves, LeaveStep, Listed
  <2> QED BY <2>5, <2>6 DEF AppsKept
<1>5. CASE Quit(n) \/ WaitRemoved(n) \/ Rename(n)
  <2>1. /\ life[n].at \in {"quit", "wait", "rename"} /\ life'[n].plan = life[n].plan
        /\ life'[n].at \in {"wait", "rename", "halt"}
    BY <1>5, QuitMoves, WaitRemovedMoves, RenameMoves DEF Becomes, Quit, WaitRemoved,
       Rename, At
  <2>2. apps' = apps /\ services' = services
    BY <1>5 DEF Quit, WaitRemoved, Rename, LeaveCommand, MoveAside, clusterVars, envVars
  <2>3. Svc(n)' = Svc(n)
    BY <2>1 DEF Svc
  <2>4. RowKept(n)' /\ AppsRowed(n)'
    BY <1>b, <2>1, <2>2, <2>3 DEF RowKept, AppsRowed, At, GenerateStep, Enabled
  <2>5. PlanCovers(n)'
    BY <1>b, <2>1, <2>2 DEF PlanCovers, Enabled, Leaves, LeaveStep, Listed
  <2> QED BY <2>4, <2>5 DEF AppsKept
<1>6. CASE Halt(n)
  <2>1. life[n].plan # <<>>
    BY <1>6 DEF Halt, LifeKept, ServiceStep, LeaveStep, At
  <2>2. life[n].at = "halt" /\ life'[n].at = "leave" /\ life'[n].plan = Tail(life[n].plan)
    BY <1>6, <2>1, HaltMoves DEF Becomes, Halt, At
  <2>3. services' = services /\ apps'[n] = apps[n] \ AppSet(Svc(n))
    <3>1. ~Fault("error")
      BY MembershipBounds DEF Fault, TypeOK
    <3>2. SnapStop(n, AppSet(Svc(n))) /\ services' = services
      BY <1>6, <3>1 DEF Halt, envVars
    <3> QED BY <3>2, TypeParts DEF SnapStop, ClusterType
  <2>4. ~Enabled(n, Svc(n))
    BY <1>b, <2>2 DEF RowKept
  <2>5. Svc(n) \in {"central", "chassis", "switch"}
    BY <2>1, SvcType, ServiceAssumption
  <2>6. /\ Svc(n) = "central" => "ovsdb" \notin apps'[n]
        /\ Svc(n) \in {"chassis", "switch"} => Svc(n) \notin apps'[n]
    BY <2>3, <2>5, AppSetValue
  <2>7. RowKept(n)' /\ AppsRowed(n)'
    BY <1>b, <2>2, <2>3, <2>6 DEF RowKept, AppsRowed, At, GenerateStep, Enabled
  <2>8. PlanCovers(n)'
    BY <1>b, <1>c, <2>1, <2>2, <2>3, <2>4 DEF PlanCovers, Enabled, Leaves, LeaveStep,
       Listed
  <2> QED BY <2>7, <2>8 DEF AppsKept
<1>7. CASE Removed(n)
  <2>1. life'[n].at = "gone"
    BY <1>7, RemovedMoves DEF Becomes
  <2> QED BY <2>1 DEF AppsKept
<1> QED BY <1>1, <1>2, <1>3, <1>4, <1>5, <1>6, <1>7 DEF LeaveActs

\* Other steps.
LEMMA OtherActsApps ==
  ASSUME TypeOK, \A m \in Node : AppsKept(m),
         \/ \E n \in Node : RefreshActs(n) \/ RaftActs(n)
         \/ SetConfig \/ DeleteConfig \/ ConfigUpdated \/ UNCHANGED vars
  PROVE  \A m \in Node : AppsKept(m)'
<1>1. life' = life /\ services' = services
  BY OthersStep DEF vars, envVars
<1>2. \A m \in Node : SameRows(m)
  BY <1>1, SameTable
<1>3. ASSUME NEW m \in Node PROVE \A a : a \in apps'[m] => a \in apps[m] \/ a = "northd"
  <2>1. CASE \E n \in Node : RefreshWrite(n)
    BY <2>1, TypeParts DEF RefreshWrite, ClusterType
  <2>2. CASE apps' = apps
    BY <2>2
  <2>3. (\E n \in Node : RefreshActs(n))
          => (\E n \in Node : RefreshWrite(n)) \/ apps' = apps
    BY DEF RefreshActs, RefreshLock, RefreshOption, RefreshRead, RefreshRemote,
       RefreshSet, clusterVars
  <2>4. (\E n \in Node : RaftActs(n)) \/ SetConfig \/ DeleteConfig \/ ConfigUpdated
          \/ UNCHANGED vars
          => apps' = apps
    BY DEF RaftActs, Joined, Departed, SetConfig, DeleteConfig, Configures,
       ConfigUpdated, vars, clusterVars
  <2> QED BY <2>1, <2>2, <2>3, <2>4
<1> QED BY <1>1, <1>2, <1>3, AppsElsewhere

\* Faults are not forgotten.
LEMMA FaultsGrow ==
  ASSUME TypeOK, [Next]_vars
  PROVE  faults' = faults \/ faults' = faults + 1
<1> DEFINE Grows == faults' = faults \/ faults' = faults + 1
<1>1. \A n \in Node : JoinActs(n) => Grows
  BY DEF JoinActs, Bootstrap, StoreCa, Join, Count, Decide, Client, GenOption, GenRead,
     GenWrite, EnableRow, StartApps, Listen, Rollback, Relisten, RemoteOption,
     RemoteRead, RemoteSet, Finish, ErrorAt, bounds, Fault, Notify
<1>2. \A n \in Node : LeaveActs(n) => Grows
  BY DEF LeaveActs, Remove, DisableCheck, DisableLast, DisableRow, Quit, WaitRemoved,
     Rename, Halt, Removed, bounds, Fault
<1>3. \A n \in Node : RefreshActs(n) => Grows
  BY DEF RefreshActs, RefreshLock, RefreshOption, RefreshRead, RefreshWrite,
     RefreshRemote, RefreshSet, bounds
<1>4. (\E n \in Node : RaftActs(n)) \/ SetConfig \/ DeleteConfig \/ ConfigUpdated
        \/ UNCHANGED vars => Grows
  BY DEF RaftActs, SetConfig, DeleteConfig, Configures, ConfigUpdated, vars, bounds,
     Fault, Notify
<1> HIDE DEF Grows
<1>5. Grows
  BY <1>1, <1>2, <1>3, <1>4 DEF Next, Idle
<1> QED BY <1>5 DEF Grows

---------------------------------------------------------------------------
(* The service central in the plan of a hook, its row and its database.    *)

\* The service central is in the list once at most.
CentralOnce(s) == \A i, j \in 1..Len(s) : s[i] = "central" /\ s[j] = "central" => i = j

\* A plan has it once at most.
LEMMA PlanOnce == ASSUME NEW S PROVE CentralOnce(Plan(S))
<1> DEFINE a == Requested("switch", S)
           b == Requested("central", S)
           c == Requested("chassis", S)
<1>1. /\ a \in Seq(Service) /\ b \in Seq(Service) /\ c \in Seq(Service)
      /\ a = <<"switch">> \/ a = <<>>
      /\ b = <<"central">> \/ b = <<>>
      /\ c = <<"chassis">> \/ c = <<>>
  BY DEF Requested
<1>2. Plan(S) = a \o b \o c
  BY DEF Plan
<1>3. Len(a) \in 0..1 /\ Len(b) \in 0..1 /\ Len(c) \in 0..1
  BY <1>1
<1> HIDE DEF a, b, c
<1>4. \A i \in 1..Len(Plan(S)) : Plan(S)[i] = "central" => i = Len(a) + 1
  BY <1>1, <1>2, <1>3, SMTT(20)
<1> QED BY <1>4 DEF CentralOnce

\* ... and so has what is left of it; what is left once central is at hand has not.
LEMMA TailOnce ==
  ASSUME NEW s \in Seq(Service), s # <<>>, CentralOnce(s)
  PROVE  /\ CentralOnce(Tail(s))
         /\ Head(s) = "central" => "central" \notin Listed(Tail(s))
<1>1. /\ Len(s) \in Nat \ {0} /\ Head(s) = s[1] /\ Len(Tail(s)) = Len(s) - 1
      /\ \A i \in 1..(Len(s) - 1) : Tail(s)[i] = s[i + 1]
  OBVIOUS
<1>2. CentralOnce(Tail(s))
  <2> SUFFICES ASSUME NEW i \in 1..Len(Tail(s)), NEW j \in 1..Len(Tail(s)),
                      Tail(s)[i] = "central", Tail(s)[j] = "central"
               PROVE  i = j
    BY DEF CentralOnce
  <2>1. i + 1 \in 1..Len(s) /\ j + 1 \in 1..Len(s)
        /\ s[i + 1] = "central" /\ s[j + 1] = "central"
    BY <1>1
  <2>2. i + 1 = j + 1
    BY <2>1 DEF CentralOnce
  <2> QED BY <2>2
<1>3. ASSUME Head(s) = "central", "central" \in Listed(Tail(s)) PROVE FALSE
  <2>1. PICK i \in 1..Len(Tail(s)) : Tail(s)[i] = "central"
    BY <1>3 DEF Listed
  <2>2. 1 \in 1..Len(s) /\ i + 1 \in 1..Len(s) /\ s[1] = "central" /\ s[i + 1] = "central"
    BY <1>1, <1>3, <2>1
  <2>3. i + 1 = 1
    BY <2>2 DEF CentralOnce
  <2> QED BY <2>3
<1> QED BY <1>2, <1>3

\* A service of the plan is being enabled.
AtHand(n) ==
  \/ life[n].at \in {"start", "listen", "rollback", "remoteOpt", "remoteRead", "remoteSet"}
  \/ life[n].at \in GenerateStep /\ life[n].next = "start"

\* The services that have no row yet.
Ahead(n) == IF AtHand(n) THEN Tail(life[n].plan) ELSE life[n].plan

\* A service at hand has its row, whatever failed.
HandKept(n) ==
  AtHand(n) => Enabled(n, Svc(n))

\* Central is still ahead of a node only while it has no row of it.
AheadKept(n) ==
  /\ Chooses(n) => ~Enabled(n, "central")
  /\ Joins(n) /\ ~Chooses(n) =>
       /\ CentralOnce(life[n].plan)
       /\ "central" \in Listed(Ahead(n)) => ~Enabled(n, "central")

\* A node has no database before it starts central, and none without its row
\* unless its hook failed or it leaves.
DbKept(n) ==
  /\ At(n, "out") \/ Joins(n) \/ In(n) => Enabled(n, "central") \/ db[n].st = "none"
  /\ AtHand(n) /\ life[n].at \in {"gen", "read", "write", "start"} /\ Svc(n) = "central" =>
       db[n].st = "none"

CentralKept(n) == HandKept(n) /\ AheadKept(n) /\ DbKept(n)

\* A step leaves no database where there was none.
NoneStays == \A m \in Node : db[m].st = "none" => db'[m].st = "none"

\* Where a step reaches neither the hook nor the rows of a node.
LEMMA CentralElsewhere ==
  ASSUME NEW m, CentralKept(m), life'[m] = life[m], SameRows(m),
         db[m].st = "none" => db'[m].st = "none"
  PROVE  CentralKept(m)'
<1>1. HandKept(m)'
  BY DEF CentralKept, HandKept, AtHand, SameRows, Svc
<1>2. AheadKept(m)'
  BY DEF CentralKept, AheadKept, AtHand, Ahead, SameRows, Chooses, Joins
<1>3. DbKept(m)'
  BY DEF CentralKept, DbKept, AtHand, SameRows, At, Joins, In, Svc
<1> QED BY <1>1, <1>2, <1>3 DEF CentralKept

\* What the databases do of which nothing starts.
LEMMA StopsNone ==
  ASSUME TypeOK, NEW n \in Node,
         \/ \E svc : SnapStop(n, AppSet(svc))
         \/ LeaveCommand(n) \/ MoveAside(n) \/ Joined(n) \/ Departed(n)
         \/ db' = db
  PROVE  NoneStays
<1>0. db \in [Node -> DatabaseWith(Address)]
  BY DEF TypeOK
<1>1. db[n] \in DatabaseWith(Address)
  BY <1>0
<1>2. NoDatabase.st = "none"
  BY DEF NoDatabase
<1>3. CASE (\E svc : SnapStop(n, AppSet(svc))) \/ MoveAside(n) \/ LeaveCommand(n)
  BY <1>0, <1>1, <1>2, <1>3 DEF SnapStop, MoveAside, LeaveCommand, NoneStays,
     DatabaseWith
<1>4. CASE Joined(n) \/ Departed(n)
  BY <1>0, <1>1, <1>4 DEF Joined, Departed, CanJoin, CanDepart, NoneStays, DatabaseWith
<1>5. CASE db' = db
  BY <1>5 DEF NoneStays
<1> QED BY <1>3, <1>4, <1>5

\* A server starts where central does.
LEMMA StartsOne ==
  ASSUME TypeOK, NEW n \in Node, NEW svc, NEW initial, SnapStart(n, AppSet(svc), initial)
  PROVE  /\ \A m \in Node \ {n} : db'[m] = db[m]
         /\ svc # "central" => db' = db
<1>1. svc # "central" => "ovsdb" \notin AppSet(svc)
  BY AppSetValue
<1>2. db \in [Node -> DatabaseWith(Address)]
  BY DEF TypeOK
<1> QED BY <1>1, <1>2 DEF SnapStart, ServerStarted

\* A node that bootstraps or joins changes no database but its own.
LEMMA JoinActsDb ==
  ASSUME TypeOK, NEW n \in Node, JoinActs(n)
  PROVE  \/ db' = db
         \/ /\ StartApps(n) /\ Svc(n) = "central"
            /\ SnapStart(n, AppSet("central"), InitialHost(n, env[n]))
<1>1. CASE StartApps(n)
  BY <1>1, StartsOne DEF StartApps, clusterVars
<1>2. CASE ~StartApps(n)
  BY <1>2 DEF JoinActs, Bootstrap, StoreCa, Join, Count, Decide, Client, GenOption,
     GenRead, GenWrite, EnableRow, Listen, Rollback, Relisten, RemoteOption,
     RemoteRead, RemoteSet, Finish, ErrorAt, clusterVars
<1> QED BY <1>1, <1>2

\* A node that bootstraps or joins.
LEMMA JoinActsCentral ==
  ASSUME TypeOK, NEW n \in Node, LifeKept(n), \A m \in Node : CentralKept(m), JoinActs(n)
  PROVE  \A m \in Node : CentralKept(m)'
<1>0. /\ life[n].plan \in Seq(Service) /\ life[n].at \in HookStep
      /\ life[n].next \in {"client", "start", "service", "relisten"}
  BY LifeFields
<1> SUFFICES CentralKept(n)'
  <2>1. \A m \in Node \ {n} : db'[m] = db[m]
    BY JoinActsDb, StartsOne
  <2>2. \A m \in Node \ {n} : life'[m] = life[m] /\ SameRows(m)
    BY JoinActsFrame DEF JoinFrame
  <2> QED BY <2>1, <2>2, CentralElsewhere
<1>1. CASE Bootstrap(n)
  <2>1. db' = db
    BY <1>1 DEF Bootstrap, clusterVars
  <2>2. SameRows(n)
    BY <1>1, SameTable DEF Bootstrap, envVars
  <2>3. life[n].at = "out" /\ life'[n].at \in {"ca", "count"}
    BY <1>1, BootstrapMoves DEF Bootstrap, Begins, At
  <2>4. ~Enabled(n, "central")
    BY <2>3 DEF LifeKept, TypeOK, Enabled
  <2>5. db[n].st = "none"
    BY <2>3, <2>4 DEF CentralKept, DbKept, At
  <2> QED BY <2>1, <2>2, <2>3, <2>4, <2>5 DEF CentralKept, HandKept, AheadKept, DbKept,
       AtHand, Chooses, SameRows, GenerateStep, Joins
<1>2. CASE StoreCa(n)
  <2>1. db' = db
    BY <1>2 DEF StoreCa, clusterVars
  <2>2. SameRows(n)
    BY <1>2, SameTable DEF StoreCa, envVars
  <2>3. /\ life[n].at \in {"ca", "option"} /\ life'[n].at = "gen" /\ life'[n].next = "client"
        /\ life'[n].plan = Plan(Wished(n, Service))
    BY <1>2, StoreCaMoves DEF StoreCa, Becomes, At
  <2>4. CentralOnce(life'[n].plan)
    BY <2>3, PlanOnce
  <2>5. ~Enabled(n, "central") /\ db[n].st = "none"
    BY <2>3 DEF CentralKept, AheadKept, DbKept, Chooses, At, Joins, JoinStep
  <2> QED BY <2>1, <2>2, <2>3, <2>4, <2>5 DEF CentralKept, HandKept, AheadKept, DbKept,
       AtHand, Chooses, SameRows
<1>3. CASE Join(n)
  <2>1. db' = db
    BY <1>3 DEF Join, clusterVars
  <2>2. SameRows(n)
    BY <1>3, SameTable DEF Join, envVars
  <2>3. life[n].at = "out" /\ life'[n].at \in {"ca", "count"}
    BY <1>3, JoinMoves DEF Join, Begins, At
  <2>4. ~Enabled(n, "central")
    BY <2>3 DEF LifeKept, TypeOK, Enabled
  <2>5. db[n].st = "none"
    BY <2>3, <2>4 DEF CentralKept, DbKept, At
  <2> QED BY <2>1, <2>2, <2>3, <2>4, <2>5 DEF CentralKept, HandKept, AheadKept, DbKept,
       AtHand, Chooses, SameRows, GenerateStep, Joins
<1>4. CASE Count(n)
  <2>1. db' = db
    BY <1>4 DEF Count, clusterVars
  <2>2. SameRows(n)
    BY <1>4, SameTable DEF Count, envVars
  <2> QED BY <1>0, <1>4, <2>1, <2>2, CountMoves DEF Becomes, Count,
     CentralKept, HandKept, AheadKept, DbKept, AtHand, Ahead, Chooses, At, Joins, In,
     Svc, JoinStep, GenerateStep, SameRows
<1>5. CASE Decide(n)
  <2>1. db' = db
    BY <1>5 DEF Decide, clusterVars
  <2>2. SameRows(n)
    BY <1>5, SameTable DEF Decide, envVars
  <2>3. /\ life[n].at \in {"ca", "option"} /\ life'[n].at = "gen" /\ life'[n].next = "client"
        /\ life'[n].plan = Plan(Wished(n, Automatic(n)))
    BY <1>5, DecideMoves DEF Decide, Becomes, At
  <2>4. CentralOnce(life'[n].plan)
    BY <2>3, PlanOnce
  <2>5. ~Enabled(n, "central") /\ db[n].st = "none"
    BY <2>3 DEF CentralKept, AheadKept, DbKept, Chooses, At, Joins, JoinStep
  <2> QED BY <2>1, <2>2, <2>3, <2>4, <2>5 DEF CentralKept, HandKept, AheadKept, DbKept,
       AtHand, Chooses, SameRows
<1>6. CASE Client(n)
  <2>1. db' = db
    BY <1>6 DEF Client, clusterVars
  <2>2. SameRows(n)
    BY <1>6, SameTable DEF Client, envVars
  <2> QED BY <1>0, <1>6, <2>1, <2>2, ClientMoves DEF Becomes, Client,
     CentralKept, HandKept, AheadKept, DbKept, AtHand, Ahead, Chooses, At, Joins, In,
     Svc, JoinStep, GenerateStep, SameRows
<1>7. CASE GenOption(n)
  <2>1. db' = db
    BY <1>7 DEF GenOption, clusterVars
  <2>2. SameRows(n)
    BY <1>7, SameTable DEF GenOption, envVars
  <2>3. /\ life[n].at = "gen" /\ life'[n].at \in {"read", "write"}
        /\ life'[n].plan = life[n].plan /\ life'[n].next = life[n].next
    BY <1>7, GenOptionMoves DEF GenOption, Becomes, At
  <2> QED BY <2>1, <2>2, <2>3 DEF CentralKept, HandKept, AheadKept, DbKept, AtHand,
     Ahead,
       Chooses, SameRows, GenerateStep, Joins, JoinStep, At, In, Svc
<1>8. CASE GenRead(n)
  <2>1. db' = db
    BY <1>8 DEF GenRead, clusterVars
  <2>2. SameRows(n)
    BY <1>8, SameTable DEF GenRead, envVars
  <2> QED BY <1>0, <1>8, <2>1, <2>2, GenReadMoves DEF Becomes, GenRead,
     CentralKept, HandKept, AheadKept, DbKept, AtHand, Ahead, Chooses, At, Joins, In,
     Svc, JoinStep, GenerateStep, SameRows
<1>9. CASE GenWrite(n)
  <2>1. db' = db
    BY <1>9 DEF GenWrite, clusterVars
  <2>2. SameRows(n)
    BY <1>9, SameTable DEF GenWrite, envVars
  <2> QED BY <1>0, <1>9, <2>1, <2>2, GenWriteMoves DEF Becomes, GenWrite,
     CentralKept, HandKept, AheadKept, DbKept, AtHand, Ahead, Chooses, At, Joins, In,
     Svc, JoinStep, GenerateStep, SameRows
<1>10. CASE EnableRow(n)
  <2>1. db' = db
    BY <1>10 DEF EnableRow, clusterVars
  <2>2. /\ life[n].at = "service" /\ life'[n].at = "gen" /\ life'[n].next = "start"
        /\ life'[n].plan = life[n].plan /\ life[n].plan # <<>>
    BY <1>10, EnableRowMoves DEF EnableRow, Becomes, At
  <2>3. /\ \A s : Enabled(n, s)' <=> (Enabled(n, s) \/ s = Svc(n))
        /\ Svc(n)' = Svc(n)
    BY <1>10, <2>2, RowAdded DEF EnableRow, Svc
  <2>4. /\ CentralOnce(life[n].plan)
        /\ "central" \in Listed(life[n].plan) => ~Enabled(n, "central") /\ db[n].st = "none"
        /\ Enabled(n, "central") \/ db[n].st = "none"
    BY <2>2 DEF CentralKept, AheadKept, DbKept, Chooses, Joins, JoinStep, AtHand, Ahead,
       GenerateStep, At
  <2>5. /\ Svc(n) \in Listed(life[n].plan)
        /\ Listed(Tail(life[n].plan)) \subseteq Listed(life[n].plan)
        /\ Svc(n) = "central" => "central" \notin Listed(Tail(life[n].plan))
    BY <1>0, <2>2, <2>4, TailFacts, TailOnce DEF Svc
  <2>6. HandKept(n)' /\ DbKept(n)'
    BY <2>1, <2>2, <2>3, <2>4, <2>5 DEF HandKept, DbKept
  <2>7. AheadKept(n)'
    BY <2>2, <2>3, <2>4, <2>5 DEF AheadKept, Ahead, AtHand, Chooses, GenerateStep
  <2> QED BY <2>6, <2>7 DEF CentralKept
<1>11. CASE StartApps(n)
  <2>1. SameRows(n)
    BY <1>11, SameTable DEF StartApps, envVars
  <2>2. life[n].at = "start" /\ life[n].plan # <<>>
    BY <1>11 DEF StartApps, LifeKept, ServiceStep, At
  <2>3. /\ CentralOnce(life[n].plan) /\ Enabled(n, Svc(n))
        /\ "central" \in Listed(Tail(life[n].plan)) => ~Enabled(n, "central")
        /\ Enabled(n, "central") \/ db[n].st = "none"
    BY <2>2 DEF CentralKept, HandKept, AheadKept, DbKept, Chooses, Joins, JoinStep,
       AtHand, Ahead
  <2>4. Svc(n) # "central" => db' = db
    BY <1>11, JoinActsDb
  <2>5. Enabled(n, "central")' \/ db'[n].st = "none"
    BY <2>1, <2>3, <2>4 DEF SameRows
  <2>6. CentralOnce(Tail(life[n].plan))
    BY <1>0, <2>2, <2>3, TailOnce
  <2>7. \/ /\ life'[n].at \in {"listen", "remoteOpt", "rollback"} /\ life'[n].plan = life[n].plan
        \/ life'[n].at = "service" /\ life'[n].plan = Tail(life[n].plan)
    BY <1>11, <2>2, StartAppsMoves DEF Becomes
  <2>8. HandKept(n)'
    BY <2>1, <2>3, <2>7 DEF HandKept, AtHand, GenerateStep, SameRows, Svc
  <2>9. AheadKept(n)'
    BY <2>1, <2>3, <2>6, <2>7 DEF AheadKept, Ahead, AtHand, Chooses, GenerateStep,
       SameRows
  <2>10. DbKept(n)'
    BY <2>5, <2>7 DEF DbKept, AtHand, GenerateStep
  <2> QED BY <2>8, <2>9, <2>10 DEF CentralKept
<1>12. CASE Listen(n)
  <2>1. db' = db
    BY <1>12 DEF Listen, clusterVars
  <2>2. SameRows(n)
    BY <1>12, SameTable DEF Listen, envVars
  <2>3. life[n].at = "listen" /\ life[n].plan # <<>>
    BY <1>12 DEF Listen, LifeKept, ServiceStep, At
  <2>4. /\ CentralOnce(life[n].plan) /\ Enabled(n, Svc(n))
        /\ "central" \in Listed(Tail(life[n].plan)) => ~Enabled(n, "central")
        /\ Enabled(n, "central") \/ db[n].st = "none"
    BY <2>3 DEF CentralKept, HandKept, AheadKept, DbKept, Chooses, Joins, JoinStep,
       AtHand, Ahead
  <2>5. CentralOnce(Tail(life[n].plan))
    BY <1>0, <2>3, <2>4, TailOnce
  <2>6. \/ life'[n].at = "rollback" /\ life'[n].plan = life[n].plan
        \/ /\ life'[n].at \in {"gen", "service"} /\ life'[n].plan = Tail(life[n].plan)
           /\ life'[n].at = "gen" => life'[n].next # "start"
    BY <1>12, <2>3, ListenMoves DEF Becomes
  <2>7. HandKept(n)'
    BY <2>2, <2>4, <2>6 DEF HandKept, AtHand, GenerateStep, SameRows, Svc
  <2>8. AheadKept(n)'
    BY <2>2, <2>4, <2>5, <2>6 DEF AheadKept, Ahead, AtHand, Chooses, GenerateStep,
       SameRows
  <2>9. DbKept(n)'
    BY <2>1, <2>2, <2>4, <2>6 DEF DbKept, AtHand, GenerateStep, SameRows
  <2> QED BY <2>7, <2>8, <2>9 DEF CentralKept
<1>13. CASE Rollback(n)
  <2>1. db' = db
    BY <1>13 DEF Rollback, clusterVars
  <2> QED BY <1>0, <1>13, <2>1, RollbackMoves DEF Becomes, Rollback,
     CentralKept, HandKept, AheadKept, DbKept, AtHand, Ahead, Chooses, At, Joins, In,
     Svc, JoinStep, GenerateStep, SameRows
<1>14. CASE Relisten(n)
  <2>1. db' = db
    BY <1>14 DEF Relisten, clusterVars
  <2>2. SameRows(n)
    BY <1>14, SameTable DEF Relisten, envVars
  <2> QED BY <1>0, <1>14, <2>1, <2>2, RelistenMoves DEF Becomes, Relisten,
     CentralKept, HandKept, AheadKept, DbKept, AtHand, Ahead, Chooses, At, Joins, In,
     Svc, JoinStep, GenerateStep, SameRows
<1>15. CASE RemoteOption(n)
  <2>1. db' = db
    BY <1>15 DEF RemoteOption, clusterVars
  <2>2. SameRows(n)
    BY <1>15, SameTable DEF RemoteOption, envVars
  <2> QED BY <1>0, <1>15, <2>1, <2>2, RemoteOptionMoves DEF Becomes, RemoteOption,
     CentralKept, HandKept, AheadKept, DbKept, AtHand, Ahead, Chooses, At, Joins, In,
     Svc, JoinStep, GenerateStep, SameRows
<1>16. CASE RemoteRead(n)
  <2>1. db' = db
    BY <1>16 DEF RemoteRead, clusterVars
  <2>2. SameRows(n)
    BY <1>16, SameTable DEF RemoteRead, envVars
  <2> QED BY <1>0, <1>16, <2>1, <2>2, RemoteReadMoves DEF Becomes, RemoteRead,
     CentralKept, HandKept, AheadKept, DbKept, AtHand, Ahead, Chooses, At, Joins, In,
     Svc, JoinStep, GenerateStep, SameRows
<1>17. CASE RemoteSet(n)
  <2>1. db' = db
    BY <1>17 DEF RemoteSet, clusterVars
  <2>2. SameRows(n)
    BY <1>17, SameTable DEF RemoteSet, envVars
  <2>3. life[n].at = "remoteSet" /\ life[n].plan # <<>>
    BY <1>17 DEF RemoteSet, LifeKept, ServiceStep, At
  <2>4. /\ CentralOnce(life[n].plan) /\ Enabled(n, Svc(n))
        /\ "central" \in Listed(Tail(life[n].plan)) => ~Enabled(n, "central")
        /\ Enabled(n, "central") \/ db[n].st = "none"
    BY <2>3 DEF CentralKept, HandKept, AheadKept, DbKept, Chooses, Joins, JoinStep,
       AtHand, Ahead
  <2>5. CentralOnce(Tail(life[n].plan))
    BY <1>0, <2>3, <2>4, TailOnce
  <2>6. \/ life'[n].at = "rollback" /\ life'[n].plan = life[n].plan
        \/ /\ life'[n].at \in {"gen", "service"} /\ life'[n].plan = Tail(life[n].plan)
           /\ life'[n].at = "gen" => life'[n].next # "start"
    BY <1>17, <2>3, RemoteSetMoves DEF Becomes
  <2>7. HandKept(n)'
    BY <2>2, <2>4, <2>6 DEF HandKept, AtHand, GenerateStep, SameRows, Svc
  <2>8. AheadKept(n)'
    BY <2>2, <2>4, <2>5, <2>6 DEF AheadKept, Ahead, AtHand, Chooses, GenerateStep,
       SameRows
  <2>9. DbKept(n)'
    BY <2>1, <2>2, <2>4, <2>6 DEF DbKept, AtHand, GenerateStep, SameRows
  <2> QED BY <2>7, <2>8, <2>9 DEF CentralKept
<1>18. CASE Finish(n)
  <2>1. db' = db
    BY <1>18 DEF Finish, clusterVars
  <2>2. SameRows(n)
    BY <1>18, SameTable DEF Finish, envVars
  <2> QED BY <1>0, <1>18, <2>1, <2>2, FinishMoves DEF Becomes, Finish,
     CentralKept, HandKept, AheadKept, DbKept, AtHand, Ahead, Chooses, At, Joins, In,
     Svc, JoinStep, GenerateStep, SameRows
<1>19. CASE ErrorAt(n)
  <2>1. db' = db
    BY <1>19 DEF ErrorAt, clusterVars
  <2>2. SameRows(n)
    BY <1>19, SameTable DEF ErrorAt, envVars
  <2> QED BY <1>0, <1>19, <2>1, <2>2, ErrorAtMoves DEF Becomes, ErrorAt,
     CentralKept, HandKept, AheadKept, DbKept, AtHand, Ahead, Chooses, At, Joins, In,
     Svc, JoinStep, GenerateStep, SameRows
<1> QED BY <1>1, <1>2, <1>3, <1>4, <1>5, <1>6, <1>7, <1>8, <1>9, <1>10, <1>11, <1>12,
      <1>13, <1>14, <1>15, <1>16, <1>17, <1>18, <1>19 DEF JoinActs

\* What the steps of a node that leaves do to the databases.
LEMMA LeaveActsDb ==
  ASSUME NEW n \in Node, LeaveActs(n)
  PROVE  \/ \E svc : SnapStop(n, AppSet(svc))
         \/ LeaveCommand(n) \/ MoveAside(n) \/ db' = db
BY DEF LeaveActs, Remove, DisableCheck, DisableLast, DisableRow, Quit, WaitRemoved, Rename,
   Halt, Removed, clusterVars

\* ... and the others.
LEMMA OthersDb ==
  ASSUME \/ \E n \in Node : RefreshActs(n) \/ RaftActs(n)
         \/ SetConfig \/ DeleteConfig \/ ConfigUpdated \/ UNCHANGED vars
  PROVE  db' = db \/ \E n \in Node : Joined(n) \/ Departed(n)
<1>1. \A n \in Node : RefreshActs(n) => db' = db
  BY DEF RefreshActs, RefreshLock, RefreshOption, RefreshRead, RefreshWrite,
     RefreshRemote, RefreshSet, clusterVars
<1>2. SetConfig \/ DeleteConfig \/ ConfigUpdated \/ UNCHANGED vars => db' = db
  BY DEF SetConfig, DeleteConfig, Configures, ConfigUpdated, vars, clusterVars
<1>3. \A n \in Node : RaftActs(n) => Joined(n) \/ Departed(n)
  BY DEF RaftActs
<1> QED BY <1>1, <1>2, <1>3

\* Other steps.
LEMMA OtherActsCentral ==
  ASSUME TypeOK, \A m \in Node : LifeKept(m), \A m \in Node : CentralKept(m),
         \/ \E n \in Node : LeaveActs(n) \/ RefreshActs(n) \/ RaftActs(n)
         \/ SetConfig \/ DeleteConfig \/ ConfigUpdated \/ UNCHANGED vars
  PROVE  \A m \in Node : CentralKept(m)'
<1>1. CASE \E n \in Node : LeaveActs(n)
  <2>1. PICK n \in Node : LeaveActs(n)
    BY <1>1
  <2>2. NoneStays
    BY <2>1, LeaveActsDb, StopsNone
  <2>3. LeavesStep(n)
    BY <2>1, LeaveActsStep
  <2>4. CentralKept(n)'
    BY <2>3 DEF LeavesStep, CentralKept, HandKept, AheadKept, DbKept, AtHand, Chooses,
       At, Joins, In, JoinStep, LeaveStep, GenerateStep
  <2> QED BY <2>2, <2>3, <2>4, CentralElsewhere DEF LeavesStep, NoneStays
<1>2. CASE \/ \E n \in Node : RefreshActs(n) \/ RaftActs(n)
           \/ SetConfig \/ DeleteConfig \/ ConfigUpdated \/ UNCHANGED vars
  <2>1. NoneStays
    <3>1. CASE db' = db
      BY <3>1 DEF NoneStays
    <3>2. CASE \E n \in Node : Joined(n) \/ Departed(n)
      BY <3>2, StopsNone
    <3> QED BY <1>2, <3>1, <3>2, OthersDb
  <2>2. life' = life /\ \A m : SameRows(m)
    BY <1>2, OthersStep, SameTable
  <2> QED BY <2>1, <2>2, CentralElsewhere DEF NoneStays
<1> QED BY <1>1, <1>2

---------------------------------------------------------------------------
(* The era of the databases: nodes whose databases belong together.        *)
(*                                                                         *)
(* An era begins when a node that enables central finds itself the only    *)
(* central node, and will create a database.  Every node that enables      *)
(* central from then on finds others of the era and joins one of them, for *)
(* rows are only deleted of a node that will not start again.  It ends     *)
(* when the last row of it is gone and another node finds itself alone.    *)

\* Central of n is about to start on the addresses that it read.
Starting(n) ==
  /\ At(n, "start") \/ (At(n, "write") /\ life[n].next = "start")
  /\ Svc(n) = "central"

\* ... which it is about to write to the environment file, or wrote there.
HostsOf(n) == IF At(n, "start") THEN env[n] ELSE life[n].view

\* A node that is about to create a database.
Creates(n) == Starting(n) /\ HostsOf(n) = {n}

\* A node that is of a cluster of databases.
Serves(n) == db[n].st \in {"member", "leaving"}

\* Central nodes that start will join nodes of the era, or an external cluster.
HostsKept(E) ==
  \A n \in E : Starting(n) =>
    HostsOf(n) = {External} \/ (n \in HostsOf(n) /\ HostsOf(n) \subseteq E)

\* ... as those do that join.
PeersKept(E) ==
  \A n \in E : db[n].st = "joining" /\ db[n].peer \in Node => db[n].peer \in E

\* The databases of the era are one.
Agree(E) ==
  \A n, m \in E : Serves(n) /\ Serves(m) => db[n].cid = db[m].cid

\* A node that will create a database is the first of its era to.
FirstKept(E) ==
  \A n, m \in E : Creates(n) => ~Serves(m) /\ (Creates(m) => n = m)

EraOf(E) ==
  /\ IsFiniteSet(E) /\ Centrals \subseteq E
  /\ HostsKept(E) /\ PeersKept(E) /\ Agree(E) /\ FirstKept(E)

\* There is an era of all central nodes.
EraKept == \E E \in SUBSET Node : EraOf(E)

\* No node of E gets to start central, or on other addresses.
NoneStarts(E) == \A n \in E : Starting(n)' => Starting(n) /\ HostsOf(n)' = HostsOf(n)

\* No node of E begins to join or to serve another database.
NoneServes(E) ==
  \A n \in E :
    /\ db'[n].st = "joining" => db[n].st = "joining" /\ db'[n].peer = db[n].peer
    /\ Serves(n)' => Serves(n) /\ db'[n].cid = db[n].cid

\* Steps that do neither stay within the era.
LEMMA SameEra ==
  ASSUME NEW E \in SUBSET Node, EraOf(E), NoneStarts(E), NoneServes(E), Centrals' \subseteq E
  PROVE  EraOf(E)'
<1>1. HostsKept(E)'
  BY DEF EraOf, HostsKept, NoneStarts
<1>2. PeersKept(E)'
  BY DEF EraOf, PeersKept, NoneServes
<1>3. Agree(E)'
  BY DEF EraOf, Agree, NoneServes
<1>4. FirstKept(E)'
  BY DEF EraOf, FirstKept, NoneServes, NoneStarts, Creates
<1> QED BY <1>1, <1>2, <1>3, <1>4 DEF EraOf

\* A hook at any other step does not start central.
LEMMA NotStarting ==
  ASSUME NEW n, life'[n].at \notin {"start", "write"}
  PROVE  ~Starting(n)'
BY DEF Starting, At

\* A hook that goes nowhere starts what it started.
LEMMA StartsElsewhere ==
  ASSUME NEW n, life'[n] = life[n], Starting(n) => env'[n] = env[n]
  PROVE  Starting(n)' => Starting(n) /\ HostsOf(n)' = HostsOf(n)
BY DEF Starting, HostsOf, At, Svc

\* What the databases do of which nothing starts.
LEMMA StopsServe ==
  ASSUME TypeOK, NEW n \in Node,
         \/ \E svc : SnapStop(n, AppSet(svc))
         \/ LeaveCommand(n) \/ MoveAside(n) \/ Departed(n)
         \/ db' = db
  PROVE  NoneServes(Node)
<1>0. db \in [Node -> DatabaseWith(Address)]
  BY DEF TypeOK
<1>1. db[n] \in DatabaseWith(Address)
  BY <1>0
<1>2. NoDatabase.st = "none"
  BY DEF NoDatabase
<1>3. CASE (\E svc : SnapStop(n, AppSet(svc))) \/ MoveAside(n) \/ LeaveCommand(n)
  BY <1>0, <1>1, <1>2, <1>3 DEF SnapStop, MoveAside, LeaveCommand, NoneServes, Serves,
     DatabaseWith
<1>4. CASE Departed(n)
  BY <1>0, <1>1, <1>4 DEF Departed, NoneServes, Serves, DatabaseWith
<1>5. CASE db' = db
  BY <1>5 DEF NoneServes, Serves
<1> QED BY <1>3, <1>4, <1>5

\* A server that joins is of the cluster of its peer, and of its era.
LEMMA JoinedEra ==
  ASSUME TypeOK, NEW n \in Node, NEW E \in SUBSET Node, EraOf(E), Joined(n),
         life' = life, env' = env, services' = services
  PROVE  EraOf(E)'
<1>0. db \in [Node -> DatabaseWith(Address)]
  BY DEF TypeOK
<1>1. PICK p \in Node : /\ p = db[n].peer /\ db[n].st = "joining" /\ db[p].st = "member"
  BY DEF Joined, CanJoin
<1>2. /\ \A m \in Node \ {n} : db'[m] = db[m]
      /\ db'[n].st = "member" /\ db'[n].cid = db[p].cid
  <2>1. db[n] \in DatabaseWith(Address)
    BY <1>0
  <2>2. db' = [db EXCEPT ![n] = [@ EXCEPT !.st = "member", !.peer = None, !.cid = db[p].cid]]
    BY <1>1 DEF Joined
  <2> QED BY <1>0, <2>1, <2>2 DEF DatabaseWith
<1>3. NoneStarts(E) /\ Centrals' = Centrals
  BY StartsElsewhere, SameTable DEF NoneStarts
<1>4. \A m \in E \ {n} : (Serves(m)' <=> Serves(m)) /\ db'[m] = db[m]
  BY <1>2 DEF Serves
<1>5. CASE n \notin E
  <2>1. NoneServes(E)
    BY <1>4, <1>5 DEF NoneServes
  <2> QED BY <1>3, <2>1, SameEra DEF EraOf
<1>6. CASE n \in E
  <2>1. p \in E /\ Serves(p) /\ p # n
    BY <1>1, <1>6 DEF EraOf, PeersKept, Serves
  <2>2. HostsKept(E)'
    BY <1>3 DEF EraOf, HostsKept, NoneStarts
  <2>3. PeersKept(E)'
    BY <1>2, <1>4 DEF EraOf, PeersKept
  <2>4. \A m \in E : Serves(m)' => db'[m].cid = db[p].cid
    BY <1>2, <1>4, <2>1 DEF EraOf, Agree
  <2>5. Agree(E)'
    BY <2>4 DEF Agree
  <2>6. \A m \in E : ~Creates(m)
    BY <2>1 DEF EraOf, FirstKept
  <2>7. FirstKept(E)'
    BY <1>3, <2>6 DEF FirstKept, Creates, NoneStarts
  <2> QED BY <1>3, <2>2, <2>3, <2>5, <2>7 DEF EraOf
<1> QED BY <1>5, <1>6

\* The initial host of a central node is itself, where it is the only one, and
\* another one otherwise.
LEMMA InitialHostOf ==
  ASSUME NEW n \in Node, NEW C \in SUBSET Address, IsFiniteSet(C),
         n \in C \/ C = {External}
  PROVE  \/ C = {n} /\ InitialHost(n, C) = n
         \/ C # {n} /\ InitialHost(n, C) \in C \ {n}
<1>1. C \subseteq Nat /\ External # n /\ n \in Nat
  BY NodeAssumption, ExternalAssumption DEF Address
<1>2. \A x \in Nat : FirstOf({x}) = x
  BY DEF FirstOf
<1>3. \A x : Cardinality({x}) = 1
  BY FS_Singleton
<1>4. ASSUME Cardinality(C) = 1 PROVE \E x : C = {x}
  BY <1>4, FS_Singleton
<1>5. CASE C = {n}
  BY <1>1, <1>2, <1>3, <1>5 DEF InitialHost
<1>6. CASE C = {External}
  BY <1>1, <1>2, <1>3, <1>6 DEF InitialHost
<1>7. CASE n \in C /\ C # {n}
  <2>1. Cardinality(C) # 1
    BY <1>4, <1>7
  <2>2. C \ {n} # {} /\ C \ {n} \subseteq Nat
    BY <1>1, <1>7
  <2>3. FirstOf(C \ {n}) \in C \ {n}
    BY <2>2, FirstOfType
  <2> QED BY <1>7, <2>1, <2>2, <2>3 DEF InitialHost
<1> QED BY <1>5, <1>6, <1>7

\* A server that starts creates a database only for the first of its era.
LEMMA StartedEra ==
  ASSUME TypeOK, NEW n \in Node, NEW E \in SUBSET Node, EraOf(E),
         Starting(n), At(n, "start"), ~Starting(n)', NoneStarts(E), Centrals' = Centrals,
         ServerStarted(n, InitialHost(n, env[n]))
  PROVE  EraOf(E)'
<1> DEFINE h == InitialHost(n, env[n])
<1>0. db \in [Node -> DatabaseWith(Address)] /\ env[n] \in SUBSET Address
  BY DEF TypeOK
<1>1. CASE UNCHANGED <<db, servers>>
  <2>1. NoneServes(E)
    BY <1>1 DEF NoneServes, Serves
  <2> QED BY <2>1, SameEra DEF EraOf
<1>2. ASSUME \A m \in Node \ {n} : db'[m] = db[m], n \notin E PROVE EraOf(E)'
  <2>1. NoneServes(E)
    BY <1>2 DEF NoneServes, Serves
  <2> QED BY <2>1, SameEra DEF EraOf
<1>3. ASSUME n \in E
      PROVE  \/ Creates(n) /\ h = n
             \/ h \in (E \cup {External}) \ {n}
  <2>1. env[n] = {External} \/ (n \in env[n] /\ env[n] \subseteq E)
    BY <1>3 DEF EraOf, HostsKept, HostsOf
  <2>2. IsFiniteSet(env[n])
    BY <2>1, FS_Singleton, FS_Subset DEF EraOf
  <2>3. \/ env[n] = {n} /\ InitialHost(n, env[n]) = n
        \/ env[n] # {n} /\ InitialHost(n, env[n]) \in env[n] \ {n}
    BY <1>0, <2>1, <2>2, InitialHostOf
  <2> QED BY <2>1, <2>3 DEF Creates, HostsOf
<1>4. None \notin Node \cup {External} /\ External \notin Node
  BY NodeAssumption, ExternalAssumption
<1>5. CASE h \notin {n, None} /\ db' = [db EXCEPT ![n] = Joining(h)]
  <2>1. /\ \A m \in Node \ {n} : db'[m] = db[m]
        /\ db'[n].st = "joining" /\ db'[n].peer = h
    <3>1. Joining(h).st = "joining" /\ Joining(h).peer = h
      BY DEF Joining
    <3> QED BY <1>0, <1>5, <3>1
  <2>2. CASE n \in E
    <3>1. h \in Node => h \in E
      BY <1>3, <1>4, <1>5, <2>2
    <3>2. HostsKept(E)'
      BY DEF EraOf, HostsKept, NoneStarts
    <3>3. PeersKept(E)'
      BY <2>1, <3>1 DEF EraOf, PeersKept
    <3>4. \A m \in E : Serves(m)' => Serves(m) /\ db'[m] = db[m]
      BY <2>1 DEF Serves
    <3>5. Agree(E)'
      BY <3>4 DEF EraOf, Agree
    <3>6. FirstKept(E)'
      BY <3>4 DEF EraOf, FirstKept, Creates, NoneStarts
    <3> QED BY <3>2, <3>3, <3>5, <3>6 DEF EraOf
  <2> QED BY <1>2, <2>1, <2>2
<1>6. CASE h \in {n, None} /\ \E c \in FreeCluster : db' = [db EXCEPT ![n] = MemberOf(c)]
  <2>1. PICK c \in FreeCluster : db' = [db EXCEPT ![n] = MemberOf(c)]
    BY <1>6
  <2>2. MemberOf(c).st = "member"
    BY DEF MemberOf
  <2>3. /\ \A m \in Node \ {n} : db'[m] = db[m]
        /\ db'[n].st = "member"
    BY <1>0, <2>1, <2>2
  <2>4. CASE n \in E
    <3>1. Creates(n)
      BY <1>3, <1>4, <1>6, <2>4
    <3>2. \A m \in E : ~Serves(m)
      BY <2>4, <3>1 DEF EraOf, FirstKept
    <3>3. HostsKept(E)'
      BY DEF EraOf, HostsKept, NoneStarts
    <3>4. PeersKept(E)'
      BY <2>3 DEF EraOf, PeersKept
    <3>5. \A m \in E : Serves(m)' => m = n
      BY <2>3, <3>2 DEF Serves
    <3>6. Agree(E)'
      BY <3>5 DEF Agree
    <3>7. \A m \in E : ~Creates(m)'
      <4> SUFFICES ASSUME NEW m \in E, Creates(m)' PROVE FALSE
        OBVIOUS
      <4>1. m # n /\ Creates(m)
        BY DEF Creates, NoneStarts
      <4> QED BY <2>4, <3>1, <4>1 DEF EraOf, FirstKept
    <3>8. FirstKept(E)'
      BY <3>7 DEF FirstKept
    <3> QED BY <3>3, <3>4, <3>6, <3>8 DEF EraOf
  <2> QED BY <1>2, <2>3, <2>4
<1> QED BY <1>1, <1>5, <1>6 DEF ServerStarted

\* A node that read the central nodes finds them of its era; one that finds
\* nobody else begins another.
LEMMA ReadEra ==
  ASSUME TypeOK, NEW n \in Node, NEW E \in SUBSET Node, EraOf(E), CentralKept(n), GenRead(n)
  PROVE  EraKept'
<1>1. /\ life[n].at = "read" /\ life'[n].at = "write" /\ life'[n].plan = life[n].plan
      /\ life'[n].next = life[n].next /\ life'[n].view = Centrals
      /\ \A m \in Node \ {n} : life'[m] = life[m]
  BY GenReadMoves DEF GenRead, Becomes, At
<1>2. db' = db /\ env' = env /\ Centrals' = Centrals
  BY SameTable DEF GenRead, clusterVars, envVars
<1>3. \A m \in Node \ {n} : Starting(m)' => Starting(m) /\ HostsOf(m)' = HostsOf(m)
  BY <1>1, <1>2, StartsElsewhere
<1>4. \A F \in SUBSET Node : NoneServes(F)
  BY <1>2 DEF NoneServes, Serves
<1>5. CASE ~Starting(n)' \/ n \notin E
  <2>1. NoneStarts(E)
    BY <1>3, <1>5 DEF NoneStarts
  <2>2. EraOf(E)'
    BY <1>2, <1>4, <2>1, SameEra DEF EraOf
  <2> QED BY <2>2 DEF EraKept
<1>6. CASE Starting(n)' /\ n \in E
  <2>1. life[n].next = "start" /\ Svc(n) = "central" /\ HostsOf(n)' = Centrals
    BY <1>1, <1>6 DEF Starting, At, Svc, HostsOf
  <2>2. Enabled(n, "central") /\ db[n].st = "none"
    BY <1>1, <2>1 DEF CentralKept, HandKept, DbKept, AtHand, GenerateStep
  <2>3. n \in Centrals /\ Centrals \subseteq E
    BY <2>2 DEF Centrals, EraOf
  <2>4. CASE Centrals = {n}
    <3>1. IsFiniteSet({n}) /\ Centrals' \subseteq {n}
      BY <1>2, <2>4, FS_Singleton
    <3>2. HostsKept({n})'
      BY <2>1, <2>4 DEF HostsKept
    <3>3. PeersKept({n})'
      BY <1>2, <2>2 DEF PeersKept
    <3>4. Agree({n})'
      BY DEF Agree
    <3>5. FirstKept({n})'
      BY <1>2, <2>2 DEF FirstKept, Serves
    <3>6. EraOf({n})'
      BY <3>1, <3>2, <3>3, <3>4, <3>5 DEF EraOf
    <3> QED BY <3>6 DEF EraKept
  <2>5. CASE Centrals # {n}
    <3>1. HostsKept(E)'
      BY <1>3, <2>1, <2>3 DEF EraOf, HostsKept
    <3>2. PeersKept(E)' /\ Agree(E)'
      BY <1>2 DEF EraOf, PeersKept, Agree, Serves
    <3>3. \A m \in E : Creates(m)' => Creates(m)
      BY <1>3, <2>1, <2>5 DEF Creates
    <3>4. FirstKept(E)'
      BY <1>2, <3>3 DEF EraOf, FirstKept, Serves
    <3>5. EraOf(E)'
      BY <1>2, <3>1, <3>2, <3>4 DEF EraOf
    <3> QED BY <3>5 DEF EraKept
  <2> QED BY <2>4, <2>5
<1> QED BY <1>5, <1>6

\* A node that read the option joins nobody of its own.
LEMMA OptionEra ==
  ASSUME TypeOK, NEW n \in Node, NEW E \in SUBSET Node, EraOf(E), GenOption(n)
  PROVE  EraOf(E)'
<1>1. /\ life[n].at = "gen" /\ life'[n].view = option
      /\ life'[n].at = IF option # {} THEN "write" ELSE "read"
      /\ \A m \in Node \ {n} : life'[m] = life[m]
  BY GenOptionMoves DEF GenOption, Becomes, At
<1>2. db' = db /\ env' = env /\ Centrals' = Centrals
  BY SameTable DEF GenOption, clusterVars, envVars
<1>3. \A m \in Node \ {n} : Starting(m)' => Starting(m) /\ HostsOf(m)' = HostsOf(m)
  BY <1>1, <1>2, StartsElsewhere
<1>4. Starting(n)' => HostsOf(n)' = {External}
  <2>1. option \in {{}, {External}}
    BY DEF TypeOK
  <2> QED BY <1>1, <2>1 DEF Starting, HostsOf, At
<1>5. External \notin Node
  BY ExternalAssumption
<1>6. HostsKept(E)'
  BY <1>3, <1>4 DEF EraOf, HostsKept
<1>7. PeersKept(E)' /\ Agree(E)'
  BY <1>2 DEF EraOf, PeersKept, Agree, Serves
<1>8. \A m \in E : Creates(m)' => Creates(m)
  BY <1>3, <1>4, <1>5 DEF Creates
<1>9. FirstKept(E)'
  BY <1>2, <1>8 DEF EraOf, FirstKept, Serves
<1> QED BY <1>2, <1>6, <1>7, <1>9 DEF EraOf

\* A node that gets the row of central is of the era from then on.
LEMMA RowEra ==
  ASSUME TypeOK, NEW n \in Node, NEW E \in SUBSET Node, EraOf(E), CentralKept(n),
         EnableRow(n)
  PROVE  EraKept'
<1>1. /\ life[n].at = "service" /\ life[n].plan # <<>> /\ life'[n].at = "gen"
      /\ \A m \in Node \ {n} : life'[m] = life[m]
  BY EnableRowMoves DEF EnableRow, Becomes, At
<1>2. db' = db /\ env' = env
  BY DEF EnableRow, clusterVars
<1>3. NoneStarts(E)
  <2>1. ~Starting(n)'
    BY <1>1, NotStarting
  <2> QED BY <1>1, <1>2, <2>1, StartsElsewhere DEF NoneStarts
<1>4. CASE Svc(n) # "central"
  <2>1. Centrals' = Centrals
    BY <1>4, RowAdded DEF EnableRow
  <2>2. NoneServes(E)
    BY <1>2 DEF NoneServes, Serves
  <2>3. EraOf(E)'
    BY <1>3, <2>1, <2>2, SameEra DEF EraOf
  <2> QED BY <2>3 DEF EraKept
<1>5. CASE Svc(n) = "central"
  <2> DEFINE F == E \cup {n}
  <2>1. Centrals' = Centrals \cup {n}
    BY <1>5, RowAdded DEF EnableRow
  <2>2. "central" \in Listed(life[n].plan)
    BY <1>1, <1>5, LifeFields, TailFacts DEF Svc
  <2>3. db[n].st = "none"
    BY <1>1, <2>2 DEF CentralKept, AheadKept, DbKept, Chooses, Joins, JoinStep, AtHand,
       Ahead, GenerateStep
  <2>4. ~Starting(n)' /\ ~Starting(n) /\ ~Serves(n)
    BY <1>1, <2>3, NotStarting DEF Starting, Serves, At
  <2>5. HostsKept(F)'
    BY <1>3, <2>4 DEF EraOf, HostsKept, NoneStarts
  <2>6. PeersKept(F)' /\ Agree(F)'
    BY <1>2, <2>3 DEF EraOf, PeersKept, Agree, Serves
  <2>7. \A m \in F : /\ Creates(m)' => m \in E /\ Creates(m)
                     /\ Serves(m)' => m \in E /\ Serves(m)
    BY <1>2, <1>3, <2>4 DEF Creates, NoneStarts, Serves
  <2>8. FirstKept(F)'
    BY <2>7 DEF EraOf, FirstKept
  <2>9. IsFiniteSet(F) /\ F \in SUBSET Node
    BY FS_Singleton, FS_Union DEF EraOf
  <2>10. EraOf(F)'
    BY <2>1, <2>5, <2>6, <2>8, <2>9 DEF EraOf
  <2> QED BY <2>9, <2>10 DEF EraKept
<1> QED BY <1>4, <1>5

\* A node that bootstraps or joins.
LEMMA JoinActsEra ==
  ASSUME TypeOK, NEW n \in Node, LifeKept(n), CentralKept(n), EraKept, JoinActs(n)
  PROVE  EraKept'
<1>1. PICK E \in SUBSET Node : EraOf(E)
  BY DEF EraKept
<1> SUFFICES EraKept' \/ EraOf(E)'
  BY DEF EraKept
<1>2. \A m \in Node \ {n} : life'[m] = life[m]
  BY JoinActsFrame DEF JoinFrame
<1>3. ASSUME db' = db, env' = env, Centrals' \subseteq Centrals, ~Starting(n)'
      PROVE  EraOf(E)'
  <2>1. NoneStarts(E)
    BY <1>2, <1>3, StartsElsewhere DEF NoneStarts
  <2>2. NoneServes(E)
    BY <1>3 DEF NoneServes, Serves
  <2> QED BY <1>1, <1>3, <2>1, <2>2, SameEra DEF EraOf
<1>4. CASE Bootstrap(n)
  <2>1. life'[n].at \notin {"start", "write"}
    BY <1>4, BootstrapMoves DEF Begins
  <2>2. db' = db /\ env' = env /\ services' = services
    BY <1>4 DEF Bootstrap, clusterVars, envVars
  <2> QED BY <1>3, <2>1, <2>2, NotStarting, SameTable
<1>5. CASE StoreCa(n)
  <2>1. life'[n].at \notin {"start", "write"}
    BY <1>5, StoreCaMoves DEF Becomes
  <2>2. db' = db /\ env' = env /\ services' = services
    BY <1>5 DEF StoreCa, clusterVars, envVars
  <2> QED BY <1>3, <2>1, <2>2, NotStarting, SameTable
<1>6. CASE Join(n)
  <2>1. life'[n].at \notin {"start", "write"}
    BY <1>6, JoinMoves DEF Begins
  <2>2. db' = db /\ env' = env /\ services' = services
    BY <1>6 DEF Join, clusterVars, envVars
  <2> QED BY <1>3, <2>1, <2>2, NotStarting, SameTable
<1>7. CASE Count(n)
  <2>1. life'[n].at \notin {"start", "write"}
    BY <1>7, CountMoves DEF Becomes
  <2>2. db' = db /\ env' = env /\ services' = services
    BY <1>7 DEF Count, clusterVars, envVars
  <2> QED BY <1>3, <2>1, <2>2, NotStarting, SameTable
<1>8. CASE Decide(n)
  <2>1. life'[n].at \notin {"start", "write"}
    BY <1>8, DecideMoves DEF Becomes
  <2>2. db' = db /\ env' = env /\ services' = services
    BY <1>8 DEF Decide, clusterVars, envVars
  <2> QED BY <1>3, <2>1, <2>2, NotStarting, SameTable
<1>9. CASE Client(n)
  <2>1. life'[n].at \notin {"start", "write"}
    BY <1>9, ClientMoves DEF Becomes
  <2>2. db' = db /\ env' = env /\ services' = services
    BY <1>9 DEF Client, clusterVars, envVars
  <2> QED BY <1>3, <2>1, <2>2, NotStarting, SameTable
<1>10. CASE Relisten(n)
  <2>1. life'[n].at \notin {"start", "write"}
    BY <1>10, RelistenMoves DEF Becomes
  <2>2. db' = db /\ env' = env /\ services' = services
    BY <1>10 DEF Relisten, clusterVars, envVars
  <2> QED BY <1>3, <2>1, <2>2, NotStarting, SameTable
<1>11. CASE RemoteOption(n)
  <2>1. life'[n].at \notin {"start", "write"}
    BY <1>11, RemoteOptionMoves DEF Becomes
  <2>2. db' = db /\ env' = env /\ services' = services
    BY <1>11 DEF RemoteOption, clusterVars, envVars
  <2> QED BY <1>3, <2>1, <2>2, NotStarting, SameTable
<1>12. CASE RemoteRead(n)
  <2>1. life'[n].at \notin {"start", "write"}
    BY <1>12, RemoteReadMoves DEF Becomes
  <2>2. db' = db /\ env' = env /\ services' = services
    BY <1>12 DEF RemoteRead, clusterVars, envVars
  <2> QED BY <1>3, <2>1, <2>2, NotStarting, SameTable
<1>13. CASE Finish(n)
  <2>1. life'[n].at \notin {"start", "write"}
    BY <1>13, FinishMoves DEF Becomes
  <2>2. db' = db /\ env' = env /\ services' = services
    BY <1>13 DEF Finish, clusterVars, envVars
  <2> QED BY <1>3, <2>1, <2>2, NotStarting, SameTable
<1>14. CASE ErrorAt(n)
  <2>1. life'[n].at \notin {"start", "write"}
    BY <1>14, ErrorAtMoves DEF Becomes
  <2>2. db' = db /\ env' = env /\ services' = services
    BY <1>14 DEF ErrorAt, clusterVars, envVars
  <2> QED BY <1>3, <2>1, <2>2, NotStarting, SameTable
<1>15. CASE Listen(n)
  <2>1. life[n].plan # <<>>
    BY <1>15 DEF Listen, LifeKept, ServiceStep, At
  <2>2. life'[n].at \notin {"start", "write"}
    BY <1>15, <2>1, ListenMoves DEF Becomes
  <2>3. db' = db /\ env' = env /\ services' = services
    BY <1>15 DEF Listen, clusterVars, envVars
  <2> QED BY <1>3, <2>2, <2>3, NotStarting, SameTable
<1>16. CASE RemoteSet(n)
  <2>1. life[n].plan # <<>>
    BY <1>16 DEF RemoteSet, LifeKept, ServiceStep, At
  <2>2. life'[n].at \notin {"start", "write"}
    BY <1>16, <2>1, RemoteSetMoves DEF Becomes
  <2>3. db' = db /\ env' = env /\ services' = services
    BY <1>16 DEF RemoteSet, clusterVars, envVars
  <2> QED BY <1>3, <2>2, <2>3, NotStarting, SameTable
<1>17. CASE Rollback(n)
  <2>1. life'[n].at \notin {"start", "write"}
    BY <1>17, RollbackMoves DEF Becomes
  <2>2. db' = db /\ env' = env /\ Centrals' \subseteq Centrals
    BY <1>17, RowRemoved DEF Rollback, clusterVars
  <2> QED BY <1>3, <2>1, <2>2, NotStarting
<1>18. CASE GenWrite(n)
  <2>1. /\ life[n].at = "write" /\ life'[n].at = life[n].next
        /\ life'[n].plan = life[n].plan
    BY <1>18, GenWriteMoves DEF GenWrite, Becomes, At
  <2>2. /\ db' = db /\ Centrals' = Centrals
        /\ env' = [env EXCEPT ![n] = life[n].view]
    BY <1>18, SameTable DEF GenWrite, clusterVars
  <2>3. Starting(n)' => Starting(n) /\ HostsOf(n)' = HostsOf(n)
    <3>1. env'[n] = life[n].view
      BY <2>2 DEF TypeOK
    <3>2. life[n].next # "write"
      BY LifeFields
    <3> QED BY <2>1, <3>1, <3>2 DEF Starting, HostsOf, At, Svc
  <2>4. NoneStarts(E)
    BY <1>2, <2>2, <2>3, StartsElsewhere DEF NoneStarts
  <2>5. NoneServes(E)
    BY <2>2 DEF NoneServes, Serves
  <2> QED BY <1>1, <2>2, <2>4, <2>5, SameEra DEF EraOf
<1>19. CASE StartApps(n)
  <2>1. life[n].at = "start" /\ life[n].plan # <<>>
    BY <1>19 DEF StartApps, LifeKept, ServiceStep, At
  <2>2. ~Starting(n)'
    BY <1>19, <2>1, StartAppsMoves, NotStarting DEF Becomes
  <2>3. env' = env /\ Centrals' = Centrals
    BY <1>19, SameTable DEF StartApps, envVars
  <2>4. CASE db' = db
    BY <1>3, <2>2, <2>3, <2>4
  <2>5. CASE ServerStarted(n, InitialHost(n, env[n])) /\ Svc(n) = "central"
    <3>1. Starting(n) /\ At(n, "start")
      BY <2>1, <2>5 DEF Starting, At
    <3>2. NoneStarts(E)
      BY <1>2, <2>2, <2>3, StartsElsewhere DEF NoneStarts
    <3> QED BY <1>1, <2>2, <2>3, <2>5, <3>1, <3>2, StartedEra
  <2> QED BY <2>4, <2>5, JoinActsDb DEF SnapStart
<1>20. CASE GenOption(n)
  BY <1>1, <1>20, OptionEra
<1>21. CASE GenRead(n)
  BY <1>1, <1>21, ReadEra
<1>22. CASE EnableRow(n)
  BY <1>1, <1>22, RowEra
<1> QED BY <1>4, <1>5, <1>6, <1>7, <1>8, <1>9, <1>10, <1>11, <1>12, <1>13,
      <1>14, <1>15, <1>16, <1>17, <1>18, <1>19, <1>20, <1>21, <1>22 DEF JoinActs

\* Other steps.
LEMMA OtherActsEra ==
  ASSUME TypeOK, \A m \in Node : LifeKept(m), EraKept,
         \/ \E n \in Node : LeaveActs(n) \/ RefreshActs(n) \/ RaftActs(n)
         \/ SetConfig \/ DeleteConfig \/ ConfigUpdated \/ UNCHANGED vars
  PROVE  EraKept'
<1>1. PICK E \in SUBSET Node : EraOf(E)
  BY DEF EraKept
<1> SUFFICES EraOf(E)'
  BY DEF EraKept
<1>2. CASE \E n \in Node : LeaveActs(n)
  <2>1. PICK n \in Node : LeaveActs(n)
    BY <1>2
  <2>2. LeavesStep(n)
    BY <2>1, LeaveActsStep
  <2>3. NoneServes(E)
    BY <2>1, LeaveActsDb, StopsServe DEF NoneServes
  <2>4. env' = env
    BY <2>1 DEF LeaveActs, Remove, DisableCheck, DisableLast, DisableRow, Quit,
       WaitRemoved, Rename, Halt, Removed, envVars
  <2>5. ~Starting(n)'
    BY <2>2, NotStarting DEF LeavesStep, LeaveStep
  <2>6. NoneStarts(E)
    BY <2>2, <2>4, <2>5, StartsElsewhere DEF NoneStarts, LeavesStep
  <2> QED BY <1>1, <2>2, <2>3, <2>6, SameEra DEF LeavesStep, EraOf
<1>3. CASE \E n \in Node : RaftActs(n)
  <2>1. PICK n \in Node : RaftActs(n)
    BY <1>3
  <2>2. life' = life /\ env' = env /\ services' = services
    BY <2>1 DEF RaftActs, envVars
  <2>3. CASE Joined(n)
    BY <1>1, <2>2, <2>3, JoinedEra
  <2>4. CASE Departed(n)
    <3>1. NoneServes(E)
      BY <2>4, StopsServe DEF NoneServes
    <3>2. NoneStarts(E) /\ Centrals' = Centrals
      BY <2>2, StartsElsewhere, SameTable DEF NoneStarts
    <3> QED BY <1>1, <3>1, <3>2, SameEra DEF EraOf
  <2> QED BY <2>1, <2>3, <2>4 DEF RaftActs
<1>4. CASE \E n \in Node : RefreshActs(n)
  <2>1. PICK n \in Node : RefreshActs(n)
    BY <1>4
  <2>2. life' = life /\ db' = db /\ Centrals' = Centrals
    BY <2>1, OthersStep, SameTable DEF RefreshActs, RefreshLock, RefreshOption,
       RefreshRead, RefreshWrite, RefreshRemote, RefreshSet, clusterVars
  <2>3. env' = env \/ (RefreshWrite(n) /\ env' = [env EXCEPT ![n] = rf[n].view])
    BY <2>1 DEF RefreshActs, RefreshLock, RefreshOption, RefreshRead, RefreshWrite,
       RefreshRemote, RefreshSet, envVars
  <2>4. \A m \in Node : Starting(m) => env'[m] = env[m]
    <3>1. RefreshWrite(n) => In(n) \/ Leaves(n)
      BY DEF RefreshWrite, LifeKept
    <3>2. In(n) \/ Leaves(n) => ~Starting(n)
      BY DEF In, Leaves, Starting, At, LeaveStep
    <3> QED BY <2>3, <3>1, <3>2 DEF TypeOK
  <2>5. NoneStarts(E)
    BY <2>2, <2>4, StartsElsewhere DEF NoneStarts
  <2>6. NoneServes(E)
    BY <2>2 DEF NoneServes, Serves
  <2> QED BY <1>1, <2>2, <2>5, <2>6, SameEra DEF EraOf
<1>5. CASE SetConfig \/ DeleteConfig \/ ConfigUpdated \/ UNCHANGED vars
  <2>1. life' = life /\ db' = db /\ env' = env /\ services' = services
    BY <1>5 DEF SetConfig, DeleteConfig, Configures, ConfigUpdated, vars, clusterVars,
       envVars
  <2>2. NoneStarts(E) /\ NoneServes(E) /\ Centrals' = Centrals
    BY <2>1, StartsElsewhere, SameTable DEF NoneStarts, NoneServes, Serves
  <2> QED BY <1>1, <2>2, SameEra DEF EraOf
<1> QED BY <1>2, <1>3, <1>4, <1>5

---------------------------------------------------------------------------
(* The inductive invariant, and what follows from it.                      *)

\* The five things of every node, whatever fails but for the last.
MemberInv ==
  /\ TypeOK /\ IsFiniteSet(members)
  /\ \A n \in Node : LifeKept(n) /\ OrderKept(n) /\ CountKept(n) /\ CopiesKept(n)
  /\ faults = 0 => \A n \in Node : AppsKept(n)

\* The cluster before it is set up.
LEMMA InitInv == Init => MemberInv
<1> SUFFICES ASSUME Init PROVE MemberInv
  OBVIOUS
<1>1. ClusterType
  BY DEF Init, ClusterType, ServersType, NoDatabase, DatabaseWith
<1>2. TableType
  BY MembershipBounds DEF Init, TableType
<1>3. rf \in [Node -> Refreshing]
  BY DEF Init, Refreshing, NoRefresh, RefreshStep
<1> DEFINE k == [at |-> "out", boot |-> FALSE, ask |-> AutoChoice, seen |-> {},
                 plan |-> <<>>, next |-> "client", view |-> {}]
<1>4. k \in Life
  <2>1. "out" \in HookStep /\ AutoChoice \in Wanted /\ <<>> \in Seq(Service)
    BY Steps DEF Wanted
  <2> QED BY <2>1 DEF Life
<1>5. life \in [Node -> Life]
  <2>1. life = [n \in Node |-> k]
    BY DEF Init
  <2> HIDE DEF k
  <2> QED BY <1>4, <2>1
<1>6. TypeOK
  BY <1>1, <1>2, <1>3, <1>5, TypeParts
<1>7. IsFiniteSet(members)
  BY FS_EmptySet DEF Init
<1>8. \A n \in Node : /\ life[n].at = "out" /\ ~life[n].boot /\ rf[n].at = "none"
                      /\ n \notin members
  BY DEF Init, NoRefresh
<1>9. \A n \in Node : LifeKept(n) /\ OrderKept(n) /\ CountKept(n)
  BY <1>8 DEF LifeKept, OrderKept, CountKept, Joins, Leaves, In, At, Chooses, JoinStep,
     LeaveStep, ServiceStep, CentralStep, GenerateStep
<1>10. \A n \in Node : CopiesKept(n)
  BY <1>8 DEF CopiesKept, Present
<1>11. \A n \in Node : AppsKept(n)
  BY <1>8 DEF Init, AppsKept, RowKept, AppsRowed, PlanCovers, Leaves, LeaveStep, At,
     GenerateStep
<1> QED BY <1>6, <1>7, <1>9, <1>10, <1>11 DEF MemberInv

\* One node at a time becomes a member.
LEMMA MembersFinite ==
  ASSUME TypeOK, IsFiniteSet(members), \A m \in Node : LifeKept(m), Next
  PROVE  IsFiniteSet(members')
<1>1. \/ members' = members
      \/ \E n \in Node : members' \in {{n}, members \cup {n}, members \ {n}}
  <2>1. \A n \in Node :
          JoinActs(n) => members' = members \/ members' \in {{n}, members \cup {n}}
    BY DEF JoinActs, Bootstrap, StoreCa, Join, Count, Decide, Client, GenOption,
       GenRead, GenWrite, EnableRow, StartApps, Listen, Rollback, Relisten,
       RemoteOption, RemoteRead, RemoteSet, Finish, ErrorAt
  <2>2. \A n \in Node : LeaveActs(n) => members' \in {members, members \ {n}}
    BY DEF LeaveActs, Remove, DisableCheck, DisableLast, DisableRow, Quit, WaitRemoved,
       Rename, Halt, Removed
  <2> QED BY <2>1, <2>2, OthersStep DEF Next, Idle
<1>2. \A n : /\ IsFiniteSet({n}) /\ IsFiniteSet(members \cup {n})
             /\ IsFiniteSet(members \ {n})
  BY FS_Singleton, FS_Union, FS_Difference
<1> QED BY <1>1, <1>2

\* Every action keeps it.
LEMMA NextInv == MemberInv /\ [Next]_vars => MemberInv'
<1> SUFFICES ASSUME MemberInv, [Next]_vars PROVE MemberInv'
  OBVIOUS
<1>0. /\ TypeOK /\ IsFiniteSet(members)
      /\ \A n \in Node : LifeKept(n) /\ OrderKept(n) /\ CountKept(n) /\ CopiesKept(n)
      /\ faults' = 0 => faults' = faults /\ \A n \in Node : AppsKept(n)
  <2>1. faults \in Nat /\ (faults' = faults \/ faults' = faults + 1)
    BY FaultsGrow DEF MemberInv, TypeOK
  <2> QED BY <2>1 DEF MemberInv
<1>1. ASSUME NEW k \in Node, JoinActs(k) PROVE MemberInv'
  <2>1. TypeOK' /\ IsFiniteSet(members')
    BY <1>0, <1>1, JoinActsType, MembersFinite DEF Next
  <2>2. \A n \in Node : LifeKept(n)' /\ OrderKept(n)' /\ CountKept(n)'
    BY <1>0, <1>1, JoinActsLife, JoinActsOrder, JoinActsCount
  <2>3. \A n \in Node : CopiesKept(n)'
    BY <1>0, <1>1, JoinActsOthers, JoinActsOwn
  <2>4. faults' = 0 => \A n \in Node : AppsKept(n)'
    BY <1>0, <1>1, JoinActsApps
  <2> QED BY <2>1, <2>2, <2>3, <2>4 DEF MemberInv
<1>2. ASSUME NEW k \in Node, LeaveActs(k) PROVE MemberInv'
  <2>1. TypeOK' /\ IsFiniteSet(members')
    BY <1>0, <1>2, LeaveActsType, MembersFinite DEF Next
  <2>2. \A n \in Node : LifeKept(n)' /\ OrderKept(n)' /\ CountKept(n)'
    BY <1>0, <1>2, LeaveActsLife, OtherActsOrder, OtherActsCount
  <2>3. \A n \in Node : CopiesKept(n)'
    BY <1>0, <1>2, LeaveActsCopies
  <2>4. faults' = 0 => \A n \in Node : AppsKept(n)'
    BY <1>0, <1>2, LeaveActsApps
  <2> QED BY <2>1, <2>2, <2>3, <2>4 DEF MemberInv
<1>3. ASSUME NEW k \in Node, RefreshActs(k) PROVE MemberInv'
  <2>1. TypeOK' /\ IsFiniteSet(members')
    BY <1>0, <1>3, RefreshActsType, MembersFinite DEF Next
  <2>2. \A n \in Node : LifeKept(n)' /\ OrderKept(n)' /\ CountKept(n)'
    BY <1>0, <1>3, RefreshActsLife, OtherActsOrder, OtherActsCount
  <2>3. \A n \in Node : CopiesKept(n)'
    BY <1>0, <1>3, RefreshActsCopies
  <2>4. faults' = 0 => \A n \in Node : AppsKept(n)'
    BY <1>0, <1>3, OtherActsApps
  <2> QED BY <2>1, <2>2, <2>3, <2>4 DEF MemberInv
<1>4. CASE \/ \E n \in Node : RaftActs(n)
           \/ SetConfig \/ DeleteConfig \/ ConfigUpdated \/ UNCHANGED vars
  <2>1. TypeOK' /\ UNCHANGED <<life, rf, members>>
    BY <1>0, <1>4, OthersType
  <2>2. IsFiniteSet(members')
    BY <1>0, <2>1
  <2>3. \A n \in Node : LifeKept(n)'
    BY <1>0, <2>1 DEF LifeKept, At, In, Joins, Leaves, Svc
  <2>4. \A n \in Node : OrderKept(n)' /\ CountKept(n)'
    BY <1>0, <1>4, OtherActsOrder, OtherActsCount
  <2>5. \A n \in Node : CopiesKept(n)'
    BY <1>0, <1>4, OthersCopies
  <2>6. faults' = 0 => \A n \in Node : AppsKept(n)'
    BY <1>0, <1>4, OtherActsApps
  <2> QED BY <2>1, <2>2, <2>3, <2>4, <2>5, <2>6 DEF MemberInv
<1> QED BY <1>1, <1>2, <1>3, <1>4 DEF Next, Idle

\* It always holds.
LEMMA MemberInvariant == Spec => []MemberInv
BY InitInv, NextInv, PTL DEF Spec

\* What is kept of central nodes, and of their databases.
EraInv == EraKept /\ \A n \in Node : CentralKept(n)

\* It always holds.
LEMMA EraInvariant == Spec => []EraInv
<1>1. Init => EraInv
  <2> SUFFICES ASSUME Init PROVE EraInv
    OBVIOUS
  <2>1. \A n \in Node : /\ life[n].at = "out" /\ db[n].st = "none" /\ ~Enabled(n, "central")
    BY DEF Init, NoDatabase, Enabled
  <2>2. \A n \in Node : CentralKept(n)
    BY <2>1 DEF CentralKept, HandKept, AheadKept, DbKept, AtHand, Chooses, Joins,
       JoinStep, GenerateStep
  <2>3. EraOf({})
    BY <2>1, FS_EmptySet DEF EraOf, Centrals, HostsKept, PeersKept, Agree, FirstKept
  <2> QED BY <2>2, <2>3 DEF EraInv, EraKept
<1>2. MemberInv /\ EraInv /\ [Next]_vars => EraInv'
  <2> SUFFICES ASSUME MemberInv, EraInv, [Next]_vars PROVE EraInv'
    OBVIOUS
  <2>1. /\ TypeOK /\ EraKept
        /\ \A n \in Node : LifeKept(n) /\ CentralKept(n)
    BY DEF MemberInv, EraInv
  <2>2. ASSUME NEW k \in Node, JoinActs(k) PROVE EraInv'
    BY <2>1, <2>2, JoinActsCentral, JoinActsEra DEF EraInv
  <2>3. CASE \/ \E n \in Node : LeaveActs(n) \/ RefreshActs(n) \/ RaftActs(n)
             \/ SetConfig \/ DeleteConfig \/ ConfigUpdated \/ UNCHANGED vars
    BY <2>1, <2>3, OtherActsCentral, OtherActsEra DEF EraInv
  <2> QED BY <2>2, <2>3 DEF Next, Idle
<1> QED BY <1>1, <1>2, MemberInvariant, PTL DEF Spec

\* The variables keep their types: rows of the table are of members, and no
\* refresh overwrites newer addresses with older ones.
THEOREM TypeCorrect == Spec => []TypeOK
<1>1. MemberInv => TypeOK
  BY DEF MemberInv
<1> QED BY <1>1, MemberInvariant, PTL

\* A node that chose its services itself gets central only while there are fewer
\* central nodes than enough, and no external cluster, unless its join overlapped
\* a change of what it had read (Join in ovn/join.go).
THEOREM FewCentralsChosen == Spec => CentralsBounded
<1>1. MemberInv /\ [Next]_vars =>
        [\A n \in Node :
           /\ life[n].ask = AutoChoice /\ ~life[n].boot
           /\ ~Enabled(n, "central") /\ <<n, "central">> \in services'
           => n \in crowded \/ (option = {} /\ Cardinality(Centrals) < Enough)]_vars
  <2> SUFFICES ASSUME MemberInv, NEW n \in Node, life[n].ask = AutoChoice,
                      ~life[n].boot, Next, ~Enabled(n, "central"),
                      <<n, "central">> \in services', n \notin crowded
               PROVE  option = {} /\ Cardinality(Centrals) < Enough
    OBVIOUS
  <2>1. EnableRow(n) /\ Svc(n) = "central"
    BY RowAppears DEF MemberInv, Enabled
  <2>2. "central" \in Listed(life[n].plan)
    <3>1. life[n].plan \in Seq(Service) /\ life[n].plan # <<>>
      BY <2>1, LifeFields DEF EnableRow, MemberInv
    <3> QED BY <2>1, <3>1, TailFacts DEF Svc
  <2>3. Joins(n) /\ ~Chooses(n)
    BY <2>1 DEF EnableRow, At, Joins, JoinStep, Chooses
  <2>4. ~At(n, "option")
    BY <2>3 DEF Chooses, At
  <2> QED BY <2>2, <2>3, <2>4 DEF MemberInv, CountKept
<1> QED BY <1>1, MemberInvariant, PTL DEF Spec, CentralsBounded

\* The environment file of a member has the addresses of the central nodes, or a
\* step is to come that writes it or asks for it, or the member was left out
\* by a fault: Bootstrap, Join and Leave lose none among themselves.
THEOREM EnvironmentsFollow == Spec => []MembershipInductive
<1>1. MemberInv => MembershipInductive
  <2> SUFFICES ASSUME MemberInv, NEW n \in Node, Present(n)
               PROVE  env[n] = CentralIps \/ Owed(n) \/ n \in lapsed
    BY DEF MembershipInductive
  <2>1. CASE Excused(n)
    <3>1. \A m \in members \ {n} : Tells(m) => WillNotify(m)
      BY DEF Tells, WillNotify
    <3> QED BY <2>1, <3>1 DEF Excused, Owed
  <2>2. CASE Fresh(n) /\ Joins(n)
    BY <2>2 DEF Fresh, EnvCurrent, Stage, View, Owed, WillGenerate, At
  <2>3. CASE Fresh(n) /\ ~Joins(n)
    <3>1. rf[n].at \in RefreshStep
      BY RefreshIn DEF MemberInv, Refreshing
    <3> QED BY <2>3, <3>1 DEF Fresh, EnvCurrent, Stage, View, Owed, RefreshStep
  <2> QED BY <2>1, <2>2, <2>3 DEF MemberInv, CopiesKept
<1> QED BY <1>1, MemberInvariant, PTL

\* Once no hook, refresh or request is under way, environment files and
\* ovn-remote of the members have the addresses of the central nodes, but for
\* members that a fault left out and those whose refresh failed half way.
THEOREM QuietMembersFollow == Spec => []MembersFollow
<1>1. MemberInv => MembersFollow
  <2> SUFFICES ASSUME MemberInv, Quiet, NEW n \in Node, Present(n)
               PROVE  /\ env[n] = CentralIps \/ n \in lapsed
                      /\ remote[n] = CentralIps \/ n \in lapsed \cup missed
    BY DEF MembersFollow
  <2>1. Excused(n) => n \in lapsed
    BY DEF Excused, Tells, Quiet, MemberInv, TypeOK
  <2>2. Stage(n) = "none"
    BY DEF Quiet, Stage
  <2> QED BY <2>1, <2>2 DEF MemberInv, CopiesKept, Fresh, EnvCurrent, RemoteCurrent
<1> QED BY <1>1, MemberInvariant, PTL

\* When nothing failed, a node that is removed runs no chassis, no switch, and a
\* database only where it is the last central node: Leave stops what was enabled,
\* also while others join (Leave in ovn/leave.go).
THEOREM RemovedNodeStops == Spec => RemovedStops
<1>1. MemberInv /\ [Next]_vars =>
        [\A n \in members \ members' :
           \/ faults > 0
           \/ apps[n] \subseteq AppSet("central")
              /\ ("ovsdb" \in apps[n] => Enabled(n, "central"))]_vars
  <2> SUFFICES ASSUME MemberInv, Next, NEW n \in members, n \notin members', ~(faults > 0)
               PROVE  /\ apps[n] \subseteq AppSet("central")
                      /\ "ovsdb" \in apps[n] => Enabled(n, "central")
    OBVIOUS
  <2>1. n \in Node /\ faults = 0
    BY DEF MemberInv, TypeOK
  <2>2. Removed(n)
    <3>1. \A k \in Node : JoinActs(k) => members \subseteq members'
      BY JoinActsAround DEF MemberInv, JoinAround
    <3>2. \A k \in Node : LeaveActs(k) => Removed(k) \/ members' = members
      BY DEF LeaveActs, Remove, DisableCheck, DisableLast, DisableRow, Quit,
         WaitRemoved, Rename, Halt
    <3>3. \A k \in Node : Removed(k) => members' = members \ {k}
      BY DEF Removed
    <3> QED BY <3>1, <3>2, <3>3, OthersStep DEF Next, Idle
  <2>3. life[n].at = "leave" /\ life[n].plan = <<>>
    BY <2>2 DEF Removed, At
  <2>4. AppsRowed(n) /\ PlanCovers(n)
    BY <2>1, <2>3 DEF MemberInv, AppsKept
  <2>5. ~Enabled(n, "chassis") /\ ~Enabled(n, "switch")
    BY <2>3, <2>4, EmptyListed DEF PlanCovers, Leaves, LeaveStep
  <2>6. apps[n] \subseteq App
    BY <2>1 DEF MemberInv, TypeOK
  <2>7. AppSet("central") = {"ovsdb", "northd"}
    BY AppSetValue
  <2> QED BY <2>3, <2>4, <2>5, <2>6, <2>7 DEF AppsRowed, App, At
<1> QED BY <1>1, MemberInvariant, PTL DEF Spec, RemovedStops

\* Nodes that have the row of central, and those that stay, have one cluster of
\* databases among them, whatever joins and removals overlap and whichever of
\* their steps fail (Join, Bootstrap and Leave with EnableService and the start
\* script of ovsdb-server).
THEOREM MembersShareDatabase == Spec => []OneDatabase
<1>1. MemberInv /\ EraInv => OneDatabase
  <2> SUFFICES ASSUME MemberInv, EraInv PROVE OneDatabase
    OBVIOUS
  <2>1. PICK E \in SUBSET Node : EraOf(E)
    BY DEF EraInv, EraKept
  <2>2. ASSUME NEW n \in members, ~Leaves(n), ~At(n, "failed"), db[n].st = "member"
        PROVE  n \in Centrals
    <3>1. n \in Node /\ life[n].at \in HookStep /\ life[n].at \notin {"out", "gone"}
      BY <2>2, LifeFields DEF MemberInv, TypeOK, LifeKept
    <3>2. Joins(n) \/ In(n)
      BY <2>2, <3>1 DEF HookStep, Joins, In, Leaves, At
    <3> QED BY <2>2, <3>1, <3>2 DEF EraInv, CentralKept, DbKept, Centrals
  <2>3. \A n, m \in Centrals :
          db[n].st = "member" /\ db[m].st = "member" => db[n].cid = db[m].cid
    BY <2>1 DEF EraOf, Agree, Serves
  <2> QED BY <2>2, <2>3 DEF OneDatabase
<1> QED BY <1>1, MemberInvariant, EraInvariant, PTL
===========================================================================
