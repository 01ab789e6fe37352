----------------------------- MODULE BgpProofs -----------------------------
(***************************************************************************)
(* A node with BGP agrees with itself, one without it keeps nothing of it, *)
(* and AS numbers differ: for every cluster, set of interfaces, bridges    *)
(* and tables, number of requests in flight and of faults.                 *)
(*                                                                         *)
(* The argument, node by node: two handlers that are at a system at once   *)
(* have marked the node as disturbed.  On a node that is not, a setup has  *)
(* set up, and a teardown torn down, what the steps behind it say; what is *)
(* made is tagged, mapped, planned, being deleted or orphaned at every     *)
(* step.  So a node where nobody is at work is set up, torn down, or as it *)
(* was before, whatever failed in between.  The steps of other nodes reach *)
(* it through the logical switches only, and it is struck then.            *)
(***************************************************************************)
EXTENDS Bgp, FiniteSetTheorems, TLAPS

---------------------------------------------------------------------------
(* Operators of the model.                                                 *)

\* The AS number of a node is in the type of bird.conf.
LEMMA AsnType == \A n \in Node : Asn(n) \in -1..MaxAsn /\ Asn(n) # -1
<1> SUFFICES ASSUME NEW n \in Node PROVE Asn(n) \in -1..MaxAsn /\ Asn(n) # -1
  OBVIOUS
<1>1. MemberId[n] \in Nat /\ MinAsn \in Nat /\ MaxAsn \in Nat /\ 0 < MinAsn /\ MinAsn < MaxAsn
  BY MemberAssumption, AsnAssumption
<1> DEFINE size == MaxAsn - MinAsn + 1
<1>2. size \in Nat \ {0}
  BY <1>1
<1> HIDE DEF size
<1>3. MemberId[n] % size \in 0..(size - 1)
  BY <1>1, <1>2
<1> QED BY <1>1, <1>3 DEF Asn, size

\* Ids up to the size of the range have different remainders.
LEMMA AsnInjective ==
  ASSUME \A n \in Node : MemberId[n] <= MaxAsn - MinAsn + 1,
         NEW n \in Node, NEW m \in Node, n # m
  PROVE  Asn(n) # Asn(m)
<1> DEFINE size == MaxAsn - MinAsn + 1
<1>1. size \in Nat \ {0} /\ MinAsn \in Nat
  BY AsnAssumption
<1>2. \A k \in Node : MemberId[k] \in 1..size
  BY MemberAssumption
<1>3. ASSUME NEW k \in Node
      PROVE  MemberId[k] % size = IF MemberId[k] = size THEN 0 ELSE MemberId[k]
  <2> HIDE DEF size
  <2> DEFINE id == MemberId[k]
             q == id \div size
             rest == id % size
  <2>1. id \in Nat /\ 1 <= id /\ id <= size
    BY <1>1, <1>2
  <2>2. q \in Int /\ rest \in 0..(size - 1) /\ id = size * q + rest
    BY <1>1, <2>1
  <2> HIDE DEF id, q, rest
  <2>3. q <= -1 => size * q <= -size
    BY <1>1, <2>2
  <2>4. q >= 2 => size * q >= size + size
    BY <1>1, <2>2
  <2>5. q = 0 \/ q = 1
    BY <1>1, <2>1, <2>2, <2>3, <2>4
  <2>6. size * 0 = 0 /\ size * 1 = size
    BY <1>1
  <2>7. rest = IF id = size THEN 0 ELSE id
    BY <1>1, <2>1, <2>2, <2>5, <2>6
  <2> QED BY <2>7 DEF id, rest
<1>4. MemberId[n] # MemberId[m]
  BY MemberAssumption
<1>5. MemberId[n] % size # MemberId[m] % size
  BY <1>1, <1>2, <1>3, <1>4
<1>6. MemberId[n] % size \in Int /\ MemberId[m] % size \in Int
  BY <1>1, <1>2, <1>3
<1> HIDE DEF size
<1> QED BY <1>1, <1>5, <1>6 DEF Asn, size

---------------------------------------------------------------------------
(* Steps of requests and handlers, pointwise.                              *)

PcType == {"idle", "flag", "link", "probe", "visit"}
StepName == {"none", "readIface", "readBridge", "check", "row", "env", "done",
             "rollback"} \cup SetupStep \cup TeardownStep

\* A step of one request moves only that request.
LEMMA GotoStep ==
  ASSUME TypeOK, NEW r \in Req, NEW step \in PcType, Goto(r, step)
  PROVE  /\ pc' \in [Req -> PcType]
         /\ pc'[r] = step
         /\ \A q \in Req : q # r => pc'[q] = pc[q]
BY DEF TypeOK, Goto, PcType

\* A step of one handler changes only that handler.
LEMMA WorkStep ==
  ASSUME TypeOK, NEW r \in Req, NEW n \in Node, NEW next \in Handler,
         Step(r, n, next)
  PROVE  /\ work' \in [Req -> [Node -> Handler]]
         /\ work'[r][n] = next
         /\ \A q \in Req, m \in Node : q # r \/ m # n => work'[q][m] = work[q][m]
BY DEF TypeOK, Step

\* A step on one node changes only that node.
LEMMA NodeStep ==
  ASSUME TypeOK, NEW n \in Node, NEW next \in NodeState, Becomes(n, next)
  PROVE  /\ node' \in [Node -> NodeState]
         /\ node'[n] = next
         /\ \A m \in Node : m # n => node'[m] = node[m]
BY DEF TypeOK, Becomes

\* The absence of a handler is a state of a handler.
LEMMA NoWorkType == NoWork \in Handler /\ NoOptions \in Options
BY DEF NoWork, Handler, NoOptions, Options

\* The parts of a handler have their types.
LEMMA HandlerParts ==
  ASSUME NEW w \in Handler
  PROVE  /\ w.at \in StepName /\ w.opts \in Options
         /\ w.use \subseteq Bridge /\ w.left \subseteq Bridge
         /\ w.table \in Table \cup {None} /\ w.alone \in BOOLEAN /\ w.undo \in BOOLEAN
BY DEF Handler, StepName

\* The parts of what is set up on a node have their types.
LEMMA NodeParts ==
  ASSUME NEW s \in NodeState
  PROVE  /\ s.bird \in BOOLEAN /\ s.router \in BOOLEAN
         /\ s.bridges \subseteq Bridge /\ s.tagged \subseteq Bridge
         /\ s.mapped \subseteq Mapping /\ s.own \subseteq Mapping
         /\ s.table \in Table \cup {None}
         /\ s.switches \subseteq Bridge /\ s.veths \subseteq Bridge /\ s.ports \subseteq Bridge
         /\ s.plan \in Plan /\ s.plan.table \in Table \cup {None}
         /\ s.plan.bridges \subseteq Bridge
         /\ s.conf \in [table : Table \cup {None}, bridges : SUBSET Bridge, asn : -1..MaxAsn]
BY DEF NodeState, Plan

\* What the handlers make of the state of a node is a state of a node.
LEMMA NodeChanges ==
  ASSUME NEW s \in NodeState
  PROVE  /\ [s EXCEPT !.bird = TRUE] \in NodeState
         /\ [s EXCEPT !.bird = FALSE] \in NodeState
         /\ [s EXCEPT !.router = TRUE, !.table = None] \in NodeState
         /\ [s EXCEPT !.router = FALSE, !.table = None] \in NodeState
         /\ [s EXCEPT !.switches = {}] \in NodeState
         /\ [s EXCEPT !.ports = {}] \in NodeState
         /\ [s EXCEPT !.own = {}] \in NodeState
         /\ \A b \in Bridge :
              /\ [s EXCEPT !.bridges = @ \cup {b}, !.tagged = @ \cup {b},
                           !.mapped = @ \cup {b}, !.own = s.mapped \cup {b}] \in NodeState
              /\ [s EXCEPT !.switches = @ \cup {b}] \in NodeState
              /\ [s EXCEPT !.ports = @ \cup {b}] \in NodeState
         /\ \A B \in SUBSET Bridge :
              /\ [s EXCEPT !.veths = @ \cup B] \in NodeState
              /\ [s EXCEPT !.veths = @ \ B] \in NodeState
              /\ [s EXCEPT !.bridges = @ \ B, !.tagged = {}] \in NodeState
         /\ \A M \in SUBSET Mapping : [s EXCEPT !.mapped = @ \ M] \in NodeState
         /\ \A t \in Table \cup {None} : [s EXCEPT !.table = t] \in NodeState
         /\ \A p \in Plan : [s EXCEPT !.plan = p] \in NodeState
         /\ \A t \in Table \cup {None}, B \in SUBSET Bridge, i \in -1..MaxAsn :
              [s EXCEPT !.conf = [table |-> t, bridges |-> B, asn |-> i]] \in NodeState
<1>1. /\ [s EXCEPT !.bird = TRUE] \in NodeState
      /\ [s EXCEPT !.bird = FALSE] \in NodeState
      /\ [s EXCEPT !.router = TRUE, !.table = None] \in NodeState
      /\ [s EXCEPT !.router = FALSE, !.table = None] \in NodeState
      /\ [s EXCEPT !.switches = {}] \in NodeState
      /\ [s EXCEPT !.ports = {}] \in NodeState
      /\ [s EXCEPT !.own = {}] \in NodeState
  BY DEF NodeState
<1>2. ASSUME NEW b \in Bridge
      PROVE  /\ [s EXCEPT !.bridges = @ \cup {b}, !.tagged = @ \cup {b},
                          !.mapped = @ \cup {b}, !.own = s.mapped \cup {b}] \in NodeState
             /\ [s EXCEPT !.switches = @ \cup {b}] \in NodeState
             /\ [s EXCEPT !.ports = @ \cup {b}] \in NodeState
  <2>1. b \in Mapping
    BY DEF Mapping
  <2> QED BY <2>1, NodeParts DEF NodeState
<1>3. ASSUME NEW B \in SUBSET Bridge
      PROVE  /\ [s EXCEPT !.veths = @ \cup B] \in NodeState
             /\ [s EXCEPT !.veths = @ \ B] \in NodeState
             /\ [s EXCEPT !.bridges = @ \ B, !.tagged = {}] \in NodeState
  BY NodeParts DEF NodeState
<1>4. /\ \A M \in SUBSET Mapping : [s EXCEPT !.mapped = @ \ M] \in NodeState
      /\ \A t \in Table \cup {None} : [s EXCEPT !.table = t] \in NodeState
      /\ \A p \in Plan : [s EXCEPT !.plan = p] \in NodeState
  BY NodeParts DEF NodeState
<1>5. ASSUME NEW t \in Table \cup {None}, NEW B \in SUBSET Bridge, NEW i \in -1..MaxAsn
      PROVE  [s EXCEPT !.conf = [table |-> t, bridges |-> B, asn |-> i]] \in NodeState
  BY DEF NodeState
<1> QED BY <1>1, <1>2, <1>3, <1>4, <1>5

\* The default configurations have the types of the others.
LEMMA DefaultTypes ==
  /\ NoPlan \in Plan
  /\ \A s \in NodeState : [s EXCEPT !.conf = DefaultBird] \in NodeState
<1>1. -1 \in -1..MaxAsn
  BY AsnAssumption
<1> QED BY <1>1 DEF NoPlan, Plan, DefaultBird, NodeState

\* A handler goes on with another step, other bridges or another table.
LEMMA HandlerChanges ==
  ASSUME NEW w \in Handler
  PROVE  /\ \A a \in BOOLEAN : [w EXCEPT !.alone = a] \in Handler
         /\ \A B \in SUBSET Bridge : [w EXCEPT !.left = B] \in Handler
         /\ \A at \in StepName :
              /\ [w EXCEPT !.at = at] \in Handler
              /\ \A a \in BOOLEAN : [w EXCEPT !.at = at, !.alone = a] \in Handler
              /\ \A u, a \in BOOLEAN : [w EXCEPT !.at = at, !.undo = u, !.alone = a] \in Handler
              /\ \A B \in SUBSET Bridge : [w EXCEPT !.at = at, !.left = B] \in Handler
              /\ \A o \in Options : [w EXCEPT !.at = at, !.opts = o] \in Handler
              /\ \A t \in Table \cup {None}, B \in SUBSET Bridge :
                   [w EXCEPT !.at = at, !.table = t, !.use = B, !.left = B] \in Handler
<1>1. /\ \A a \in BOOLEAN : [w EXCEPT !.alone = a] \in Handler
      /\ \A B \in SUBSET Bridge : [w EXCEPT !.left = B] \in Handler
  BY DEF Handler
<1>2. ASSUME NEW at \in StepName
      PROVE  /\ [w EXCEPT !.at = at] \in Handler
             /\ \A a \in BOOLEAN : [w EXCEPT !.at = at, !.alone = a] \in Handler
             /\ \A u, a \in BOOLEAN : [w EXCEPT !.at = at, !.undo = u, !.alone = a] \in Handler
  BY DEF Handler, StepName
<1>3. ASSUME NEW at \in StepName
      PROVE  /\ \A B \in SUBSET Bridge : [w EXCEPT !.at = at, !.left = B] \in Handler
             /\ \A o \in Options : [w EXCEPT !.at = at, !.opts = o] \in Handler
  BY DEF Handler, StepName
<1>4. ASSUME NEW at \in StepName, NEW t \in Table \cup {None}, NEW B \in SUBSET Bridge
      PROVE  [w EXCEPT !.at = at, !.table = t, !.use = B, !.left = B] \in Handler
  BY DEF Handler, StepName
<1> QED BY <1>1, <1>2, <1>3, <1>4

\* A handler that is done tells its request, which keeps what it asks for.
LEMMA LeaveStep ==
  ASSUME TypeOK, NEW r \in Req, NEW n \in Node, Leave(r, n)
  PROVE  /\ todo' \in [Req -> SUBSET Node]
         /\ \A q \in Req, m \in Node : q # r \/ m # n => (m \in todo'[q] <=> m \in todo[q])
         /\ ask' \in [Req -> Ask]
         /\ \A q \in Req : ask'[q].op = ask[q].op /\ ask'[q].opts = ask[q].opts
<1>1. /\ todo' \in [Req -> SUBSET Node]
      /\ \A q \in Req, m \in Node : q # r \/ m # n => (m \in todo'[q] <=> m \in todo[q])
  BY DEF Leave, TypeOK
<1>2. ask' \in [Req -> Ask]
  BY SMTT(30) DEF Leave, TypeOK, Ask
<1>3. \A q \in Req : ask'[q].op = ask[q].op /\ ask'[q].opts = ask[q].opts
  BY DEF Leave, TypeOK, Ask
<1> QED BY <1>1, <1>2, <1>3

\* A handler that returns is gone.
LEMMA ReturnStep ==
  ASSUME TypeOK, NEW r \in Req, NEW n \in Node, Return(r, n)
  PROVE  /\ work' \in [Req -> [Node -> Handler]]
         /\ work'[r][n] = NoWork
         /\ \A q \in Req, m \in Node : q # r \/ m # n => work'[q][m] = work[q][m]
         /\ todo' \in [Req -> SUBSET Node]
         /\ \A q \in Req, m \in Node : q # r \/ m # n => (m \in todo'[q] <=> m \in todo[q])
         /\ ask' \in [Req -> Ask]
         /\ \A q \in Req : ask'[q].op = ask[q].op /\ ask'[q].opts = ask[q].opts
<1>1. Step(r, n, NoWork) /\ Leave(r, n)
  BY DEF Return
<1> QED BY <1>1, NoWorkType, WorkStep, LeaveStep

\* A setup that gives up begins its teardown.
LEMMA AbortStep ==
  ASSUME TypeOK, NEW r \in Req, NEW n \in Node, Abort(r, n)
  PROVE  /\ work' \in [Req -> [Node -> Handler]]
         /\ \A q \in Req, m \in Node : q # r \/ m # n => work'[q][m] = work[q][m]
         /\ work'[r][n].at = "stop" /\ work'[r][n].opts = NoOptions
         /\ work'[r][n].left = {}
         /\ work'[r][n].alone => \A q \in Req \ {r} : ~Busy(q, n)
<1>1. PICK a \in BOOLEAN : a = \A q \in Req \ {r} : ~Busy(q, n)
  OBVIOUS
<1> DEFINE next == [NoWork EXCEPT !.at = "stop", !.undo = TRUE, !.alone = a]
<1>2. next \in Handler
  BY NoWorkType, HandlerChanges DEF StepName, TeardownStep
<1>3. Step(r, n, next)
  BY <1>1 DEF Abort
<1>4. next.at = "stop" /\ next.opts = NoOptions /\ next.left = {} /\ next.alone = a
  BY DEF NoWork
<1> HIDE DEF next
<1> QED BY <1>1, <1>2, <1>3, <1>4, WorkStep

\* Handlers that are disturbed are not alone any more.
LEMMA SpoilStep ==
  ASSUME TypeOK, NEW r \in Req, NEW n \in Node, NEW next \in Handler, Spoil(r, n, next)
  PROVE  /\ work' \in [Req -> [Node -> Handler]]
         /\ work'[r][n] = next
         /\ \A q \in Req, m \in Node : m # n => work'[q][m] = work[q][m]
         /\ \A q \in Req : q # r =>
              \/ ~Busy(q, n) /\ work'[q][n] = work[q][n]
              \/ Busy(q, n) /\ work'[q][n] = [work[q][n] EXCEPT !.alone = FALSE]
         /\ dirty' = dirty \cup {n}
<1>1. work' = [q \in Req |->
        IF q = r THEN [work[r] EXCEPT ![n] = next]
        ELSE IF Busy(q, n) THEN [work[q] EXCEPT ![n] = [work[q][n] EXCEPT !.alone = FALSE]]
        ELSE work[q]]
  BY DEF Spoil
<1>2. \A q \in Req : work[q] \in [Node -> Handler] /\ work[q][n] \in Handler
  BY DEF TypeOK
<1>3. \A q \in Req : [work[q][n] EXCEPT !.alone = FALSE] \in Handler
  BY <1>2, HandlerChanges
<1>4. \A q \in Req : work'[q] \in [Node -> Handler]
  BY <1>1, <1>2, <1>3
<1>5. work' \in [Req -> [Node -> Handler]]
  BY <1>1, <1>4
<1>6. /\ work'[r][n] = next
      /\ \A q \in Req, m \in Node : m # n => work'[q][m] = work[q][m]
      /\ \A q \in Req : q # r =>
           \/ ~Busy(q, n) /\ work'[q][n] = work[q][n]
           \/ Busy(q, n) /\ work'[q][n] = [work[q][n] EXCEPT !.alone = FALSE]
  BY <1>1, <1>2
<1> QED BY <1>5, <1>6 DEF Spoil

\* A handler reaches a system that it has for itself, or spoils it.
LEMMA EnterStep ==
  ASSUME TypeOK, NEW r \in Req, NEW n \in Node, NEW next \in Handler, Enter(r, n, next)
  PROVE  /\ work' \in [Req -> [Node -> Handler]]
         /\ work'[r][n].at = next.at /\ work'[r][n].opts = next.opts
         /\ work'[r][n].left = next.left
         /\ \A q \in Req, m \in Node : m # n => work'[q][m] = work[q][m]
         /\ \/ /\ \A q \in Req : q # r => ~Busy(q, n) /\ work'[q][n] = work[q][n]
               /\ Disables(r) \/ n \in rows
               /\ dirty' = dirty
            \/ /\ ~work'[r][n].alone
               /\ \A q \in Req : q # r =>
                    \/ ~Busy(q, n) /\ work'[q][n] = work[q][n]
                    \/ Busy(q, n) /\ work'[q][n] = [work[q][n] EXCEPT !.alone = FALSE]
               /\ dirty' = dirty \cup {n}
<1>1. CASE (\E q \in Req \ {r} : Busy(q, n)) \/ (~Disables(r) /\ n \notin rows)
  <2>1. Spoil(r, n, [next EXCEPT !.alone = FALSE])
    BY <1>1 DEF Enter
  <2>2. [next EXCEPT !.alone = FALSE] \in Handler
    BY HandlerChanges
  <2>3. work'[r][n] = [next EXCEPT !.alone = FALSE]
    BY <2>1, <2>2, SpoilStep
  <2>4. /\ work'[r][n].at = next.at /\ work'[r][n].opts = next.opts
        /\ work'[r][n].left = next.left /\ ~work'[r][n].alone
    BY <2>3 DEF Handler
  <2> QED BY <2>1, <2>2, <2>4, SpoilStep
<1>2. CASE ~((\E q \in Req \ {r} : Busy(q, n)) \/ (~Disables(r) /\ n \notin rows))
  <2>1. Step(r, n, next) /\ dirty' = dirty
    BY <1>2 DEF Enter
  <2> QED BY <1>2, <2>1, WorkStep
<1> QED BY <1>1, <1>2

\* A handler that succeeds returns, or goes on with another bridge.
LEMMA SucceedStep ==
  ASSUME TypeOK, NEW r \in Req, NEW n \in Node, Succeed(r, n)
  PROVE  /\ work' \in [Req -> [Node -> Handler]]
         /\ \A q \in Req, m \in Node : q # r \/ m # n => work'[q][m] = work[q][m]
         /\ \/ work'[r][n] = NoWork
            \/ /\ work'[r][n].at = "check" /\ work'[r][n].left = {}
               /\ Valid(work'[r][n].opts) /\ todo' = todo
         /\ todo' \in [Req -> SUBSET Node]
         /\ \A q \in Req, m \in Node : q # r \/ m # n => (m \in todo'[q] <=> m \in todo[q])
         /\ ask' \in [Req -> Ask]
         /\ \A q \in Req : ask'[q].op = ask[q].op /\ ask'[q].opts = ask[q].opts
         /\ confirmed' = confirmed \cup {n}
<1> DEFINE w == work[r][n]
           more == ask[r].next \ w.opts.bridges
<1>1. confirmed' = confirmed \cup {n}
  BY DEF Succeed
<1>2. CASE more = {}
  BY <1>1, <1>2, ReturnStep DEF Succeed
<1>3. CASE more # {}
  <2>1. more \in SUBSET UserBridge /\ w \in Handler /\ ask[r] \in Ask
    BY DEF TypeOK, Ask
  <2>2. PICK b \in more :
          Step(r, n, [NoWork EXCEPT !.at = "check", !.opts = [w.opts EXCEPT !.bridges = {b}]])
    BY <1>3 DEF Succeed
  <2> DEFINE o == [w.opts EXCEPT !.bridges = {b}]
             next == [NoWork EXCEPT !.at = "check", !.opts = o]
  <2>3. o \in Options /\ o.bridges = {b}
    BY <2>1, HandlerParts DEF Options
  <2> HIDE DEF o
  <2>4. next \in Handler /\ next.at = "check" /\ next.left = {} /\ next.opts = o
    <3>1. "check" \in StepName
      BY DEF StepName
    <3>2. next \in Handler
      BY <3>1, <2>3, NoWorkType, HandlerChanges
    <3> QED BY <3>2 DEF NoWork
  <2>5. Step(r, n, next)
    BY <2>2 DEF o
  <2>6. Valid(o)
    BY <2>3 DEF Valid
  <2> HIDE DEF next
  <2>7. /\ work' \in [Req -> [Node -> Handler]] /\ work'[r][n] = next
        /\ \A q \in Req, m \in Node : q # r \/ m # n => work'[q][m] = work[q][m]
    BY <2>4, <2>5, WorkStep
  <2>8. ask' = [ask EXCEPT ![r].next = more] /\ todo' = todo
    BY <1>3 DEF Succeed
  <2> HIDE DEF more
  <2>9. ask' \in [Req -> Ask]
    BY <2>1, <2>8 DEF TypeOK, Ask
  <2>10. \A q \in Req : ask'[q].op = ask[q].op /\ ask'[q].opts = ask[q].opts
    BY <2>8 DEF TypeOK, Ask
  <2> QED BY <1>1, <2>4, <2>6, <2>7, <2>8, <2>9, <2>10 DEF TypeOK
<1> QED BY <1>2, <1>3

---------------------------------------------------------------------------
(* Types.                                                                  *)

\* The variables begin in their types.
LEMMA InitType == Init => TypeOK
<1> SUFFICES ASSUME Init PROVE TypeOK
  OBVIOUS
<1>1. conf \in [cluster : BOOLEAN, ifaces : SUBSET Iface, bridges : SUBSET UserBridge]
  BY DEF Init
<1>2. plugged \in [Node -> SUBSET Iface]
  BY DEF Init
<1>3. node \in [Node -> NodeState]
  <2>1. PICK maps \in SUBSET {UserMapping} : node = [n \in Node |-> Bare(maps)]
    BY DEF Init
  <2>2. maps \in SUBSET Mapping /\ UserBridge \in SUBSET Bridge
    BY DEF Mapping, Bridge
  <2>3. NoPlan \in Plan
    BY DefaultTypes
  <2>4. DefaultBird \in [table : Table \cup {None}, bridges : SUBSET Bridge, asn : -1..MaxAsn]
    BY AsnAssumption DEF DefaultBird
  <2>5. Bare(maps) \in NodeState
    BY <2>2, <2>3, <2>4 DEF Bare, NodeState
  <2> QED BY <2>1, <2>5
<1>4. NoAsk \in Ask
  BY InstanceAssumption, NoWorkType DEF NoAsk, Ask, Operation
<1>5. /\ ask \in [Req -> Ask] /\ pc \in [Req -> PcType]
      /\ todo \in [Req -> SUBSET Node] /\ alive \in [Req -> SUBSET Node]
      /\ work \in [Req -> [Node -> Handler]]
  BY <1>4, NoWorkType DEF Init, PcType
<1>6. /\ rows = {} /\ dirty = {} /\ orphaned = {} /\ struck = {} /\ confirmed = {}
      /\ issued \in 0..MaxIssued /\ faults \in 0..MaxFaults
  BY InstanceAssumption DEF Init
<1> QED BY <1>1, <1>2, <1>3, <1>5, <1>6 DEF TypeOK, PcType

\* The faults stay within their bound.
LEMMA FaultType ==
  ASSUME TypeOK
  PROVE  /\ \A kind : Fault(kind) => faults' \in 0..MaxFaults
         /\ \A r, n : Broken(r, n) => faults' \in 0..MaxFaults
BY InstanceAssumption DEF TypeOK, Fault, Broken

\* Commands keep the types.
LEMMA IssueType ==
  ASSUME TypeOK, NEW r \in Req, Issue(r)
  PROVE  TypeOK'
<1>1. PICK a \in Ask :
        /\ ask' = [ask EXCEPT ![r] = a]
        /\ Goto(r, IF a.op = "setup" THEN "flag" ELSE "visit")
        /\ todo' = [todo EXCEPT ![r] = IF a.op = "setup" THEN {} ELSE {a.node}]
  BY DEF Issue
<1>2. ask' \in [Req -> Ask] /\ todo' \in [Req -> SUBSET Node]
  BY <1>1 DEF TypeOK, Ask
<1>3. pc' \in [Req -> PcType]
  <2>1. (IF a.op = "setup" THEN "flag" ELSE "visit") \in PcType
    BY DEF PcType
  <2> QED BY <1>1, <2>1, GotoStep
<1>4. alive' \in [Req -> SUBSET Node] /\ issued' \in 0..MaxIssued
  BY InstanceAssumption DEF Issue, TypeOK
<1> QED BY <1>2, <1>3, <1>4 DEF Issue, TypeOK, PcType, ghosts

\* The steps of a request keep the types.
LEMMA RequestType ==
  ASSUME TypeOK, NEW r \in Req, RequestStep(r)
  PROVE  TypeOK'
<1>1. CASE StoreFlag(r)
  <2>1. conf' \in [cluster : BOOLEAN, ifaces : SUBSET Iface, bridges : SUBSET UserBridge]
    <3>1. conf' = conf \/ conf' = [conf EXCEPT !.cluster = TRUE]
      BY <1>1 DEF StoreFlag
    <3> QED BY <3>1 DEF TypeOK
  <2>2. pc' \in [Req -> PcType]
    BY <1>1, GotoStep DEF StoreFlag, PcType
  <2> QED BY <1>1, <2>1, <2>2 DEF StoreFlag, TypeOK, PcType, ghosts
<1>2. CASE StoreLink(r)
  <2>1. ask[r].opts.ifaces \subseteq Iface /\ ask[r].opts.bridges \subseteq UserBridge
    BY DEF TypeOK, Ask, Options
  <2>2. conf' \in [cluster : BOOLEAN, ifaces : SUBSET Iface, bridges : SUBSET UserBridge]
    <3>1. \/ conf' = conf
          \/ conf' = [conf EXCEPT !.ifaces = ask[r].opts.ifaces]
          \/ conf' = [conf EXCEPT !.bridges = ask[r].opts.bridges]
      BY <1>2 DEF StoreLink
    <3> QED BY <2>1, <3>1 DEF TypeOK
  <2>3. pc' \in [Req -> PcType]
    BY <1>2, GotoStep DEF StoreLink, PcType
  <2>4. todo' \in [Req -> SUBSET Node]
    BY <1>2 DEF StoreLink, TypeOK
  <2> QED BY <1>2, <2>2, <2>3, <2>4 DEF StoreLink, TypeOK, PcType, ghosts
<1>3. CASE Probe(r)
  <2>1. pc' \in [Req -> PcType]
    BY <1>3, GotoStep DEF Probe, PcType, TypeOK
  <2>2. todo' \in [Req -> SUBSET Node]
    BY <1>3 DEF Probe, TypeOK
  <2> QED BY <1>3, <2>1, <2>2 DEF Probe, TypeOK, PcType, ghosts
<1>4. CASE End(r)
  <2>1. NoAsk \in Ask
    BY InstanceAssumption, NoWorkType DEF NoAsk, Ask, Operation
  <2>2. ask' \in [Req -> Ask] /\ alive' \in [Req -> SUBSET Node]
    BY <1>4, <2>1 DEF End, TypeOK
  <2>3. pc' \in [Req -> PcType]
    BY <1>4, GotoStep DEF End, PcType
  <2> QED BY <1>4, <2>2, <2>3 DEF End, TypeOK, PcType, ghosts
<1> QED BY <1>1, <1>2, <1>3, <1>4 DEF RequestStep

\* Failures keep the types.
LEMMA FailureType ==
  ASSUME TypeOK
  PROVE  /\ \A r \in Req : Cancel(r, Node) => TypeOK'
         /\ \A r \in Req, n \in Node : Cancel(r, {n}) => TypeOK'
         /\ \A n \in Node : Crash(n) => TypeOK'
<1>1. ASSUME NEW r \in Req, NEW N \in SUBSET Node, Cancel(r, N)
      PROVE  TypeOK'
  <2>1. alive' \in [Req -> SUBSET Node] /\ faults' \in 0..MaxFaults
    BY <1>1, FaultType DEF Cancel, TypeOK
  <2> QED BY <1>1, <2>1 DEF Cancel, TypeOK, ghosts
<1>2. ASSUME NEW n \in Node, Crash(n)
      PROVE  TypeOK'
  <2>1. work' \in [Req -> [Node -> Handler]]
    BY <1>2, NoWorkType DEF Crash, TypeOK
  <2>2. alive' \in [Req -> SUBSET Node] /\ todo' \in [Req -> SUBSET Node]
    BY <1>2 DEF Crash, TypeOK
  <2>3. pc' \in [Req -> PcType] /\ faults' \in 0..MaxFaults /\ dirty' \subseteq Node
    BY <1>2, FaultType DEF Crash, TypeOK, PcType
  <2>4. orphaned' \subseteq Node \X {"veth", "mapping"} \X Bridge
    <3>1. \A b \in node[n].veths : <<n, "veth", b>> \in Node \X {"veth", "mapping"} \X Bridge
      BY NodeParts DEF TypeOK
    <3>2. \A x \in orphaned' : x \in orphaned \/ \E b \in node[n].veths : x = <<n, "veth", b>>
      BY <1>2 DEF Crash
    <3> QED BY <3>1, <3>2 DEF TypeOK
  <2> QED BY <1>2, <2>1, <2>2, <2>3, <2>4 DEF Crash, TypeOK, PcType
<1> QED BY <1>1, <1>2

\* Handlers that read keep the types.
LEMMA ReadType ==
  ASSUME TypeOK, NEW r \in Req, NEW n \in Node,
         Visit(r, n) \/ Lost(r, n) \/ ReadConf(r, n) \/ Check(r, n)
  PROVE  TypeOK'
<1> DEFINE w == work[r][n]
<1>0. w \in Handler /\ ask[r] \in Ask
  BY DEF TypeOK
<1>1. CASE Visit(r, n)
  <2>1. PICK b \in IF ask[r].op = "tags" THEN ask[r].next ELSE {None} :
          Step(r, n, [NoWork EXCEPT
            !.at = IF ask[r].op = "setup" THEN "readIface" ELSE "check",
            !.opts = IF ask[r].op = "tags"
                     THEN [NoOptions EXCEPT !.bridges = {b}, !.given = TRUE]
                     ELSE ask[r].opts])
    BY <1>1 DEF Visit
  <2> DEFINE at == IF ask[r].op = "setup" THEN "readIface" ELSE "check"
             o == IF ask[r].op = "tags" THEN [NoOptions EXCEPT !.bridges = {b}, !.given = TRUE]
                  ELSE ask[r].opts
  <2>2. o \in Options /\ at \in StepName
    BY <1>0, <2>1 DEF Ask, Options, NoOptions, StepName
  <2>3. Step(r, n, [NoWork EXCEPT !.at = at, !.opts = o])
    BY <2>1
  <2> HIDE DEF at, o
  <2>4. work' \in [Req -> [Node -> Handler]]
    BY <2>2, <2>3, NoWorkType, HandlerChanges, WorkStep
  <2> QED BY <1>1, <2>4 DEF Visit, TypeOK, ghosts
<1>2. CASE Lost(r, n)
  <2>1. todo' \in [Req -> SUBSET Node] /\ faults' \in 0..MaxFaults
    BY <1>2, FaultType DEF Lost, TypeOK
  <2> QED BY <1>2, <2>1 DEF Lost, TypeOK, ghosts
<1>3. CASE ReadConf(r, n)
  <2>1. CASE Return(r, n)
    BY <1>3, <2>1, ReturnStep DEF ReadConf, TypeOK, ghosts
  <2>2. CASE ~Return(r, n)
    <3>1. conf.ifaces \subseteq Iface /\ conf.bridges \subseteq UserBridge
      BY DEF TypeOK
    <3> DEFINE a == [w EXCEPT !.at = "readBridge", !.opts.ifaces = conf.ifaces]
               b == [w EXCEPT !.at = "check", !.opts.bridges = conf.bridges]
    <3>2. a \in Handler /\ b \in Handler
      BY <1>0, <3>1 DEF Handler, Options
    <3>3. Step(r, n, a) \/ Step(r, n, b)
      BY <1>3, <2>2 DEF ReadConf
    <3> HIDE DEF a, b
    <3>4. work' \in [Req -> [Node -> Handler]]
      BY <3>2, <3>3, WorkStep
    <3>5. UNCHANGED <<todo, ask>>
      BY <1>3, <2>2 DEF ReadConf
    <3> QED BY <1>3, <3>4, <3>5 DEF ReadConf, TypeOK, ghosts
  <2> QED BY <2>1, <2>2
<1>4. CASE Check(r, n)
  <2>1. CASE Return(r, n)
    BY <1>4, <2>1, ReturnStep DEF Check, TypeOK, ghosts
  <2>2. CASE ~Return(r, n)
    <3>1. Step(r, n, [w EXCEPT !.at = "row"]) /\ UNCHANGED <<todo, ask>>
      BY <1>4, <2>2 DEF Check
    <3>2. "row" \in StepName
      BY DEF StepName
    <3>3. [w EXCEPT !.at = "row"] \in Handler
      BY <1>0, <3>2, HandlerChanges
    <3>4. work' \in [Req -> [Node -> Handler]]
      BY <3>1, <3>3, WorkStep
    <3> QED BY <1>4, <3>1, <3>4 DEF Check, TypeOK, ghosts
  <2> QED BY <2>1, <2>2
<1> QED BY <1>1, <1>2, <1>3, <1>4

\* Handlers at the table keep the types.
LEMMA RowType ==
  ASSUME TypeOK, NEW r \in Req, NEW n \in Node,
         \/ CreateRow(r, n) \/ DeleteRow(r, n) \/ GenerateEnvironment(r, n)
         \/ Rollback(r, n) \/ TornDown(r, n)
  PROVE  TypeOK'
<1> DEFINE w == work[r][n]
<1>0. w \in Handler
  BY DEF TypeOK
<1>1. \A at \in {"env", "stop", "start", "rollback"} : [w EXCEPT !.at = at] \in Handler
  <2>1. {"env", "stop", "start", "rollback"} \subseteq StepName
    BY DEF StepName, SetupStep, TeardownStep
  <2> QED BY <1>0, <2>1, HandlerChanges
<1>2. CASE CreateRow(r, n)
  <2>1. CASE Return(r, n)
    BY <1>2, <2>1, ReturnStep DEF CreateRow, TypeOK, ghosts
  <2>2. CASE ~Return(r, n)
    <3>1. /\ rows' = rows \cup {n} /\ Step(r, n, [w EXCEPT !.at = "env"])
          /\ UNCHANGED <<todo, ask>>
      BY <1>2, <2>2 DEF CreateRow
    <3>2. work' \in [Req -> [Node -> Handler]]
      BY <1>1, <3>1, WorkStep
    <3> QED BY <1>2, <3>1, <3>2 DEF CreateRow, TypeOK, ghosts
  <2> QED BY <2>1, <2>2
<1>3. CASE DeleteRow(r, n)
  <2>1. CASE Return(r, n) /\ UNCHANGED <<rows, confirmed, dirty>>
    BY <1>3, <2>1, ReturnStep DEF DeleteRow, TypeOK
  <2>2. CASE ~(Return(r, n) /\ UNCHANGED <<rows, confirmed, dirty>>)
    <3>1. /\ rows' = rows \ {n} /\ confirmed' = confirmed \ {n}
          /\ Enter(r, n, [w EXCEPT !.at = "stop"]) /\ UNCHANGED <<todo, ask>>
      BY <1>3, <2>2 DEF DeleteRow
    <3>2. work' \in [Req -> [Node -> Handler]] /\ (dirty' = dirty \/ dirty' = dirty \cup {n})
      BY <1>1, <3>1, EnterStep
    <3> QED BY <1>3, <3>1, <3>2 DEF DeleteRow, TypeOK
  <2> QED BY <2>1, <2>2
<1>4. CASE GenerateEnvironment(r, n)
  <2>1. CASE Alive(r, n) /\ Enter(r, n, [w EXCEPT !.at = "start"]) /\ UNCHANGED <<todo, ask, faults>>
    <3>1. work' \in [Req -> [Node -> Handler]] /\ (dirty' = dirty \/ dirty' = dirty \cup {n})
      BY <1>1, <2>1, EnterStep
    <3> QED BY <1>4, <2>1, <3>1 DEF GenerateEnvironment, TypeOK
  <2>2. CASE Broken(r, n) /\ Spoil(r, n, NoWork) /\ Leave(r, n)
    <3>1. work' \in [Req -> [Node -> Handler]] /\ dirty' = dirty \cup {n}
      BY <2>2, NoWorkType, SpoilStep
    <3>2. faults' \in 0..MaxFaults
      BY <2>2, FaultType
    <3> QED BY <1>4, <2>2, <3>1, <3>2, LeaveStep DEF GenerateEnvironment, TypeOK
  <2> QED BY <1>4, <2>1, <2>2 DEF GenerateEnvironment
<1>5. CASE Rollback(r, n)
  <2>1. Return(r, n)
    BY <1>5 DEF Rollback
  <2>2. rows' \subseteq Node /\ dirty' \subseteq Node
    BY <1>5 DEF Rollback, TypeOK
  <2> QED BY <1>5, <2>1, <2>2, ReturnStep DEF Rollback, TypeOK
<1>6. CASE TornDown(r, n)
  <2>1. dirty' \subseteq Node /\ confirmed' \subseteq Node
    BY <1>6 DEF TornDown, TypeOK
  <2>2. CASE Return(r, n)
    BY <1>6, <2>1, <2>2, ReturnStep DEF TornDown, TypeOK
  <2>3. CASE ~Return(r, n)
    <3>1. Step(r, n, [w EXCEPT !.at = "rollback"]) /\ UNCHANGED <<todo, ask>>
      BY <1>6, <2>3 DEF TornDown
    <3>2. work' \in [Req -> [Node -> Handler]]
      BY <1>1, <3>1, WorkStep
    <3> QED BY <1>6, <2>1, <3>1, <3>2 DEF TornDown, TypeOK
  <2> QED BY <2>2, <2>3
<1> QED BY <1>2, <1>3, <1>4, <1>5, <1>6

\* The bridges of a setup are those of its options.
LEMMA LinksType == \A o \in Options : Links(o) \subseteq Bridge /\ (Valid(o) => Links(o) # {})
BY DEF Links, Options, Bridge, Valid

\* What a loop of the setup does: the node after one more bridge, the teardown,
\* or the next step.
LEMMA CreateBridgesDoes ==
  ASSUME NEW r \in Req, NEW n \in Node, CreateBridges(r, n)
  PROVE  LET w == work[r][n] IN
         /\ w.at = "bridges"
         /\ \/ \E b \in w.left :
                 /\ Becomes(n, AddMapping(n, b)) /\ Step(r, n, [w EXCEPT !.left = @ \ {b}])
            \/ Abort(r, n) /\ node' = node
            \/ /\ w.left = {} /\ node' = node
               /\ Step(r, n, [w EXCEPT !.at = "router", !.left = w.use])
         /\ UNCHANGED <<rows, conf, plugged, ask, pc, todo, alive, dirty, struck,
                        confirmed, issued, faults>>
         /\ orphaned' = IF node'[n].own # node[n].own
                        THEN orphaned \ ({n} \X {"mapping"} \X Bridge) ELSE orphaned
BY DEF CreateBridges, Loop, At

\* The same of the logical switches ...
LEMMA CreateSwitchesDoes ==
  ASSUME NEW r \in Req, NEW n \in Node, CreateSwitches(r, n)
  PROVE  LET w == work[r][n] IN
         /\ w.at = "switches"
         /\ \/ \E b \in w.left :
                 /\ Becomes(n, [node[n] EXCEPT !.switches = @ \cup {b}])
                 /\ Step(r, n, [w EXCEPT !.left = @ \ {b}])
            \/ Abort(r, n) /\ node' = node
            \/ /\ w.left = {} /\ node' = node
               /\ Step(r, n, [w EXCEPT !.at = "vrf", !.left = w.use])
         /\ UNCHANGED <<rows, conf, plugged, ask, pc, todo, alive, dirty, struck,
                        confirmed, issued, faults, orphaned>>
BY DEF CreateSwitches, Loop, At

\* ... and of the ports, which need the device of the bridge.
LEMMA RedirectPortsDoes ==
  ASSUME NEW r \in Req, NEW n \in Node, RedirectPorts(r, n)
  PROVE  LET w == work[r][n] IN
         /\ w.at = "ports"
         /\ \/ \E b \in w.left :
                 /\ b \in node[n].veths
                 /\ Becomes(n, [node[n] EXCEPT !.ports = @ \cup {b}])
                 /\ Step(r, n, [w EXCEPT !.left = @ \ {b}])
            \/ Abort(r, n) /\ node' = node
            \/ /\ w.left = {} /\ node' = node
               /\ Step(r, n, [w EXCEPT !.at = "conf", !.left = w.use])
         /\ UNCHANGED <<rows, conf, plugged, ask, pc, todo, alive, dirty, struck,
                        confirmed, issued, faults, orphaned>>
BY DEF RedirectPorts, Loop, At

\* A step of the teardown does its work, or fails and goes on; the handler is
\* not alone any more then.
LEMMA TeardownDoes ==
  ASSUME TypeOK, NEW r \in Req, NEW n \in Node, NEW at, NEW next \in StepName,
         NEW s \in NodeState, Teardown(r, n, at, next, s)
  PROVE  /\ work[r][n].at = at
         /\ work' \in [Req -> [Node -> Handler]]
         /\ \A q \in Req, m \in Node : q # r \/ m # n => work'[q][m] = work[q][m]
         /\ work'[r][n].at = next /\ work'[r][n].left = work[r][n].left
         /\ work'[r][n].opts = work[r][n].opts /\ work'[r][n].undo = work[r][n].undo
         /\ node' \in [Node -> NodeState]
         /\ \A m \in Node : m # n => node'[m] = node[m]
         /\ \/ node'[n] = s /\ work'[r][n].alone = work[r][n].alone
            \/ node' = node /\ ~work'[r][n].alone
         /\ UNCHANGED <<rows, conf, plugged, ask, pc, todo, alive, dirty, confirmed, issued>>
         /\ faults' \in 0..MaxFaults
<1> DEFINE w == work[r][n]
           a == [w EXCEPT !.at = next]
           b == [w EXCEPT !.at = next, !.alone = FALSE]
<1>1. w \in Handler
  BY DEF TypeOK
<1>2. a \in Handler /\ b \in Handler
  BY <1>1, HandlerChanges
<1>3. /\ a.at = next /\ a.left = w.left /\ a.opts = w.opts /\ a.alone = w.alone
      /\ b.at = next /\ b.left = w.left /\ b.opts = w.opts /\ ~b.alone
      /\ a.undo = w.undo /\ b.undo = w.undo
  BY <1>1 DEF Handler
<1>4. /\ w.at = at
      /\ UNCHANGED <<rows, conf, plugged, ask, pc, todo, alive, dirty, confirmed, issued>>
  BY DEF Teardown, At
<1>5. \/ Becomes(n, s) /\ Step(r, n, a) /\ UNCHANGED faults
      \/ Broken(r, n) /\ UNCHANGED node /\ Step(r, n, b)
  BY DEF Teardown
<1>6. faults \in 0..MaxFaults /\ node \in [Node -> NodeState]
  BY DEF TypeOK
<1> HIDE DEF a, b
<1>7. CASE Becomes(n, s) /\ Step(r, n, a) /\ UNCHANGED faults
  BY <1>2, <1>3, <1>4, <1>6, <1>7, WorkStep, NodeStep
<1>8. CASE Broken(r, n) /\ UNCHANGED node /\ Step(r, n, b)
  BY <1>2, <1>3, <1>4, <1>6, <1>8, WorkStep, FaultType
<1> QED BY <1>5, <1>7, <1>8

\* The steps of the setup keep the types.
LEMMA SetupType ==
  ASSUME TypeOK, NEW r \in Req, NEW n \in Node, SetupActs(r, n)
  PROVE  TypeOK'
<1> DEFINE w == work[r][n]
           s == node[n]
<1>0. /\ w \in Handler /\ s \in NodeState
      /\ w.left \subseteq Bridge /\ w.use \subseteq Bridge /\ w.table \in Table \cup {None}
      /\ SetupStep \subseteq StepName
  BY HandlerParts DEF TypeOK, StepName
<1>1. ASSUME NEW at \in SetupStep, Step(r, n, [w EXCEPT !.at = at, !.left = w.use])
      PROVE  work' \in [Req -> [Node -> Handler]]
  <2>1. [w EXCEPT !.at = at, !.left = w.use] \in Handler
    BY <1>0, HandlerChanges
  <2> QED BY <1>1, <2>1, WorkStep
<1>2. ASSUME NEW at \in SetupStep, Step(r, n, [w EXCEPT !.at = at])
      PROVE  work' \in [Req -> [Node -> Handler]]
  <2>1. [w EXCEPT !.at = at] \in Handler
    BY <1>0, HandlerChanges
  <2> QED BY <1>2, <2>1, WorkStep
<1>3. ASSUME NEW b \in w.left, Step(r, n, [w EXCEPT !.left = @ \ {b}])
      PROVE  work' \in [Req -> [Node -> Handler]]
  <2>1. w.left \ {b} \in SUBSET Bridge
    BY <1>0
  <2>2. [w EXCEPT !.left = w.left \ {b}] \in Handler
    BY <1>0, <2>1, HandlerChanges
  <2> QED BY <1>3, <2>2, WorkStep
<1>4. Abort(r, n) => work' \in [Req -> [Node -> Handler]]
  BY AbortStep
<1>5. \A x \in {"table", "bridges", "router", "switches", "vrf", "plan", "veth",
                "ports", "conf"} : x \in SetupStep
  BY DEF SetupStep
<1>6. CASE Start(r, n)
  <2>1. node' \in [Node -> NodeState]
    BY <1>0, <1>6, NodeChanges, NodeStep DEF Start
  <2>2. CASE w.opts.given
    BY <1>2, <1>5, <1>6, <2>1, <2>2 DEF Start, TypeOK
  <2>3. CASE ~w.opts.given
    BY <1>6, <2>1, <2>3, SucceedStep DEF Start, TypeOK
  <2> QED BY <2>2, <2>3
<1>7. CASE ChooseTable(r, n)
  <2>1. work' \in [Req -> [Node -> Handler]]
    <3>1. Abort(r, n) \/ \E t \in Table :
            Step(r, n, [w EXCEPT !.at = "bridges", !.table = t,
                                 !.use = Links(w.opts), !.left = Links(w.opts)])
      BY <1>7 DEF ChooseTable
    <3>2. ASSUME NEW t \in Table,
                 Step(r, n, [w EXCEPT !.at = "bridges", !.table = t,
                                      !.use = Links(w.opts), !.left = Links(w.opts)])
          PROVE  work' \in [Req -> [Node -> Handler]]
      <4>1. Links(w.opts) \in SUBSET Bridge
        BY <1>0, LinksType, HandlerParts
      <4>2. [w EXCEPT !.at = "bridges", !.table = t, !.use = Links(w.opts),
                      !.left = Links(w.opts)] \in Handler
        BY <1>0, <1>5, <4>1, HandlerChanges
      <4> QED BY <3>2, <4>2, WorkStep
    <3> QED BY <1>4, <3>1, <3>2
  <2> QED BY <1>7, <2>1 DEF ChooseTable, TypeOK, ghosts
<1>8. CASE CreateBridges(r, n)
  <2>1. \A b \in w.left : AddMapping(n, b) \in NodeState
    BY <1>0, NodeChanges DEF AddMapping
  <2>2. node' \in [Node -> NodeState] /\ work' \in [Req -> [Node -> Handler]]
    BY <1>1, <1>3, <1>4, <1>5, <1>8, <2>1, CreateBridgesDoes, NodeStep DEF TypeOK
  <2>3. orphaned' \subseteq orphaned
    BY <1>8, CreateBridgesDoes
  <2> QED BY <1>8, <2>2, <2>3, CreateBridgesDoes DEF TypeOK
<1>9. CASE CreateRouter(r, n)
  <2>1. node' \in [Node -> NodeState] /\ work' \in [Req -> [Node -> Handler]]
    BY <1>0, <1>2, <1>4, <1>5, <1>9, NodeChanges, NodeStep DEF CreateRouter, TypeOK
  <2> QED BY <1>9, <2>1 DEF CreateRouter, TypeOK, ghosts
<1>10. CASE CreateSwitches(r, n)
  <2>1. \A b \in w.left : [s EXCEPT !.switches = @ \cup {b}] \in NodeState
    BY <1>0, NodeChanges
  <2>2. node' \in [Node -> NodeState] /\ work' \in [Req -> [Node -> Handler]]
    BY <1>1, <1>3, <1>4, <1>5, <1>10, <2>1, CreateSwitchesDoes, NodeStep DEF TypeOK
  <2> QED BY <1>10, <2>2, CreateSwitchesDoes DEF TypeOK
<1>11. CASE CreateVrf(r, n)
  <2>1. [s EXCEPT !.table = w.table] \in NodeState
    BY <1>0, NodeChanges
  <2>2. node' \in [Node -> NodeState] /\ work' \in [Req -> [Node -> Handler]]
    BY <1>2, <1>4, <1>5, <1>11, <2>1, NodeStep DEF CreateVrf, TypeOK
  <2> QED BY <1>11, <2>2 DEF CreateVrf, TypeOK, ghosts
<1>12. CASE WritePlan(r, n)
  <2>1. NetplanConfig(w) \in Plan
    BY <1>0 DEF NetplanConfig, Plan
  <2>2. [s EXCEPT !.plan = NetplanConfig(w)] \in NodeState
    BY <1>0, <2>1, NodeChanges
  <2>3. node' \in [Node -> NodeState] /\ work' \in [Req -> [Node -> Handler]]
    BY <1>2, <1>5, <1>12, <2>2, NodeStep DEF WritePlan
  <2>4. orphaned' \subseteq Node \X {"veth", "mapping"} \X Bridge
    <3>1. \A b \in s.veths : <<n, "veth", b>> \in Node \X {"veth", "mapping"} \X Bridge
      BY <1>0, NodeParts
    <3> QED BY <1>12, <3>1 DEF WritePlan, TypeOK
  <2> QED BY <1>12, <2>3, <2>4 DEF WritePlan, TypeOK
<1>13. CASE ApplyPlan(r, n)
  <2>1. [s EXCEPT !.veths = @ \cup s.plan.bridges] \in NodeState
    BY <1>0, NodeChanges, NodeParts
  <2>2. node' \in [Node -> NodeState] /\ work' \in [Req -> [Node -> Handler]]
    BY <1>2, <1>5, <1>13, <2>1, NodeStep DEF ApplyPlan
  <2>3. orphaned' \subseteq orphaned
    BY <1>13 DEF ApplyPlan
  <2> QED BY <1>13, <2>2, <2>3 DEF ApplyPlan, TypeOK
<1>14. CASE RedirectPorts(r, n)
  <2>1. \A b \in w.left : [s EXCEPT !.ports = @ \cup {b}] \in NodeState
    BY <1>0, NodeChanges
  <2>2. node' \in [Node -> NodeState] /\ work' \in [Req -> [Node -> Handler]]
    BY <1>1, <1>3, <1>4, <1>5, <1>14, <2>1, RedirectPortsDoes, NodeStep DEF TypeOK
  <2> QED BY <1>14, <2>2, RedirectPortsDoes DEF TypeOK
<1>15. CASE Configure(r, n)
  <2>1. [s EXCEPT !.conf = [table |-> w.table, bridges |-> w.use, asn |-> Asn(n)]] \in NodeState
    BY <1>0, NodeChanges, AsnType
  <2> DEFINE new == IF w.opts.manual THEN s
                    ELSE [s EXCEPT !.conf =
                            [table |-> w.table, bridges |-> w.use, asn |-> Asn(n)]]
  <2>2. new \in NodeState
    BY <1>0, <2>1
  <2>3. Becomes(n, new)
    BY <1>15 DEF Configure
  <2> HIDE DEF new
  <2>4. node' \in [Node -> NodeState]
    BY <2>2, <2>3, NodeStep
  <2> QED BY <1>15, <2>4, SucceedStep DEF Configure, TypeOK
<1>16. CASE Fail(r, n)
  <2>1. work' \in [Req -> [Node -> Handler]] /\ faults' \in 0..MaxFaults
    BY <1>4, <1>16, FaultType DEF Fail
  <2> QED BY <1>16, <2>1 DEF Fail, TypeOK, ghosts
<1> QED BY <1>6, <1>7, <1>8, <1>9, <1>10, <1>11, <1>12, <1>13, <1>14, <1>15, <1>16 DEF SetupActs

\* The steps of the teardown keep the types.
LEMMA TeardownType ==
  ASSUME TypeOK, NEW r \in Req, NEW n \in Node, TeardownActs(r, n)
  PROVE  TypeOK'
<1> DEFINE w == work[r][n]
           s == node[n]
<1>0. /\ w \in Handler /\ s \in NodeState /\ w.left \subseteq Bridge
      /\ TeardownStep \subseteq StepName /\ "done" \in StepName
  BY HandlerParts DEF TypeOK, StepName
<1>1. \A x \in {"stop", "delRouter", "delPlan", "delVeth", "delSwitches", "delBridges",
                "delPorts", "delMaps", "delOwn", "resetConf", "done"} : x \in StepName
  BY DEF StepName, TeardownStep
<1>2. CASE StopBird(r, n)
  BY <1>0, <1>1, <1>2, NodeChanges, TeardownDoes DEF StopBird, TypeOK
<1>3. CASE DeleteRouter(r, n)
  BY <1>0, <1>1, <1>3, NodeChanges, TeardownDoes DEF DeleteRouter, TypeOK
<1>4. CASE MovePlan(r, n)
  <2>1. CASE /\ Becomes(n, [s EXCEPT !.plan = NoPlan])
             /\ Step(r, n, [w EXCEPT !.at = "delVeth", !.left = s.plan.bridges])
             /\ UNCHANGED faults
    <3>1. [s EXCEPT !.plan = NoPlan] \in NodeState
      BY <1>0, DefaultTypes, NodeChanges
    <3>2. [w EXCEPT !.at = "delVeth", !.left = s.plan.bridges] \in Handler
      BY <1>0, <1>1, NodeParts, HandlerChanges
    <3>3. node' \in [Node -> NodeState] /\ work' \in [Req -> [Node -> Handler]]
      BY <2>1, <3>1, <3>2, NodeStep, WorkStep
    <3> QED BY <1>4, <2>1, <3>3 DEF MovePlan, TypeOK, ghosts
  <2>2. CASE /\ Broken(r, n) /\ Step(r, n, [w EXCEPT !.at = "delSwitches", !.alone = FALSE])
             /\ UNCHANGED node
    <3>1. [w EXCEPT !.at = "delSwitches", !.alone = FALSE] \in Handler
      BY <1>0, <1>1, HandlerChanges
    <3>2. work' \in [Req -> [Node -> Handler]] /\ faults' \in 0..MaxFaults
      BY <2>2, <3>1, WorkStep, FaultType
    <3> QED BY <1>4, <2>2, <3>2 DEF MovePlan, TypeOK, ghosts
  <2> QED BY <1>4, <2>1, <2>2 DEF MovePlan
<1>5. CASE DeleteVeths(r, n)
  <2> DEFINE lost == s.veths \cap w.left
  <2>1. lost \in SUBSET Bridge
    BY <1>0
  <2>2. \A b \in lost : <<n, "veth", b>> \in Node \X {"veth", "mapping"} \X Bridge
    BY <2>1
  <2>3. orphaned' \subseteq Node \X {"veth", "mapping"} \X Bridge
    BY <1>5, <2>2 DEF DeleteVeths, TypeOK
  <2>4. Teardown(r, n, "delVeth", "delSwitches", [s EXCEPT !.veths = @ \ lost])
    BY <1>5 DEF DeleteVeths
  <2> HIDE DEF lost
  <2>5. [s EXCEPT !.veths = @ \ lost] \in NodeState
    BY <1>0, <2>1, NodeChanges
  <2> QED BY <1>1, <1>5, <2>3, <2>4, <2>5, TeardownDoes DEF DeleteVeths, TypeOK
<1>6. CASE DeleteSwitches(r, n)
  <2>1. struck' \subseteq Node /\ node' \in [Node -> NodeState]
    <3>1. \A m \in Node : [node[m] EXCEPT !.switches = {}] \in NodeState
      BY NodeChanges DEF TypeOK
    <3>2. \/ node' = [m \in Node |-> IF m \in Picked(n)
                                     THEN [node[m] EXCEPT !.switches = {}] ELSE node[m]]
          \/ node' = node
      BY <1>6 DEF DeleteSwitches
    <3>3. node' \in [Node -> NodeState]
      <4> DEFINE next(m) == IF m \in Picked(n) THEN [node[m] EXCEPT !.switches = {}]
                            ELSE node[m]
      <4>1. \A m \in Node : next(m) \in NodeState
        BY <3>1 DEF TypeOK
      <4>2. node' = [m \in Node |-> next(m)] \/ node' = node
        BY <3>2
      <4> HIDE DEF next
      <4> QED BY <4>1, <4>2 DEF TypeOK
    <3>4. struck' \subseteq struck \cup Picked(n)
      BY <1>6 DEF DeleteSwitches
    <3> QED BY <3>3, <3>4 DEF TypeOK, Picked
  <2>2. work' \in [Req -> [Node -> Handler]] /\ faults' \in 0..MaxFaults
    <3>1. /\ [w EXCEPT !.at = "delBridges"] \in Handler
          /\ [w EXCEPT !.at = "delBridges", !.alone = FALSE] \in Handler
      BY <1>0, <1>1, HandlerChanges
    <3>2. \/ Step(r, n, [w EXCEPT !.at = "delBridges"]) /\ UNCHANGED faults
          \/ Step(r, n, [w EXCEPT !.at = "delBridges", !.alone = FALSE]) /\ Broken(r, n)
      BY <1>6 DEF DeleteSwitches
    <3>3. faults \in 0..MaxFaults
      BY DEF TypeOK
    <3> QED BY <3>1, <3>2, <3>3, WorkStep, FaultType
  <2> QED BY <1>6, <2>1, <2>2 DEF DeleteSwitches, TypeOK
<1>7. CASE DeleteBridges(r, n)
  <2>1. [s EXCEPT !.bridges = @ \ s.tagged, !.tagged = {}] \in NodeState
    BY <1>0, NodeParts, NodeChanges
  <2> QED BY <1>1, <1>7, <2>1, TeardownDoes DEF DeleteBridges, TypeOK
<1>8. CASE DeletePorts(r, n)
  BY <1>0, <1>1, <1>8, NodeChanges, TeardownDoes DEF DeletePorts, TypeOK
<1>9. CASE DeleteMappings(r, n)
  <2>1. [s EXCEPT !.mapped = @ \ s.own] \in NodeState
    BY <1>0, NodeParts, NodeChanges
  <2>2. CASE Teardown(r, n, "delMaps", "delOwn", [s EXCEPT !.mapped = @ \ s.own])
    BY <1>1, <1>9, <2>1, <2>2, TeardownDoes DEF DeleteMappings, TypeOK
  <2>3. CASE /\ Broken(r, n) /\ Step(r, n, [w EXCEPT !.at = "done", !.alone = FALSE])
             /\ UNCHANGED <<rows, conf, plugged, node, ask, pc, todo, alive, dirty,
                            confirmed, issued>>
    <3>1. [w EXCEPT !.at = "done", !.alone = FALSE] \in Handler
      BY <1>0, <1>1, HandlerChanges
    <3>2. work' \in [Req -> [Node -> Handler]] /\ faults' \in 0..MaxFaults
      BY <2>3, <3>1, WorkStep, FaultType
    <3> QED BY <1>9, <2>3, <3>2 DEF DeleteMappings, TypeOK
  <2> QED BY <1>9, <2>2, <2>3 DEF DeleteMappings
<1>10. CASE DeleteOwn(r, n)
  <2>1. \A b \in s.mapped \cap Bridge :
          <<n, "mapping", b>> \in Node \X {"veth", "mapping"} \X Bridge
    OBVIOUS
  <2>2. orphaned' \subseteq Node \X {"veth", "mapping"} \X Bridge
    BY <1>10, <2>1 DEF DeleteOwn, TypeOK
  <2> QED BY <1>0, <1>1, <1>10, <2>2, NodeChanges, TeardownDoes DEF DeleteOwn, TypeOK
<1>11. CASE ResetConf(r, n)
  BY <1>0, <1>1, <1>11, DefaultTypes, TeardownDoes DEF ResetConf, TypeOK
<1>12. CASE TornDown(r, n)
  BY <1>12, RowType
<1> QED BY <1>2, <1>3, <1>4, <1>5, <1>6, <1>7, <1>8, <1>9, <1>10, <1>11, <1>12
        DEF TeardownActs

\* A step of a handler keeps the types.
LEMMA HandlerType ==
  ASSUME TypeOK, NEW r \in Req, NEW n \in Node, HandlerStep(r, n)
  PROVE  TypeOK'
BY ReadType, RowType, SetupType, TeardownType DEF HandlerStep

\* Every step keeps the types.
LEMMA NextType == TypeOK /\ [Next]_vars => TypeOK'
<1> SUFFICES ASSUME TypeOK, [Next]_vars PROVE TypeOK'
  OBVIOUS
<1>1. CASE UNCHANGED vars
  BY <1>1 DEF TypeOK, vars, ghosts
<1>2. CASE Idle
  BY <1>1, <1>2 DEF Idle
<1>3. CASE \E r \in Req : Issue(r) \/ RequestStep(r) \/ Cancel(r, Node)
  BY <1>3, IssueType, RequestType, FailureType
<1>4. CASE \E r \in Req, n \in Node : HandlerStep(r, n) \/ Cancel(r, {n})
  BY <1>4, HandlerType, FailureType
<1>5. CASE \E n \in Node : Crash(n)
  BY <1>5, FailureType
<1> QED BY <1>1, <1>2, <1>3, <1>4, <1>5 DEF Next

\* The variables of the model keep their types, for every cluster, number of
\* requests in flight and of faults.
THEOREM TypeCorrect == Spec => []TypeOK
BY InitType, NextType, PTL DEF Spec

---------------------------------------------------------------------------
(* The inductive invariant.                                                *)

\* What MicroOVN made is marked as its own, planned, being deleted or orphaned,
\* whatever happens.
Remnants(n) ==
  LET s == node[n] IN
  /\ s.bridges \ UserBridge \subseteq s.tagged
  /\ \A b \in s.veths :
       \/ b \in s.plan.bridges \/ <<n, "veth", b>> \in orphaned
       \/ \E r \in Req : At(r, n, "delVeth") /\ b \in work[r][n].left
  /\ \A b \in s.mapped \cap Bridge : b \in s.own \/ <<n, "mapping", b>> \in orphaned

AsnKept(n) == node[n].conf # DefaultBird => node[n].conf.asn = Asn(n)

\* A request stays until its handlers are done.
Present(n) == \A r \in Req : ~At(r, n, "none") => pc[r] = "visit" /\ n \in todo[r]

\* The options that handlers come to are valid.
ConfSet == conf.ifaces \cup conf.bridges # {}

OptionsOf(r, n) ==
  LET w == work[r][n] IN
  /\ w.at \in {"check", "row", "env", "start"} /\ w.opts.given => Valid(w.opts)
  /\ w.at = "table" => Valid(w.opts)
  /\ w.at = "readIface" => ConfSet
  /\ w.at = "readBridge" => w.opts.ifaces # {} \/ conf.bridges # {}
  /\ w.at = "env" => ~Disables(r)

OptionsValid(n) == \A r \in Req : OptionsOf(r, n)

ConfStored == \A r \in Req : pc[r] \in {"probe", "visit"} /\ ask[r].op = "setup" => ConfSet

AskValid ==
  \A r \in Req :
    /\ pc[r] # "idle" /\ ask[r].op = "setup" => Valid(ask[r].opts)
    /\ pc[r] # "idle" /\ ask[r].op = "enable" /\ ask[r].opts.given => Valid(ask[r].opts)
    /\ pc[r] # "idle" /\ ask[r].op = "disable" => ~ask[r].opts.given
    /\ pc[r] \in {"flag", "link", "probe"} => ask[r].op = "setup"

RequestsKept ==
  (\A n \in Node : Present(n) /\ OptionsValid(n)) /\ ConfStored /\ AskValid

\* Two handlers that are at a system at once know of each other.
Exclusive(n) ==
  \A r, q \in Req : r # q /\ Busy(r, n) /\ Busy(q, n) => n \in dirty /\ ~work[r][n].alone

InSetup(r, n) == work[r][n].at \in SetupStep
InTeardown(r, n) == work[r][n].at \in TeardownStep \cup {"done"}

\* A setup has its row, and so has a node that was confirmed; a row that appears
\* during the teardown of a disable is one of an enable that has yet to begin.
Rowed(n) ==
  /\ (\E r \in Req : InSetup(r, n)) \/ n \in confirmed => n \in rows \cup dirty
  /\ \A r \in Req :
       InTeardown(r, n) /\ work[r][n].alone /\ ~work[r][n].undo /\ n \in rows =>
         \E q \in Req : At(q, n, "env")

\* The node but for BIRD is as MicroOVN found it, or is set up.
Base(n) ==
  LET s == node[n] IN
  /\ ~s.router /\ s.table = None
  /\ s.bridges \subseteq UserBridge /\ s.tagged = {} /\ s.own = {}
  /\ s.switches = {} /\ s.ports = {}
  /\ s.plan = NoPlan /\ s.conf = DefaultBird
  /\ \A b \in s.veths : <<n, "veth", b>> \in orphaned
  /\ \A b \in s.mapped \cap Bridge : <<n, "mapping", b>> \in orphaned

Full(n) == Agrees(n) /\ node[n].router

RollbackClean(n) ==
  \A r \in Req : At(r, n, "rollback") =>
    n \in dirty \/ (n \notin confirmed /\ TornDownState(n))

\* What a teardown that is alone has torn down stays so.
ToSwitches == {"stop", "delRouter", "delPlan", "delVeth", "delSwitches"}

Undone(r, n) ==
  LET s == node[n]
      at == work[r][n].at
  IN
  /\ at # "stop" => ~s.bird
  /\ at \notin {"stop", "delRouter"} => ~s.router /\ s.table = None
  /\ at \notin {"stop", "delRouter", "delPlan"} => s.plan = NoPlan
  /\ at \notin {"stop", "delRouter", "delPlan", "delVeth"} =>
       \A b \in s.veths : <<n, "veth", b>> \in orphaned
  /\ at \notin ToSwitches => s.switches = {}
  /\ at \notin ToSwitches \cup {"delBridges"} => s.bridges \subseteq UserBridge /\ s.tagged = {}
  /\ at \notin ToSwitches \cup {"delBridges", "delPorts"} => s.ports = {}
  /\ at \in {"resetConf", "done"} => s.own = {}
  /\ at = "done" => s.conf = DefaultBird

TeardownClean(n) ==
  \A r \in Req : InTeardown(r, n) /\ work[r][n].alone => Undone(r, n)

\* What a setup that is alone has set up stays so.
Near(n) == node[n].plan = NoPlan /\ node[n].conf = DefaultBird /\ node[n].ports = {}

Chosen(r, n) ==
  LET w == work[r][n] IN
  /\ w.use # {} /\ w.table \notin Taken \cup {None} /\ w.left \subseteq w.use
  /\ node[n].bird

MappedTo(n) ==
  node[n].bridges \cap node[n].tagged \cap node[n].mapped \cap node[n].own

Linked(r, n) == Chosen(r, n) /\ node[n].router /\ work[r][n].use \subseteq MappedTo(n)

Switched(r, n) ==
  /\ node[n].switches = work[r][n].use \/ n \in struck
  /\ work[r][n].left = work[r][n].use

Planned(r, n) ==
  /\ Linked(r, n)
  /\ node[n].switches = work[r][n].use \/ n \in struck
  /\ node[n].conf = DefaultBird /\ node[n].table = work[r][n].table
  /\ node[n].plan = NetplanConfig(work[r][n])

SetUp(r, n) ==
  LET s == node[n]
      w == work[r][n]
  IN
  /\ w.at = "start" => Base(n) \/ Full(n)
  /\ w.at = "table" => s.bird /\ (Base(n) \/ Full(n))
  /\ w.at = "bridges" =>
       /\ Chosen(r, n)
       /\ s.router \/ (Near(n) /\ s.switches = {} /\ w.use \ w.left \subseteq MappedTo(n))
  /\ w.at = "router" =>
       /\ Chosen(r, n) /\ w.left = w.use
       /\ s.router \/ (Near(n) /\ s.switches = {} /\ w.use \subseteq MappedTo(n))
  /\ w.at = "switches" =>
       Linked(r, n) /\ Near(n) /\ (s.switches = w.use \ w.left \/ n \in struck)
  /\ w.at = "vrf" => Linked(r, n) /\ Near(n) /\ Switched(r, n)
  /\ w.at = "plan" => Linked(r, n) /\ Near(n) /\ Switched(r, n) /\ s.table = w.table
  /\ w.at = "veth" => Planned(r, n) /\ s.ports = {} /\ w.left = w.use
  /\ w.at = "ports" => Planned(r, n) /\ w.use \subseteq s.veths /\ s.ports = w.use \ w.left
  /\ w.at = "conf" => Planned(r, n) /\ w.use \subseteq s.veths /\ s.ports = w.use

SetupClean(n) == \A r \in Req : InSetup(r, n) /\ n \notin dirty => SetUp(r, n)

\* Where nobody is at work and nothing was disturbed, the node is as its row says.
Rests(n) ==
  (\A r \in Req : ~Busy(r, n)) /\ n \notin dirty =>
    IF n \in rows
    THEN Full(n) \/ (Base(n) /\ (node[n].bird \/ \E r \in Req : At(r, n, "env")))
    ELSE TornDownState(n)

---------------------------------------------------------------------------
(* Steps, seen from a node.                                                *)

\* A step that is taken elsewhere reaches a node through its switches only.
Untouched(m) ==
  /\ m \in rows' <=> m \in rows
  /\ m \in dirty' <=> m \in dirty
  /\ m \in confirmed' <=> m \in confirmed
  /\ m \in struck => m \in struck'
  /\ \A k \in {"veth", "mapping"}, b \in Bridge :
       <<m, k, b>> \in orphaned' <=> <<m, k, b>> \in orphaned
  /\ \/ node'[m] = node[m]
     \/ /\ node'[m] = [node[m] EXCEPT !.switches = {}]
        /\ node[m].switches = {} \/ m \in struck'

\* What the step of a handler leaves alone.
HandlerFrame(r, n) ==
  /\ UNCHANGED <<conf, pc>>
  /\ \A q \in Req : ask'[q].op = ask[q].op /\ ask'[q].opts = ask[q].opts
  /\ \A q \in Req, m \in Node :
       m \in todo[q] => m \in todo'[q] \/ (q = r /\ m = n /\ work'[r][n].at = "none")
  /\ \A q \in Req, m \in Node : m # n => work'[q][m] = work[q][m]
  /\ \A q \in Req : q # r =>
       \/ work'[q][n] = work[q][n]
       \/ /\ Busy(q, n) /\ n \in dirty'
          /\ work'[q][n] = [work[q][n] EXCEPT !.alone = FALSE]
  /\ \A m \in Node : m # n => Untouched(m)

\* Handlers that read, and those at the table, leave the rest alone.
LEMMA ReadFrame ==
  ASSUME TypeOK, NEW r \in Req, NEW n \in Node,
         \/ Visit(r, n) \/ Lost(r, n) \/ ReadConf(r, n) \/ Check(r, n)
         \/ CreateRow(r, n) \/ DeleteRow(r, n) \/ GenerateEnvironment(r, n)
         \/ Rollback(r, n) \/ TornDown(r, n)
  PROVE  HandlerFrame(r, n)
<1>1. CASE Lost(r, n)
  <2>1. \A m \in Node : m # n => Untouched(m)
    BY <1>1 DEF Lost, ghosts, Untouched
  <2>2. UNCHANGED <<conf, pc, ask, work>> /\ work[r][n].at = "none"
    BY <1>1 DEF Lost, MayVisit, At
  <2>3. \A q \in Req, m \in Node : m \in todo[q] => m \in todo'[q] \/ (q = r /\ m = n)
    BY <1>1 DEF Lost, TypeOK
  <2> QED BY <2>1, <2>2, <2>3 DEF HandlerFrame
<1>2. UNCHANGED <<conf, pc>> /\ \A m \in Node : m # n => Untouched(m)
  <2>1. \A m \in Node : m # n => (m \in rows' <=> m \in rows)
    BY DEF Visit, Lost, ReadConf, Check, CreateRow, DeleteRow, GenerateEnvironment, Rollback,
           TornDown
  <2>2. \A m \in Node : m # n => (m \in confirmed' <=> m \in confirmed)
    BY DEF Visit, Lost, ReadConf, Check, CreateRow, DeleteRow, GenerateEnvironment, Rollback,
           TornDown, ghosts
  <2>3. \A m \in Node : m # n => (m \in dirty' <=> m \in dirty)
    BY DEF Visit, Lost, ReadConf, Check, CreateRow, DeleteRow, GenerateEnvironment, Rollback,
           TornDown, ghosts, Enter, Spoil
  <2>4. UNCHANGED <<conf, pc, node, orphaned, struck>>
    BY DEF Visit, Lost, ReadConf, Check, CreateRow, DeleteRow, GenerateEnvironment, Rollback,
           TornDown, ghosts
  <2> QED BY <2>1, <2>2, <2>3, <2>4 DEF Untouched
<1>3. ASSUME NEW next \in Handler, Step(r, n, next), UNCHANGED <<ask, todo>>
      PROVE  HandlerFrame(r, n)
  <2>1. \A q \in Req, m \in Node : q # r \/ m # n => work'[q][m] = work[q][m]
    BY <1>3, WorkStep
  <2> QED BY <1>2, <1>3, <2>1 DEF HandlerFrame
<1>4. ASSUME Return(r, n)
      PROVE  HandlerFrame(r, n)
  <2>1. NoWork.at = "none"
    BY DEF NoWork
  <2> QED BY <1>2, <1>4, <2>1, ReturnStep DEF HandlerFrame
<1>5. ASSUME NEW next \in Handler, Enter(r, n, next), UNCHANGED <<ask, todo>>
      PROVE  HandlerFrame(r, n)
  <2>1. /\ \A q \in Req, m \in Node : m # n => work'[q][m] = work[q][m]
        /\ \A q \in Req : q # r =>
             \/ work'[q][n] = work[q][n]
             \/ /\ Busy(q, n) /\ n \in dirty'
                /\ work'[q][n] = [work[q][n] EXCEPT !.alone = FALSE]
    BY <1>5, EnterStep
  <2> QED BY <1>2, <1>5, <2>1 DEF HandlerFrame
<1> DEFINE w == work[r][n]
<1>6. \A at \in {"row", "env", "stop", "start", "rollback"} : [w EXCEPT !.at = at] \in Handler
  <2>1. {"row", "env", "stop", "start", "rollback"} \subseteq StepName
    BY DEF StepName, SetupStep, TeardownStep
  <2>2. w \in Handler
    BY DEF TypeOK
  <2> QED BY <2>1, <2>2, HandlerChanges
<1>7. CASE Visit(r, n)
  <2>1. PICK b \in IF ask[r].op = "tags" THEN ask[r].next ELSE {None} :
          Step(r, n, [NoWork EXCEPT
            !.at = IF ask[r].op = "setup" THEN "readIface" ELSE "check",
            !.opts = IF ask[r].op = "tags"
                     THEN [NoOptions EXCEPT !.bridges = {b}, !.given = TRUE]
                     ELSE ask[r].opts])
    BY <1>7 DEF Visit
  <2>2. \A q \in Req, m \in Node : q # r \/ m # n => work'[q][m] = work[q][m]
    BY <2>1 DEF Step, TypeOK
  <2>3. UNCHANGED <<ask, todo>>
    BY <1>7, <1>1 DEF Visit
  <2> QED BY <1>2, <2>2, <2>3 DEF HandlerFrame
<1>8. CASE ReadConf(r, n)
  <2>1. \/ Return(r, n)
        \/ /\ \E next : Step(r, n, next)
           /\ UNCHANGED <<ask, todo>>
    BY <1>8 DEF ReadConf
  <2>2. (\E next : Step(r, n, next)) =>
          \A q \in Req, m \in Node : q # r \/ m # n => work'[q][m] = work[q][m]
    BY DEF Step, TypeOK
  <2> QED BY <1>2, <1>4, <2>1, <2>2 DEF HandlerFrame
<1>9. CASE Check(r, n)
  BY <1>3, <1>4, <1>6, <1>9 DEF Check
<1>10. CASE CreateRow(r, n)
  BY <1>3, <1>4, <1>6, <1>10 DEF CreateRow
<1>11. CASE DeleteRow(r, n)
  BY <1>4, <1>5, <1>6, <1>11 DEF DeleteRow
<1>12. CASE GenerateEnvironment(r, n)
  <2>1. CASE Enter(r, n, [w EXCEPT !.at = "start"]) /\ UNCHANGED <<todo, ask>>
    BY <1>5, <1>6, <2>1
  <2>2. CASE Spoil(r, n, NoWork) /\ Leave(r, n)
    <3>1. NoWork.at = "none"
      BY DEF NoWork
    <3>2. /\ \A q \in Req, m \in Node : m # n => work'[q][m] = work[q][m]
          /\ \A q \in Req : q # r =>
               \/ work'[q][n] = work[q][n]
               \/ /\ Busy(q, n) /\ n \in dirty'
                  /\ work'[q][n] = [work[q][n] EXCEPT !.alone = FALSE]
          /\ work'[r][n] = NoWork
      BY <2>2, NoWorkType, SpoilStep
    <3> QED BY <1>2, <2>2, <3>1, <3>2, LeaveStep DEF HandlerFrame
  <2> QED BY <1>12, <2>1, <2>2 DEF GenerateEnvironment
<1>13. CASE Rollback(r, n)
  BY <1>4, <1>13 DEF Rollback
<1>14. CASE TornDown(r, n)
  BY <1>3, <1>4, <1>6, <1>14 DEF TornDown
<1> QED BY <1>1, <1>7, <1>8, <1>9, <1>10, <1>11, <1>12, <1>13, <1>14

\* So does the setup, which works on its own node ...
LEMMA SetupFrame ==
  ASSUME TypeOK, NEW r \in Req, NEW n \in Node, SetupActs(r, n)
  PROVE  /\ HandlerFrame(r, n) /\ UNCHANGED <<rows, dirty, struck>>
         /\ \A q \in Req : q # r => work'[q][n] = work[q][n]
<1> DEFINE w == work[r][n]
<1>1. UNCHANGED <<rows, dirty, conf, pc, struck>>
  <2>1. UNCHANGED <<rows, dirty, conf, pc>>
    BY CreateBridgesDoes, CreateSwitchesDoes, RedirectPortsDoes
       DEF SetupActs, Start, ChooseTable, CreateRouter, CreateVrf, WritePlan, ApplyPlan,
           Configure, Fail, ghosts
  <2>2. UNCHANGED struck
    BY CreateBridgesDoes, CreateSwitchesDoes, RedirectPortsDoes
       DEF SetupActs, Start, ChooseTable, CreateRouter, CreateVrf, WritePlan, ApplyPlan,
           Configure, Fail, ghosts
  <2> QED BY <2>1, <2>2
<1>2. \A m \in Node : m # n => node'[m] = node[m]
  <2>1. \A s : Becomes(n, s) => \A m \in Node : m # n => node'[m] = node[m]
    BY DEF Becomes, TypeOK
  <2>2. CASE CreateBridges(r, n)
    BY <2>1, <2>2, CreateBridgesDoes
  <2>3. CASE CreateSwitches(r, n)
    BY <2>1, <2>3, CreateSwitchesDoes
  <2>4. CASE RedirectPorts(r, n)
    BY <2>1, <2>4, RedirectPortsDoes
  <2> QED BY <2>1, <2>2, <2>3, <2>4
          DEF SetupActs, Start, ChooseTable, CreateRouter, CreateVrf, WritePlan, ApplyPlan,
              Configure, Fail, ghosts
<1>3. \A m \in Node : m # n => (m \in confirmed' <=> m \in confirmed)
  <2>1. confirmed' = confirmed \/ Succeed(r, n)
    BY CreateBridgesDoes, CreateSwitchesDoes, RedirectPortsDoes
       DEF SetupActs, Start, ChooseTable, CreateRouter, CreateVrf, WritePlan, ApplyPlan,
           Configure, Fail, ghosts
  <2> QED BY <2>1, SucceedStep
<1>4. \A m \in Node, k \in {"veth", "mapping"}, b \in Bridge :
        m # n => (<<m, k, b>> \in orphaned' <=> <<m, k, b>> \in orphaned)
  <2>1. CASE CreateBridges(r, n)
    BY <2>1, CreateBridgesDoes
  <2>2. CASE WritePlan(r, n)
    BY <2>2 DEF WritePlan
  <2>3. CASE ApplyPlan(r, n)
    BY <2>3 DEF ApplyPlan
  <2>4. CASE ~(CreateBridges(r, n) \/ WritePlan(r, n) \/ ApplyPlan(r, n))
    <3>1. orphaned' = orphaned
      BY <2>4, CreateSwitchesDoes, RedirectPortsDoes
         DEF SetupActs, Start, ChooseTable, CreateRouter, CreateVrf, Configure, Fail, ghosts
    <3> QED BY <3>1
  <2> QED BY <2>1, <2>2, <2>3, <2>4
<1>5. \A m \in Node : m # n => Untouched(m)
  BY <1>1, <1>2, <1>3, <1>4 DEF Untouched
<1>6. CASE Succeed(r, n)
  <2>1. NoWork.at = "none"
    BY DEF NoWork
  <2> QED BY <1>1, <1>5, <1>6, <2>1, SucceedStep DEF HandlerFrame
<1>7. CASE ~Succeed(r, n)
  <2>1. UNCHANGED <<ask, todo>>
    BY <1>7, CreateBridgesDoes, CreateSwitchesDoes, RedirectPortsDoes
       DEF SetupActs, Start, ChooseTable, CreateRouter, CreateVrf, WritePlan, ApplyPlan,
           Configure, Fail
  <2>2. \A next : Step(r, n, next) =>
          \A q \in Req, m \in Node : q # r \/ m # n => work'[q][m] = work[q][m]
    BY DEF Step, TypeOK
  <2>3. \A q \in Req, m \in Node : q # r \/ m # n => work'[q][m] = work[q][m]
    <3>1. CASE CreateBridges(r, n)
      BY <2>2, <3>1, CreateBridgesDoes DEF Abort
    <3>2. CASE CreateSwitches(r, n)
      BY <2>2, <3>2, CreateSwitchesDoes DEF Abort
    <3>3. CASE RedirectPorts(r, n)
      BY <2>2, <3>3, RedirectPortsDoes DEF Abort
    <3> QED BY <1>7, <2>2, <3>1, <3>2, <3>3
            DEF SetupActs, Start, ChooseTable, CreateRouter, CreateVrf, WritePlan, ApplyPlan,
                Configure, Fail, Abort
  <2> QED BY <1>1, <1>5, <2>1, <2>3 DEF HandlerFrame
<1> QED BY <1>1, <1>6, <1>7

\* ... and the teardown, but for the switches of nodes with a longer name.
LEMMA TeardownFrame ==
  ASSUME TypeOK, NEW r \in Req, NEW n \in Node, TeardownActs(r, n), ~TornDown(r, n)
  PROVE  /\ HandlerFrame(r, n) /\ UNCHANGED <<rows, dirty, confirmed, ask, todo>>
         /\ \A q \in Req : q # r => work'[q][n] = work[q][n]
<1>1. UNCHANGED <<rows, dirty, confirmed, ask, todo, conf, pc>>
  BY DEF TeardownActs, StopBird, DeleteRouter, MovePlan, DeleteVeths, DeleteSwitches,
         DeleteBridges, DeletePorts, DeleteMappings, DeleteOwn, ResetConf, Teardown, ghosts
<1>2. \A m \in Node, k \in {"veth", "mapping"}, b \in Bridge :
        m # n => (<<m, k, b>> \in orphaned' <=> <<m, k, b>> \in orphaned)
  <2>1. CASE DeleteVeths(r, n)
    BY <2>1 DEF DeleteVeths
  <2>2. CASE DeleteOwn(r, n)
    BY <2>2 DEF DeleteOwn
  <2>3. CASE ~(DeleteVeths(r, n) \/ DeleteOwn(r, n))
    <3>1. orphaned' = orphaned
      BY <2>3 DEF TeardownActs, StopBird, DeleteRouter, MovePlan, DeleteSwitches,
         DeleteBridges, DeletePorts, DeleteMappings, ResetConf, ghosts
    <3> QED BY <3>1
  <2> QED BY <2>1, <2>2, <2>3
<1>3. \A m \in Node : m # n =>
        /\ m \in struck => m \in struck'
        /\ \/ node'[m] = node[m]
           \/ /\ node'[m] = [node[m] EXCEPT !.switches = {}]
              /\ node[m].switches = {} \/ m \in struck'
  <2>1. CASE DeleteSwitches(r, n)
    <3>1. \/ /\ node' = [m \in Node |-> IF m \in Picked(n)
                                        THEN [node[m] EXCEPT !.switches = {}] ELSE node[m]]
             /\ struck' = struck \cup {m \in Picked(n) \ {n} : node[m].switches # {}}
          \/ node' = node /\ struck' = struck
      BY <2>1 DEF DeleteSwitches
    <3> QED BY <3>1 DEF Picked
  <2>2. CASE ~DeleteSwitches(r, n)
    <3>1. struck' = struck
      BY <2>2 DEF TeardownActs, StopBird, DeleteRouter, MovePlan, DeleteVeths,
         DeleteBridges, DeletePorts, DeleteMappings, DeleteOwn, ResetConf, ghosts
    <3>2. node' = node \/ \E s : Becomes(n, s)
      BY <2>2, Zenon DEF TeardownActs, StopBird, DeleteRouter, MovePlan, DeleteVeths,
         DeleteBridges, DeletePorts, DeleteMappings, DeleteOwn, ResetConf, Teardown
    <3> QED BY <3>1, <3>2 DEF Becomes, TypeOK
  <2> QED BY <2>1, <2>2
<1>4. \A m \in Node : m # n => Untouched(m)
  BY <1>1, <1>2, <1>3 DEF Untouched
<1>5. \A q \in Req, m \in Node : q # r \/ m # n => work'[q][m] = work[q][m]
  <2>1. \E next : Step(r, n, next)
    BY Zenon DEF TeardownActs, StopBird, DeleteRouter, MovePlan, DeleteVeths, DeleteSwitches,
         DeleteBridges, DeletePorts, DeleteMappings, DeleteOwn, ResetConf, Teardown
  <2> QED BY <2>1 DEF Step, TypeOK
<1> QED BY <1>1, <1>4, <1>5 DEF HandlerFrame

\* A handler goes on, with what it had.
Moves(r, n, at, use, left, table) ==
  LET w == work'[r][n] IN
  /\ w.at = at /\ w.use = use /\ w.left = left /\ w.table = table
  /\ w.opts = work[r][n].opts /\ w.alone = work[r][n].alone /\ w.undo = work[r][n].undo

\* The forms in which handlers go on.
LEMMA StepMoves ==
  ASSUME TypeOK, NEW r \in Req, NEW n \in Node
  PROVE  LET w == work[r][n] IN
         /\ \A at : Step(r, n, [w EXCEPT !.at = at]) =>
                      Moves(r, n, at, w.use, w.left, w.table)
         /\ \A B : Step(r, n, [w EXCEPT !.left = B]) => Moves(r, n, w.at, w.use, B, w.table)
         /\ \A at, B : Step(r, n, [w EXCEPT !.at = at, !.left = B]) =>
                         Moves(r, n, at, w.use, B, w.table)
         /\ \A at, t, B, C :
              Step(r, n, [w EXCEPT !.at = at, !.table = t, !.use = B, !.left = C]) =>
                Moves(r, n, at, B, C, t)
         /\ \A at : Step(r, n, [w EXCEPT !.at = at, !.alone = FALSE]) =>
                      work'[r][n].at = at /\ ~work'[r][n].alone
<1> DEFINE w == work[r][n]
<1>1. w \in Handler /\ \A next : Step(r, n, next) => work'[r][n] = next
  BY DEF TypeOK, Step
<1>2. ASSUME NEW at, Step(r, n, [w EXCEPT !.at = at])
      PROVE  Moves(r, n, at, w.use, w.left, w.table)
  <2>1. work'[r][n] = [w EXCEPT !.at = at]
    BY <1>1, <1>2
  <2> QED BY <1>1, <2>1 DEF Moves, Handler
<1>3. ASSUME NEW B, Step(r, n, [w EXCEPT !.left = B])
      PROVE  Moves(r, n, w.at, w.use, B, w.table)
  <2>1. work'[r][n] = [w EXCEPT !.left = B]
    BY <1>1, <1>3
  <2> QED BY <1>1, <2>1 DEF Moves, Handler
<1>4. ASSUME NEW at, NEW B, Step(r, n, [w EXCEPT !.at = at, !.left = B])
      PROVE  Moves(r, n, at, w.use, B, w.table)
  <2>1. work'[r][n] = [w EXCEPT !.at = at, !.left = B]
    BY <1>1, <1>4
  <2> QED BY <1>1, <2>1 DEF Moves, Handler
<1>5. ASSUME NEW at, NEW t, NEW B, NEW C,
             Step(r, n, [w EXCEPT !.at = at, !.table = t, !.use = B, !.left = C])
      PROVE  Moves(r, n, at, B, C, t)
  <2>1. work'[r][n] = [w EXCEPT !.at = at, !.table = t, !.use = B, !.left = C]
    BY <1>1, <1>5
  <2> QED BY <1>1, <2>1 DEF Moves, Handler
<1>6. ASSUME NEW at, Step(r, n, [w EXCEPT !.at = at, !.alone = FALSE])
      PROVE  work'[r][n].at = at /\ ~work'[r][n].alone
  <2>1. work'[r][n] = [w EXCEPT !.at = at, !.alone = FALSE]
    BY <1>1, <1>6
  <2> QED BY <1>1, <2>1 DEF Handler
<1> HIDE DEF w
<1> QED BY <1>2, <1>3, <1>4, <1>5, <1>6 DEF w

\* A setup gives up.
GivesUp(r, n) ==
  LET w == work'[r][n] IN
  /\ w.at = "stop" /\ w.left = {} /\ w.undo
  /\ w.alone => \A q \in Req : q # r => ~Busy(q, n)

\* That is what the code does after a failed step.
LEMMA GivenUp ==
  ASSUME TypeOK, NEW r \in Req, NEW n \in Node, Abort(r, n)
  PROVE  GivesUp(r, n)
<1>1. work'[r][n].undo
  <2>1. work'[r][n] = [NoWork EXCEPT !.at = "stop", !.undo = TRUE,
                                     !.alone = \A q \in Req \ {r} : ~Busy(q, n)]
    BY DEF Abort, Step, TypeOK
  <2> QED BY <2>1 DEF NoWork
<1> QED BY <1>1, AbortStep DEF GivesUp

\* The loops of the setup, pointwise: the bridges,
LEMMA CreateBridgesMoves ==
  ASSUME TypeOK, NEW r \in Req, NEW n \in Node, CreateBridges(r, n)
  PROVE  LET w == work[r][n] IN
         /\ w.at = "bridges"
         /\ \/ \E b \in w.left :
                 /\ node'[n] = AddMapping(n, b)
                 /\ Moves(r, n, "bridges", w.use, w.left \ {b}, w.table)
            \/ GivesUp(r, n) /\ node' = node
            \/ /\ w.left = {} /\ node' = node
               /\ Moves(r, n, "router", w.use, w.use, w.table)
<1> DEFINE w == work[r][n]
<1>1. w.at = "bridges"
  BY CreateBridgesDoes
<1>2. ASSUME NEW b \in w.left, Becomes(n, AddMapping(n, b)),
             Step(r, n, [w EXCEPT !.left = @ \ {b}])
      PROVE  /\ node'[n] = AddMapping(n, b)
             /\ Moves(r, n, "bridges", w.use, w.left \ {b}, w.table)
  <2>1. Moves(r, n, w.at, w.use, w.left \ {b}, w.table)
    BY <1>2, StepMoves, ZenonT(30)
  <2>2. node'[n] = AddMapping(n, b)
    BY <1>2 DEF Becomes, TypeOK
  <2> QED BY <1>1, <1>2, <2>1, <2>2
<1>3. ASSUME Step(r, n, [w EXCEPT !.at = "router", !.left = w.use])
      PROVE  Moves(r, n, "router", w.use, w.use, w.table)
  BY <1>3, StepMoves
<1> QED BY <1>1, <1>2, <1>3, GivenUp, CreateBridgesDoes

\* the logical switches
LEMMA CreateSwitchesMoves ==
  ASSUME TypeOK, NEW r \in Req, NEW n \in Node, CreateSwitches(r, n)
  PROVE  LET w == work[r][n] IN
         /\ w.at = "switches"
         /\ \/ \E b \in w.left :
                 /\ node'[n] = [node[n] EXCEPT !.switches = @ \cup {b}]
                 /\ Moves(r, n, "switches", w.use, w.left \ {b}, w.table)
            \/ GivesUp(r, n) /\ node' = node
            \/ /\ w.left = {} /\ node' = node
               /\ Moves(r, n, "vrf", w.use, w.use, w.table)
<1> DEFINE w == work[r][n]
<1>1. w.at = "switches"
  BY CreateSwitchesDoes
<1>2. ASSUME NEW b \in w.left, Becomes(n, [node[n] EXCEPT !.switches = @ \cup {b}]),
             Step(r, n, [w EXCEPT !.left = @ \ {b}])
      PROVE  /\ node'[n] = [node[n] EXCEPT !.switches = @ \cup {b}]
             /\ Moves(r, n, "switches", w.use, w.left \ {b}, w.table)
  <2>1. Moves(r, n, w.at, w.use, w.left \ {b}, w.table)
    BY <1>2, StepMoves, ZenonT(30)
  <2>2. node'[n] = [node[n] EXCEPT !.switches = @ \cup {b}]
    BY <1>2 DEF Becomes, TypeOK
  <2> QED BY <1>1, <1>2, <2>1, <2>2
<1>3. ASSUME Step(r, n, [w EXCEPT !.at = "vrf", !.left = w.use])
      PROVE  Moves(r, n, "vrf", w.use, w.use, w.table)
  BY <1>3, StepMoves
<1> QED BY <1>1, <1>2, <1>3, GivenUp, CreateSwitchesDoes

\* and the ports.
LEMMA RedirectPortsMoves ==
  ASSUME TypeOK, NEW r \in Req, NEW n \in Node, RedirectPorts(r, n)
  PROVE  LET w == work[r][n] IN
         /\ w.at = "ports"
         /\ \/ \E b \in w.left :
                 /\ b \in node[n].veths /\ node'[n] = [node[n] EXCEPT !.ports = @ \cup {b}]
                 /\ Moves(r, n, "ports", w.use, w.left \ {b}, w.table)
            \/ GivesUp(r, n) /\ node' = node
            \/ /\ w.left = {} /\ node' = node
               /\ Moves(r, n, "conf", w.use, w.use, w.table)
<1> DEFINE w == work[r][n]
<1>1. w.at = "ports"
  BY RedirectPortsDoes
<1>2. ASSUME NEW b \in w.left, b \in node[n].veths, Becomes(n, [node[n] EXCEPT !.ports = @ \cup {b}]),
             Step(r, n, [w EXCEPT !.left = @ \ {b}])
      PROVE  /\ b \in node[n].veths /\ node'[n] = [node[n] EXCEPT !.ports = @ \cup {b}]
             /\ Moves(r, n, "ports", w.use, w.left \ {b}, w.table)
  <2>1. Moves(r, n, w.at, w.use, w.left \ {b}, w.table)
    BY <1>2, StepMoves, ZenonT(30)
  <2>2. node'[n] = [node[n] EXCEPT !.ports = @ \cup {b}]
    BY <1>2 DEF Becomes, TypeOK
  <2> QED BY <1>1, <1>2, <2>1, <2>2
<1>3. ASSUME Step(r, n, [w EXCEPT !.at = "conf", !.left = w.use])
      PROVE  Moves(r, n, "conf", w.use, w.use, w.table)
  BY <1>3, StepMoves
<1> QED BY <1>1, <1>2, <1>3, GivenUp, RedirectPortsDoes

\* The steps of the teardown that are not like the others, pointwise.
LEMMA MovePlanMoves ==
  ASSUME TypeOK, NEW r \in Req, NEW n \in Node, MovePlan(r, n)
  PROVE  LET w == work[r][n] IN
         /\ w.at = "delPlan"
         /\ \/ /\ node'[n] = [node[n] EXCEPT !.plan = NoPlan]
               /\ Moves(r, n, "delVeth", w.use, node[n].plan.bridges, w.table)
            \/ node' = node /\ work'[r][n].at = "delSwitches" /\ ~work'[r][n].alone
<1> DEFINE w == work[r][n]
<1>1. CASE /\ Becomes(n, [node[n] EXCEPT !.plan = NoPlan])
           /\ Step(r, n, [w EXCEPT !.at = "delVeth", !.left = node[n].plan.bridges])
  <2>1. Moves(r, n, "delVeth", w.use, node[n].plan.bridges, w.table)
    BY <1>1, StepMoves, ZenonT(30)
  <2>2. node'[n] = [node[n] EXCEPT !.plan = NoPlan]
    BY <1>1 DEF Becomes, TypeOK
  <2> QED BY <2>1, <2>2 DEF MovePlan, At
<1>2. CASE Step(r, n, [w EXCEPT !.at = "delSwitches", !.alone = FALSE]) /\ node' = node
  <2>1. work'[r][n].at = "delSwitches" /\ ~work'[r][n].alone
    BY <1>2, StepMoves
  <2> QED BY <1>2, <2>1 DEF MovePlan, At
<1> QED BY <1>1, <1>2 DEF MovePlan

\* The switches ...
LEMMA DeleteSwitchesMoves ==
  ASSUME TypeOK, NEW r \in Req, NEW n \in Node, DeleteSwitches(r, n)
  PROVE  LET w == work[r][n] IN
         /\ w.at = "delSwitches"
         /\ \/ /\ node'[n] = [node[n] EXCEPT !.switches = {}]
               /\ Moves(r, n, "delBridges", w.use, w.left, w.table)
            \/ node' = node /\ work'[r][n].at = "delBridges" /\ ~work'[r][n].alone
<1> DEFINE w == work[r][n]
<1>1. CASE /\ node' = [m \in Node |-> IF m \in Picked(n)
                                      THEN [node[m] EXCEPT !.switches = {}] ELSE node[m]]
           /\ Step(r, n, [w EXCEPT !.at = "delBridges"])
  <2>1. Moves(r, n, "delBridges", w.use, w.left, w.table)
    BY <1>1, StepMoves
  <2>2. node'[n] = [node[n] EXCEPT !.switches = {}]
    BY <1>1 DEF Picked
  <2> QED BY <2>1, <2>2 DEF DeleteSwitches, At
<1>2. CASE Step(r, n, [w EXCEPT !.at = "delBridges", !.alone = FALSE]) /\ node' = node
  <2>1. work'[r][n].at = "delBridges" /\ ~work'[r][n].alone
    BY <1>2, StepMoves
  <2> QED BY <1>2, <2>1 DEF DeleteSwitches, At
<1> QED BY <1>1, <1>2 DEF DeleteSwitches

\* ... and the mappings, which may end the teardown.
LEMMA DeleteMappingsMoves ==
  ASSUME TypeOK, NEW r \in Req, NEW n \in Node, DeleteMappings(r, n)
  PROVE  /\ work[r][n].at = "delMaps"
         /\ \/ Teardown(r, n, "delMaps", "delOwn", [node[n] EXCEPT !.mapped = @ \ node[n].own])
            \/ node' = node /\ work'[r][n].at = "done" /\ ~work'[r][n].alone
<1> DEFINE w == work[r][n]
<1>1. CASE Teardown(r, n, "delMaps", "delOwn", [node[n] EXCEPT !.mapped = @ \ node[n].own])
  BY <1>1 DEF Teardown, At
<1>2. CASE /\ Step(r, n, [w EXCEPT !.at = "done", !.alone = FALSE]) /\ node' = node
           /\ At(r, n, "delMaps")
  <2>1. work'[r][n].at = "done" /\ ~work'[r][n].alone
    BY <1>2, StepMoves
  <2> QED BY <1>2, <2>1 DEF At
<1> QED BY <1>1, <1>2 DEF DeleteMappings

---------------------------------------------------------------------------
(* Requests and options.                                                   *)

\* Nothing is asked for in the beginning.
LEMMA InitRequests == Init => RequestsKept
<1> SUFFICES ASSUME Init PROVE RequestsKept
  OBVIOUS
<1>1. \A r \in Req, n \in Node : work[r][n].at = "none"
  BY DEF Init, NoWork
<1>2. \A r \in Req : pc[r] = "idle"
  BY DEF Init
<1> QED BY <1>1, <1>2
        DEF RequestsKept, Present, At, OptionsValid, OptionsOf, ConfStored, AskValid

\* Where no handler moved, its options stay valid.
LEMMA OptionsStay ==
  ASSUME TypeOK, NEW q \in Req, NEW m \in Node, OptionsOf(q, m),
         work'[q][m] = work[q][m] \/ work'[q][m] = [work[q][m] EXCEPT !.alone = FALSE],
         ask'[q].op = ask[q].op \/ work[q][m].at = "none",
         ConfSet => ConfSet', conf.bridges # {} => conf'.bridges # {}
  PROVE  OptionsOf(q, m)'
<1>1. work'[q][m].at = work[q][m].at /\ work'[q][m].opts = work[q][m].opts
  BY DEF TypeOK, Handler
<1> QED BY <1>1 DEF OptionsOf, Disables

\* The handler that moves comes to valid options.
LEMMA OptionsArrive ==
  ASSUME TypeOK, RequestsKept, NEW r \in Req, NEW n \in Node, HandlerStep(r, n)
  PROVE  OptionsOf(r, n)'
<1> DEFINE w == work[r][n]
<1>0. w \in Handler /\ OptionsOf(r, n)
  BY DEF TypeOK, RequestsKept, OptionsValid
<1>1. ASSUME work'[r][n].at = "none" PROVE OptionsOf(r, n)'
  BY <1>1 DEF OptionsOf
<1>2. Return(r, n) => OptionsOf(r, n)'
  BY <1>1, ReturnStep DEF NoWork
<1>3. CASE Visit(r, n)
  <2>1. PICK b \in IF ask[r].op = "tags" THEN ask[r].next ELSE {None} :
          Step(r, n, [NoWork EXCEPT
            !.at = IF ask[r].op = "setup" THEN "readIface" ELSE "check",
            !.opts = IF ask[r].op = "tags"
                     THEN [NoOptions EXCEPT !.bridges = {b}, !.given = TRUE]
                     ELSE ask[r].opts])
    BY <1>3 DEF Visit
  <2> DEFINE at == IF ask[r].op = "setup" THEN "readIface" ELSE "check"
             o == IF ask[r].op = "tags" THEN [NoOptions EXCEPT !.bridges = {b}, !.given = TRUE]
                  ELSE ask[r].opts
  <2>2. work'[r][n] = [NoWork EXCEPT !.at = at, !.opts = o]
    BY <2>1 DEF Step, TypeOK
  <2>3. work'[r][n].at = at /\ work'[r][n].opts = o
    BY <2>2 DEF NoWork
  <2>4. pc[r] = "visit" /\ conf' = conf
    BY <1>3 DEF Visit, MayVisit
  <2>5. ask[r].op = "setup" => ConfSet'
    BY <2>4 DEF RequestsKept, ConfStored, ConfSet
  <2>6. ask[r].op # "setup" /\ o.given => Valid(o)
    <3>1. CASE ask[r].op = "tags"
      BY <3>1 DEF Valid, NoOptions
    <3>2. CASE ask[r].op # "tags"
      <4>1. ask[r].op \in Operation
        BY DEF TypeOK, Ask
      <4> QED BY <2>4, <3>2, <4>1 DEF RequestsKept, AskValid, Operation
    <3> QED BY <3>1, <3>2
  <2> HIDE DEF o
  <2> QED BY <2>3, <2>5, <2>6 DEF OptionsOf
<1>4. CASE Lost(r, n)
  BY <1>1, <1>4 DEF Lost, MayVisit, At
<1>5. CASE ReadConf(r, n)
  <2>1. conf' = conf /\ w.opts \in Options
    BY <1>0, <1>5, HandlerParts DEF ReadConf
  <2>2. CASE w.at = "readIface" /\ ~Return(r, n)
    <3>1. work'[r][n] = [w EXCEPT !.at = "readBridge", !.opts.ifaces = conf.ifaces]
      BY <1>5, <2>2 DEF ReadConf, Step, TypeOK
    <3>2. work'[r][n].at = "readBridge" /\ work'[r][n].opts.ifaces = conf.ifaces
      BY <1>0, <2>1, <3>1 DEF Handler, Options
    <3> QED BY <1>0, <2>1, <2>2, <3>2 DEF OptionsOf, ConfSet
  <2>3. CASE w.at = "readBridge" /\ ~Return(r, n)
    <3>1. work'[r][n] = [w EXCEPT !.at = "check", !.opts.bridges = conf.bridges]
      BY <1>5, <2>3 DEF ReadConf, Step, TypeOK
    <3>2. /\ work'[r][n].at = "check" /\ work'[r][n].opts.bridges = conf.bridges
          /\ work'[r][n].opts.ifaces = w.opts.ifaces
      BY <1>0, <2>1, <3>1 DEF Handler, Options
    <3> QED BY <1>0, <2>1, <2>3, <3>2 DEF OptionsOf, Valid
  <2> QED BY <1>2, <1>5, <2>2, <2>3 DEF ReadConf
<1>6. ASSUME NEW at, Step(r, n, [w EXCEPT !.at = at])
      PROVE  work'[r][n].at = at /\ work'[r][n].opts = w.opts
  <2>1. work'[r][n] = [w EXCEPT !.at = at]
    BY <1>6 DEF Step, TypeOK
  <2> QED BY <1>0, <2>1 DEF Handler
<1>7. CASE Check(r, n)
  <2>1. CASE Step(r, n, [w EXCEPT !.at = "row"])
    BY <1>0, <1>6, <1>7, <2>1 DEF Check, At, OptionsOf
  <2> QED BY <1>2, <1>7, <2>1 DEF Check
<1>8. CASE CreateRow(r, n)
  <2>1. CASE Step(r, n, [w EXCEPT !.at = "env"]) /\ UNCHANGED ask
    BY <1>0, <1>6, <1>8, <2>1 DEF CreateRow, At, OptionsOf, Disables
  <2> QED BY <1>2, <1>8, <2>1 DEF CreateRow
<1>9. \A at \in {"stop", "start"} : [w EXCEPT !.at = at] \in Handler
  <2>1. {"stop", "start"} \subseteq StepName
    BY DEF StepName, SetupStep, TeardownStep
  <2> QED BY <1>0, <2>1, HandlerChanges
<1>10. CASE DeleteRow(r, n)
  <2>1. CASE Enter(r, n, [w EXCEPT !.at = "stop"])
    <3>1. work'[r][n].at = "stop"
      BY <1>0, <1>9, <2>1, EnterStep DEF Handler
    <3> QED BY <3>1 DEF OptionsOf
  <2> QED BY <1>2, <1>10, <2>1 DEF DeleteRow
<1>11. CASE GenerateEnvironment(r, n)
  <2>1. CASE Enter(r, n, [w EXCEPT !.at = "start"])
    <3>1. work'[r][n].at = "start" /\ work'[r][n].opts = w.opts
      BY <1>0, <1>9, <2>1, EnterStep DEF Handler
    <3> QED BY <1>0, <1>11, <3>1 DEF OptionsOf, GenerateEnvironment, At
  <2>2. CASE Spoil(r, n, NoWork)
    BY <1>1, <2>2, NoWorkType, SpoilStep DEF NoWork
  <2> QED BY <1>11, <2>1, <2>2 DEF GenerateEnvironment
<1>12. CASE Rollback(r, n)
  BY <1>2, <1>12 DEF Rollback
<1>13. CASE Start(r, n)
  <2>1. CASE w.opts.given
    BY <1>0, <1>6, <1>13, <2>1 DEF Start, OptionsOf, At
  <2>2. CASE ~w.opts.given
    BY <1>13, <2>2, SucceedStep DEF Start, OptionsOf, NoWork
  <2> QED BY <2>1, <2>2
<1>14. CASE Configure(r, n)
  BY <1>14, SucceedStep DEF Configure, OptionsOf, NoWork
<1>15. CASE SetupActs(r, n) /\ ~Start(r, n) /\ ~Configure(r, n)
  <2>1. Abort(r, n) => work'[r][n].at = "stop"
    BY AbortStep
  <2>2. work'[r][n].at \in {"stop", "bridges", "router", "switches", "vrf", "plan", "veth",
                            "ports", "conf"}
    <3>1. CASE CreateBridges(r, n)
      BY <3>1, CreateBridgesMoves DEF Moves, GivesUp
    <3>2. CASE CreateSwitches(r, n)
      BY <3>2, CreateSwitchesMoves DEF Moves, GivesUp
    <3>3. CASE RedirectPorts(r, n)
      BY <3>3, RedirectPortsMoves DEF Moves, GivesUp
    <3>4. CASE ChooseTable(r, n)
      <4>1. Abort(r, n) \/ \E t \in Table :
              Step(r, n, [w EXCEPT !.at = "bridges", !.table = t,
                                   !.use = Links(w.opts), !.left = Links(w.opts)])
        BY <3>4 DEF ChooseTable
      <4>2. \A t : Step(r, n, [w EXCEPT !.at = "bridges", !.table = t,
                                        !.use = Links(w.opts), !.left = Links(w.opts)])
                     => Moves(r, n, "bridges", Links(w.opts), Links(w.opts), t)
        BY StepMoves
      <4> QED BY <2>1, <4>1, <4>2 DEF Moves
    <3> QED BY <1>6, <1>15, <2>1, <3>1, <3>2, <3>3, <3>4
            DEF SetupActs, CreateRouter, CreateVrf, WritePlan, ApplyPlan, Fail
  <2> QED BY <2>2 DEF OptionsOf
<1>16. CASE TeardownActs(r, n)
  <2>1. CASE TornDown(r, n)
    <3>1. CASE Return(r, n)
      BY <1>2, <3>1
    <3>2. CASE Step(r, n, [w EXCEPT !.at = "rollback"])
      BY <1>6, <3>2 DEF OptionsOf
    <3> QED BY <2>1, <3>1, <3>2 DEF TornDown
  <2>2. CASE ~TornDown(r, n)
    <3>1. ASSUME NEW at, NEW next, NEW s, Teardown(r, n, at, next, s)
          PROVE  work'[r][n].at = next
      <4>1. CASE Step(r, n, [w EXCEPT !.at = next])
        BY <1>6, <4>1
      <4>2. CASE Step(r, n, [w EXCEPT !.at = next, !.alone = FALSE])
        BY <4>2, StepMoves
      <4> QED BY <3>1, <4>1, <4>2 DEF Teardown
    <3>2. CASE MovePlan(r, n)
      BY <3>2, MovePlanMoves DEF Moves, OptionsOf
    <3>3. CASE DeleteSwitches(r, n)
      BY <3>3, DeleteSwitchesMoves DEF Moves, OptionsOf
    <3>4. CASE DeleteMappings(r, n)
      BY <3>1, <3>4, DeleteMappingsMoves DEF OptionsOf
    <3>5. CASE ~MovePlan(r, n) /\ ~DeleteSwitches(r, n) /\ ~DeleteMappings(r, n)
      <4>1. work'[r][n].at \in {"delRouter", "delPlan", "delSwitches", "delPorts",
                                "delMaps", "resetConf", "done"}
        BY <1>16, <2>2, <3>1, <3>5
           DEF TeardownActs, StopBird, DeleteRouter, DeleteVeths, DeleteBridges, DeletePorts,
               DeleteOwn, ResetConf
      <4> QED BY <4>1 DEF OptionsOf
    <3> QED BY <3>2, <3>3, <3>4, <3>5
  <2> QED BY <2>1, <2>2
<1> QED BY <1>3, <1>4, <1>5, <1>7, <1>8, <1>10, <1>11, <1>12, <1>13, <1>14, <1>15, <1>16
        DEF HandlerStep

\* Setup and teardown are at one of their steps.
LEMMA SetupAt ==
  ASSUME TypeOK, NEW r \in Req, NEW n \in Node, SetupActs(r, n)
  PROVE  InSetup(r, n) /\ Busy(r, n)
<1>1. work[r][n].at \in SetupStep
  BY CreateBridgesDoes, CreateSwitchesDoes, RedirectPortsDoes
     DEF SetupActs, Start, ChooseTable, CreateRouter, CreateVrf, WritePlan, ApplyPlan,
         Configure, Fail, At, SetupStep
<1> QED BY <1>1 DEF InSetup, Busy

\* The same of the teardown.
LEMMA TeardownAt ==
  ASSUME TypeOK, NEW r \in Req, NEW n \in Node, TeardownActs(r, n)
  PROVE  InTeardown(r, n) /\ Busy(r, n)
<1>1. work[r][n].at \in TeardownStep \cup {"done"}
  BY DEF TeardownActs, StopBird, DeleteRouter, MovePlan, DeleteVeths, DeleteSwitches,
         DeleteBridges, DeletePorts, DeleteMappings, DeleteOwn, ResetConf, Teardown,
         TornDown, At, TeardownStep
<1> QED BY <1>1 DEF InTeardown, Busy

\* A handler that takes a step belongs to a request that visits its node.
LEMMA HandlerPresent ==
  ASSUME TypeOK, RequestsKept, NEW r \in Req, NEW n \in Node, HandlerStep(r, n)
  PROVE  pc[r] = "visit" /\ n \in todo[r]
<1>1. CASE Visit(r, n) \/ Lost(r, n)
  BY <1>1 DEF Visit, Lost, MayVisit
<1>2. CASE ~(Visit(r, n) \/ Lost(r, n))
  <2>1. CASE SetupActs(r, n) \/ TeardownActs(r, n)
    <3>1. work[r][n].at # "none"
      BY <2>1, SetupAt, TeardownAt DEF InSetup, InTeardown, SetupStep, TeardownStep
    <3> QED BY <3>1 DEF RequestsKept, Present, At
  <2>2. CASE ~(SetupActs(r, n) \/ TeardownActs(r, n))
    <3>1. work[r][n].at # "none"
      BY <1>2, <2>2 DEF HandlerStep, ReadConf, Check, CreateRow, DeleteRow,
         GenerateEnvironment, Rollback, At
    <3> QED BY <3>1 DEF RequestsKept, Present, At
  <2> QED BY <2>1, <2>2
<1> QED BY <1>1, <1>2

\* A step of a handler leaves the rest alone.
LEMMA HandlerLeaves ==
  ASSUME TypeOK, NEW r \in Req, NEW n \in Node, HandlerStep(r, n)
  PROVE  HandlerFrame(r, n)
<1>1. CASE TeardownActs(r, n) /\ ~TornDown(r, n)
  BY <1>1, TeardownFrame
<1>2. CASE TornDown(r, n)
  BY <1>2, ReadFrame
<1> QED BY <1>1, <1>2, ReadFrame, SetupFrame DEF HandlerStep

\* A handler keeps the requests as they are.
LEMMA HandlerRequests ==
  ASSUME TypeOK, RequestsKept, NEW r \in Req, NEW n \in Node, HandlerStep(r, n)
  PROVE  RequestsKept'
<1>1. HandlerFrame(r, n)
  BY HandlerLeaves
<1>2. \A m \in Node : Present(m)'
  <2> SUFFICES ASSUME NEW m \in Node, NEW q \in Req, work'[q][m].at # "none"
               PROVE  pc'[q] = "visit" /\ m \in todo'[q]
    BY DEF Present, At
  <2>1. pc[q] = "visit" /\ m \in todo[q]
    <3>1. CASE q = r /\ m = n
      BY <3>1, HandlerPresent
    <3>2. CASE ~(q = r /\ m = n)
      <4>1. work[q][m].at # "none"
        <5>1. work'[q][m] = work[q][m] \/ work'[q][m] = [work[q][m] EXCEPT !.alone = FALSE]
          BY <1>1, <3>2 DEF HandlerFrame
        <5>2. work[q][m] \in Handler
          BY DEF TypeOK
        <5> QED BY <5>1, <5>2 DEF Handler
      <4> QED BY <4>1 DEF RequestsKept, Present, At
    <3> QED BY <3>1, <3>2
  <2> QED BY <1>1, <2>1 DEF HandlerFrame
<1>3. \A m \in Node : OptionsValid(m)'
  <2> SUFFICES ASSUME NEW m \in Node, NEW q \in Req PROVE OptionsOf(q, m)'
    BY DEF OptionsValid
  <2>1. CASE q = r /\ m = n
    BY <2>1, OptionsArrive
  <2>2. CASE ~(q = r /\ m = n)
    <3>1. work'[q][m] = work[q][m] \/ work'[q][m] = [work[q][m] EXCEPT !.alone = FALSE]
      BY <1>1, <2>2 DEF HandlerFrame
    <3>2. OptionsOf(q, m) /\ (ConfSet => ConfSet') /\ ask'[q].op = ask[q].op /\ conf' = conf
      BY <1>1 DEF HandlerFrame, RequestsKept, OptionsValid, ConfSet
    <3> QED BY <3>1, <3>2, OptionsStay
  <2> QED BY <2>1, <2>2
<1>4. ConfStored' /\ AskValid'
  BY <1>1 DEF HandlerFrame, RequestsKept, ConfStored, AskValid, ConfSet
<1> QED BY <1>2, <1>3, <1>4 DEF RequestsKept

\* Options that are asked for and stored are valid.
LEMMA RequestRequests ==
  ASSUME TypeOK, RequestsKept, NEW r \in Req, Issue(r) \/ RequestStep(r)
  PROVE  RequestsKept'
<1>0. work' = work
  BY DEF Issue, RequestStep, StoreFlag, StoreLink, Probe, End
<1>1. (ConfSet => ConfSet') /\ (conf.bridges # {} => conf'.bridges # {})
  <2>1. CASE StoreLink(r)
    <3> DEFINE o == ask[r].opts
    <3>1. \/ conf' = conf
          \/ conf' = [conf EXCEPT !.ifaces = o.ifaces] /\ o.ifaces # {}
          \/ conf' = [conf EXCEPT !.bridges = o.bridges] /\ o.ifaces = {}
      BY <2>1 DEF StoreLink
    <3>2. Valid(o)
      BY <2>1 DEF StoreLink, RequestsKept, AskValid
    <3> HIDE DEF o
    <3> QED BY <3>1, <3>2 DEF ConfSet, TypeOK, Valid
  <2>2. CASE StoreFlag(r)
    <3>1. conf' = conf \/ conf' = [conf EXCEPT !.cluster = TRUE]
      BY <2>2 DEF StoreFlag
    <3> QED BY <3>1 DEF ConfSet, TypeOK
  <2>3. CASE ~StoreLink(r) /\ ~StoreFlag(r)
    <3>1. conf' = conf
      BY <2>3 DEF Issue, RequestStep, Probe, End
    <3> QED BY <3>1 DEF ConfSet
  <2> QED BY <2>1, <2>2, <2>3
<1>2. StoreLink(r) /\ pc'[r] = "probe" => ConfSet'
  <2> SUFFICES ASSUME StoreLink(r), pc'[r] = "probe" PROVE ConfSet'
    OBVIOUS
  <2> DEFINE o == ask[r].opts
  <2>2. Valid(o)
    BY DEF StoreLink, RequestsKept, AskValid
  <2>3. Alive(r, ask[r].node)
    BY DEF StoreLink, Goto, TypeOK
  <2>4. conf' = IF o.ifaces # {} THEN [conf EXCEPT !.ifaces = o.ifaces]
                                 ELSE [conf EXCEPT !.bridges = o.bridges]
    BY <2>3 DEF StoreLink
  <2>5. CASE o.ifaces # {}
    <3>1. conf' = [conf EXCEPT !.ifaces = o.ifaces]
      BY <2>4, <2>5
    <3> QED BY <2>5, <3>1 DEF ConfSet, TypeOK
  <2>6. CASE o.ifaces = {}
    <3>1. conf' = [conf EXCEPT !.bridges = o.bridges] /\ o.bridges # {}
      BY <2>2, <2>4, <2>6 DEF Valid
    <3> QED BY <3>1 DEF ConfSet, TypeOK
  <2> QED BY <2>5, <2>6
<1>3. \A q \in Req, m \in Node : work[q][m].at # "none" =>
        pc'[q] = "visit" /\ m \in todo'[q] /\ ask'[q].op = ask[q].op
  <2>1. \A q \in Req : q # r => pc'[q] = pc[q] /\ todo'[q] = todo[q] /\ ask'[q] = ask[q]
    BY DEF Issue, RequestStep, StoreFlag, StoreLink, Probe, End, Goto, TypeOK
  <2>2. \A m \in Node : work[r][m].at = "none"
    BY DEF Issue, RequestStep, StoreFlag, StoreLink, Probe, End, RequestsKept, Present, At
  <2> QED BY <2>1, <2>2 DEF RequestsKept, Present, At
<1>4. \A m \in Node : Present(m)' /\ OptionsValid(m)'
  <2> SUFFICES ASSUME NEW m \in Node, NEW q \in Req
               PROVE  /\ work'[q][m].at # "none" => pc'[q] = "visit" /\ m \in todo'[q]
                      /\ OptionsOf(q, m)'
    BY DEF Present, OptionsValid, At
  <2>1. OptionsOf(q, m)
    BY DEF RequestsKept, OptionsValid
  <2> QED BY <1>0, <1>1, <1>3, <2>1, OptionsStay
<1>5. ConfStored' /\ AskValid'
  <2>1. CASE Issue(r)
    <3>1. PICK a \in Ask :
            /\ a.op = "setup" => Cardinality(a.opts.ifaces \cup a.opts.bridges) = 1
            /\ a.op = "enable" => (a.opts.given <=> Valid(a.opts))
            /\ a.op = "disable" => a.opts = NoOptions
            /\ ask' = [ask EXCEPT ![r] = a]
            /\ Goto(r, IF a.op = "setup" THEN "flag" ELSE "visit")
      BY <2>1 DEF Issue
    <3>2. a.op = "setup" => Valid(a.opts)
      BY <3>1, FS_EmptySet DEF Valid
    <3>3. a.op = "disable" => ~a.opts.given
      BY <3>1 DEF NoOptions
    <3>4. /\ ask'[r] = a /\ pc'[r] = IF a.op = "setup" THEN "flag" ELSE "visit"
          /\ \A q \in Req : q # r => ask'[q] = ask[q] /\ pc'[q] = pc[q]
      BY <3>1 DEF Goto, TypeOK
    <3> QED BY <1>1, <3>1, <3>2, <3>3, <3>4 DEF RequestsKept, ConfStored, AskValid
  <2>2. CASE RequestStep(r)
    <3>1. \A q \in Req : q # r => ask'[q] = ask[q] /\ pc'[q] = pc[q]
      BY <2>2 DEF RequestStep, StoreFlag, StoreLink, Probe, End, Goto, TypeOK
    <3>2. \/ pc'[r] = "idle"
          \/ /\ ask'[r] = ask[r] /\ pc[r] \in {"flag", "link", "probe"}
             /\ pc[r] = "flag" => pc'[r] = "link"
             /\ pc[r] = "link" => StoreLink(r) /\ pc'[r] = "probe"
             /\ pc'[r] \in {"link", "probe", "visit"}
      BY <2>2 DEF RequestStep, StoreFlag, StoreLink, Probe, End, Goto, TypeOK
    <3> QED BY <1>1, <1>2, <3>1, <3>2 DEF RequestsKept, ConfStored, AskValid
  <2> QED BY <2>1, <2>2
<1> QED BY <1>4, <1>5 DEF RequestsKept

\* A cancelled request keeps what it asks for; a crash ends its handlers.
LEMMA FailureRequests ==
  ASSUME TypeOK, RequestsKept
  PROVE  /\ \A r \in Req, N \in SUBSET Node : Cancel(r, N) => RequestsKept'
         /\ \A n \in Node : Crash(n) => RequestsKept'
<1>1. ASSUME NEW r \in Req, NEW N \in SUBSET Node, Cancel(r, N)
      PROVE  RequestsKept'
  <2>1. UNCHANGED <<conf, ask, pc, todo, work>>
    BY <1>1 DEF Cancel
  <2> QED BY <2>1 DEF RequestsKept, Present, At, OptionsValid, OptionsOf, Disables, ConfSet,
                      ConfStored, AskValid
<1>2. ASSUME NEW n \in Node, Crash(n)
      PROVE  RequestsKept'
  <2>1. /\ UNCHANGED <<conf, ask>>
        /\ \A q \in Req, m \in Node : work'[q][m] = IF m = n THEN NoWork ELSE work[q][m]
    BY <1>2 DEF Crash, TypeOK
  <2>2. \A q \in Req : pc'[q] = pc[q] \/ (pc'[q] = "idle" /\ pc[q] # "visit")
    BY <1>2 DEF Crash
  <2>3. \A q \in Req, m \in Node :
          pc[q] = "visit" /\ m \in todo[q] /\ m # n => m \in todo'[q]
    BY <1>2 DEF Crash
  <2>4. NoWork.at = "none"
    BY DEF NoWork
  <2>5. \A q \in Req, m \in Node : OptionsOf(q, m)'
    <3> SUFFICES ASSUME NEW q \in Req, NEW m \in Node PROVE OptionsOf(q, m)'
      OBVIOUS
    <3>1. CASE m = n
      BY <2>1, <2>4, <3>1 DEF OptionsOf
    <3>2. CASE m # n
      BY <2>1, <3>2 DEF OptionsOf, Disables, ConfSet, RequestsKept, OptionsValid
    <3> QED BY <3>1, <3>2
  <2>6. \A m \in Node : Present(m)'
    BY <2>1, <2>2, <2>3, <2>4 DEF Present, At, RequestsKept
  <2>7. ConfStored' /\ AskValid'
    BY <2>1, <2>2 DEF ConfStored, AskValid, ConfSet, RequestsKept
  <2> QED BY <2>5, <2>6, <2>7 DEF RequestsKept, OptionsValid
<1> QED BY <1>1, <1>2

\* Every step keeps the requests as they are.
LEMMA NextRequests == TypeOK /\ RequestsKept /\ [Next]_vars => RequestsKept'
<1> SUFFICES ASSUME TypeOK, RequestsKept, [Next]_vars PROVE RequestsKept'
  OBVIOUS
<1>1. CASE UNCHANGED vars
  BY <1>1 DEF vars, RequestsKept, Present, At, OptionsValid, OptionsOf, Disables, ConfSet,
              ConfStored, AskValid
<1>2. CASE Idle
  BY <1>1, <1>2 DEF Idle
<1>3. CASE \E r \in Req : Issue(r) \/ RequestStep(r) \/ Cancel(r, Node)
  BY <1>3, RequestRequests, FailureRequests
<1>4. CASE \E r \in Req, n \in Node : HandlerStep(r, n) \/ Cancel(r, {n})
  <2>1. \A n \in Node : {n} \in SUBSET Node
    OBVIOUS
  <2> QED BY <1>4, <2>1, HandlerRequests, FailureRequests
<1>5. CASE \E n \in Node : Crash(n)
  BY <1>5, FailureRequests
<1> QED BY <1>1, <1>2, <1>3, <1>4, <1>5 DEF Next

---------------------------------------------------------------------------
(* What is set up on a node.                                               *)

NodeKept(n) ==
  /\ Remnants(n) /\ AsnKept(n)
  /\ Exclusive(n) /\ Rowed(n)
  /\ RollbackClean(n) /\ TeardownClean(n) /\ SetupClean(n) /\ Rests(n)

\* A step that does nothing on the system of a node.
Passive(n) ==
  /\ \A q \in Req :
       \/ work'[q][n] = work[q][n]
       \/ ~Busy(q, n) /\ ~At(q, n, "env") /\ ~Busy(q, n)'
  /\ \/ n \in rows' <=> n \in rows
     \/ n \in rows' /\ \E q \in Req : At(q, n, "env")'
  /\ n \in dirty' <=> n \in dirty
  /\ n \in confirmed' <=> n \in confirmed
  /\ n \in struck => n \in struck'
  /\ \A k \in {"veth", "mapping"}, b \in Bridge :
       <<n, k, b>> \in orphaned' <=> <<n, k, b>> \in orphaned
  /\ \/ node'[n] = node[n]
     \/ /\ node'[n] = [node[n] EXCEPT !.switches = {}]
        /\ node[n].switches = {} \/ n \in struck'

\* Such a step takes nothing but the switches away, and then n is struck.
LEMMA PassiveNode ==
  ASSUME TypeOK, NEW n \in Node, Passive(n)
  PROVE  /\ node'[n].bird = node[n].bird /\ node'[n].router = node[n].router
         /\ node'[n].bridges = node[n].bridges /\ node'[n].tagged = node[n].tagged
         /\ node'[n].mapped = node[n].mapped /\ node'[n].own = node[n].own
         /\ node'[n].table = node[n].table /\ node'[n].plan = node[n].plan
         /\ node'[n].veths = node[n].veths /\ node'[n].ports = node[n].ports
         /\ node'[n].conf = node[n].conf
         /\ \/ node'[n].switches = node[n].switches
            \/ node'[n].switches = {} /\ n \in struck'
         /\ node[n].switches = {} => node'[n].switches = {}
         /\ node[n].veths \subseteq Bridge
<1>1. node[n] \in NodeState
  BY DEF TypeOK
<1>2. CASE node'[n] = node[n]
  BY <1>1, <1>2, NodeParts
<1>3. CASE /\ node'[n] = [node[n] EXCEPT !.switches = {}]
           /\ node[n].switches = {} \/ n \in struck'
  BY <1>1, <1>3 DEF NodeState
<1> QED BY <1>2, <1>3 DEF Passive

\* A node keeps what it has while nothing is done on its system.
LEMMA PassiveKept ==
  ASSUME TypeOK, NEW n \in Node, NodeKept(n), Passive(n)
  PROVE  NodeKept(n)'
<1>1. /\ \A q \in Req : Busy(q, n)' <=> Busy(q, n)
      /\ \A q \in Req : Busy(q, n) => work'[q][n] = work[q][n]
      /\ \A q \in Req : At(q, n, "env") => At(q, n, "env")'
  BY DEF Passive, Busy, At
<1>2. /\ \A q \in Req : At(q, n, "delVeth") \/ At(q, n, "rollback") \/ InSetup(q, n)
                          \/ InTeardown(q, n) => Busy(q, n)
      /\ \A q \in Req : At(q, n, "delVeth")' \/ At(q, n, "rollback")' \/ InSetup(q, n)'
                          \/ InTeardown(q, n)' => Busy(q, n)'
  BY DEF Busy, At, InSetup, InTeardown, TeardownStep
<1>3. \A q \in Req : Busy(q, n) =>
        /\ At(q, n, "delVeth")' <=> At(q, n, "delVeth")
        /\ At(q, n, "rollback")' <=> At(q, n, "rollback")
        /\ InSetup(q, n)' <=> InSetup(q, n)
        /\ InTeardown(q, n)' <=> InTeardown(q, n)
  BY <1>1 DEF At, InSetup, InTeardown
<1>4. Remnants(n)'
  BY <1>1, <1>2, <1>3, PassiveNode DEF NodeKept, Remnants, Passive
<1>5. AsnKept(n)'
  BY PassiveNode DEF NodeKept, AsnKept, Asn
<1>6. Exclusive(n)'
  BY <1>1 DEF NodeKept, Exclusive, Passive
<1>7. Rowed(n)'
  BY <1>1, <1>2, <1>3 DEF NodeKept, Rowed, Passive
<1>8. Base(n) => Base(n)'
  BY PassiveNode DEF Base, Passive
<1>9. TornDownState(n) => TornDownState(n)'
  BY PassiveNode DEF TornDownState, Passive
<1>10. Full(n) => Full(n)'
  BY PassiveNode DEF Full, Agrees, Passive
<1>11. RollbackClean(n)'
  BY <1>1, <1>2, <1>3, <1>9 DEF NodeKept, RollbackClean, Passive
<1>12. TeardownClean(n)'
  <2> SUFFICES ASSUME NEW q \in Req, InTeardown(q, n)', work'[q][n].alone
               PROVE  Undone(q, n)'
    BY DEF TeardownClean
  <2>1. Undone(q, n) /\ work'[q][n] = work[q][n]
    BY <1>1, <1>2, <1>3 DEF NodeKept, TeardownClean
  <2> QED BY <2>1, PassiveNode DEF Undone, Passive
<1>13. SetupClean(n)'
  <2> SUFFICES ASSUME NEW q \in Req, InSetup(q, n)', n \notin dirty'
               PROVE  SetUp(q, n)'
    BY DEF SetupClean
  <2>1. SetUp(q, n) /\ work'[q][n] = work[q][n]
    BY <1>1, <1>2, <1>3 DEF NodeKept, SetupClean, Passive
  <2>2. /\ Near(n) => Near(n)'
        /\ MappedTo(n)' = MappedTo(n)
        /\ Chosen(q, n) => Chosen(q, n)'
    BY <2>1, PassiveNode DEF Near, MappedTo, Chosen
  <2>3. Linked(q, n) => Linked(q, n)'
    BY <2>1, <2>2, PassiveNode DEF Linked
  <2>4. /\ Switched(q, n) => Switched(q, n)'
        /\ Planned(q, n) => Planned(q, n)'
    BY <2>1, <2>3, PassiveNode DEF Switched, Planned, NetplanConfig, Passive
  <2> QED BY <1>8, <1>10, <2>1, <2>2, <2>3, <2>4, PassiveNode DEF SetUp, Passive
<1>14. Rests(n)'
  BY <1>1, <1>8, <1>9, <1>10, PassiveNode DEF NodeKept, Rests, Passive, Base, TornDownState
<1> QED BY <1>4, <1>5, <1>6, <1>7, <1>11, <1>12, <1>13, <1>14 DEF NodeKept

\* Steps of handlers that are at one of these are at the system of the node.
LEMMA BusyAt ==
  ASSUME NEW r \in Req, NEW n \in Node
  PROVE  /\ At(r, n, "delVeth") \/ At(r, n, "rollback") \/ InSetup(r, n)
              \/ InTeardown(r, n) => Busy(r, n)
         /\ At(r, n, "delVeth") => InTeardown(r, n)
         /\ InSetup(r, n) => ~InTeardown(r, n) /\ ~At(r, n, "rollback") /\ ~At(r, n, "env")
         /\ InTeardown(r, n) => ~At(r, n, "rollback") /\ ~At(r, n, "env")
         /\ ~At(r, n, "env") \/ ~Busy(r, n)
BY DEF At, InSetup, InTeardown, Busy, SetupStep, TeardownStep

\* The same after the step.
LEMMA BusyAtNext ==
  ASSUME NEW r \in Req, NEW n \in Node
  PROVE  /\ At(r, n, "delVeth")' \/ At(r, n, "rollback")' \/ InSetup(r, n)'
              \/ InTeardown(r, n)' => Busy(r, n)'
         /\ At(r, n, "delVeth")' => InTeardown(r, n)'
         /\ InSetup(r, n)' => ~InTeardown(r, n)' /\ ~At(r, n, "rollback")' /\ ~At(r, n, "env")'
         /\ InTeardown(r, n)' => ~At(r, n, "rollback")' /\ ~At(r, n, "env")'
         /\ ~At(r, n, "env")' \/ ~Busy(r, n)'
BY DEF At, InSetup, InTeardown, Busy, SetupStep, TeardownStep

\* One handler works on the system of n, and the others do not move.
Works(r, n) ==
  /\ Busy(r, n)
  /\ \A q \in Req : q # r => work'[q][n] = work[q][n]
  /\ n \in rows' <=> n \in rows
  /\ n \in dirty' <=> n \in dirty

\* Handlers that do not move are where they were.
LEMMA OthersStay ==
  ASSUME NEW n \in Node, NEW q \in Req, work'[q][n] = work[q][n]
  PROVE  /\ Busy(q, n)' <=> Busy(q, n)
         /\ InSetup(q, n)' <=> InSetup(q, n)
         /\ InTeardown(q, n)' <=> InTeardown(q, n)
         /\ \A at : At(q, n, at)' <=> At(q, n, at)
BY DEF Busy, InSetup, InTeardown, At

\* A setup keeps what a node has if it sets up what it should, gives up or is done.
LEMMA SetupKept ==
  ASSUME TypeOK, NEW r \in Req, NEW n \in Node, NodeKept(n), InSetup(r, n), Works(r, n),
         Remnants(n)', AsnKept(n)',
         \/ /\ InSetup(r, n)' /\ work'[r][n].alone = work[r][n].alone
            /\ n \notin dirty => SetUp(r, n)'
            /\ n \in confirmed' <=> n \in confirmed
         \/ GivesUp(r, n) /\ (n \in confirmed' <=> n \in confirmed)
         \/ /\ work'[r][n].at \in {"none", "check"}
            /\ n \notin dirty => Full(n)' \/ (Base(n)' /\ node'[n].bird)
  PROVE  NodeKept(n)'
<1>1. n \in rows \cup dirty /\ n \in rows' \cup dirty'
  BY DEF NodeKept, Rowed, Works
<1>2. (n \notin dirty) \/ work[r][n].alone => \A q \in Req : q # r => ~Busy(q, n)
  BY DEF Works, NodeKept, Exclusive
<1>3. \A q \in Req : q # r => ~Busy(q, n)' \/ (Busy(q, n) /\ n \in dirty /\ ~work'[q][n].alone)
  BY OthersStay DEF Works, NodeKept, Exclusive
<1>4. GivesUp(r, n) => InTeardown(r, n)' /\ ~InSetup(r, n)'
  BY DEF GivesUp, InTeardown, InSetup, TeardownStep, SetupStep
<1>5. work'[r][n].at \in {"none", "check"} => ~Busy(r, n)'
  BY DEF Busy, SetupStep, TeardownStep
<1>6. Exclusive(n)'
  <2>1. \A q \in Req : q # r /\ Busy(q, n)' /\ Busy(r, n)' => ~work'[r][n].alone
    BY <1>2, <1>3, <1>5, OthersStay DEF GivesUp, Works
  <2> QED BY <1>3, <2>1 DEF Exclusive, Works
<1>7. Rowed(n)'
  <2> SUFFICES ASSUME NEW q \in Req, InTeardown(q, n)', work'[q][n].alone,
                      ~work'[q][n].undo
               PROVE  FALSE
    BY <1>1 DEF Rowed
  <2>1. CASE q = r
    BY <1>5, <2>1, BusyAtNext DEF GivesUp
  <2>2. CASE q # r
    BY <1>3, <2>2, BusyAtNext
  <2> QED BY <2>1, <2>2
<1>8. RollbackClean(n)'
  <2> SUFFICES ASSUME NEW q \in Req, At(q, n, "rollback")'
               PROVE  n \in dirty'
    BY DEF RollbackClean
  <2>1. CASE q = r
    BY <1>4, <1>5, <2>1, BusyAtNext
  <2>2. CASE q # r
    BY <1>3, <2>2, BusyAtNext DEF Works
  <2> QED BY <2>1, <2>2
<1>9. TeardownClean(n)'
  <2> SUFFICES ASSUME NEW q \in Req, InTeardown(q, n)', work'[q][n].alone
               PROVE  Undone(q, n)'
    BY DEF TeardownClean
  <2>1. q = r
    BY <1>3, BusyAtNext
  <2>2. GivesUp(r, n)
    BY <1>5, <2>1, BusyAtNext
  <2> QED BY <2>1, <2>2 DEF GivesUp, Undone, ToSwitches
<1>10. SetupClean(n)'
  <2> SUFFICES ASSUME NEW q \in Req, InSetup(q, n)', n \notin dirty'
               PROVE  SetUp(q, n)'
    BY DEF SetupClean
  <2>1. q = r
    BY <1>3, BusyAtNext DEF Works
  <2> QED BY <1>4, <1>5, <2>1, BusyAtNext DEF Works
<1>11. Rests(n)'
  <2> SUFFICES ASSUME ~Busy(r, n)', n \notin dirty'
               PROVE  n \in rows' /\ (Full(n)' \/ (Base(n)' /\ node'[n].bird))
    BY DEF Rests
  <2> QED BY <1>1, <1>4, BusyAtNext DEF Works
<1> QED BY <1>6, <1>7, <1>8, <1>9, <1>10, <1>11 DEF NodeKept

\* A teardown keeps what a node has if it tears down what it should.
LEMMA TeardownKept ==
  ASSUME TypeOK, NEW r \in Req, NEW n \in Node, NodeKept(n), InTeardown(r, n), Works(r, n),
         Remnants(n)', AsnKept(n)', n \in confirmed' <=> n \in confirmed,
         InTeardown(r, n)',
         work'[r][n].alone => /\ work[r][n].alone /\ work'[r][n].undo = work[r][n].undo
                              /\ Undone(r, n)'
  PROVE  NodeKept(n)'
<1>1. \A q \in Req : q # r => ~Busy(q, n)' \/ (Busy(q, n) /\ n \in dirty /\ ~work'[q][n].alone)
  BY OthersStay DEF Works, NodeKept, Exclusive
<1>2. Exclusive(n)'
  <2>1. \A q \in Req : q # r /\ Busy(q, n)' => ~work'[r][n].alone
    BY <1>1, OthersStay DEF Works, NodeKept, Exclusive
  <2> QED BY <1>1, <2>1 DEF Exclusive, Works
<1>3. Rowed(n)'
  <2>1. (\E q \in Req : InSetup(q, n)') \/ n \in confirmed' => n \in rows' \cup dirty'
    <3>1. \A q \in Req : InSetup(q, n)' => InSetup(q, n)
      BY OthersStay, BusyAtNext DEF Works
    <3> QED BY <3>1 DEF NodeKept, Rowed, Works
  <2> SUFFICES ASSUME NEW q \in Req, InTeardown(q, n)', work'[q][n].alone,
                      ~work'[q][n].undo, n \in rows'
               PROVE  \E p \in Req : At(p, n, "env")'
    BY <2>1 DEF Rowed
  <2>2. q = r
    BY <1>1, BusyAtNext
  <2>3. PICK p \in Req : At(p, n, "env")
    BY <2>2 DEF NodeKept, Rowed, Works
  <2>4. p # r
    BY <2>3, BusyAt
  <2> QED BY <2>3, <2>4 DEF Works, At
<1>4. RollbackClean(n)'
  <2> SUFFICES ASSUME NEW q \in Req, At(q, n, "rollback")'
               PROVE  n \in dirty'
    BY DEF RollbackClean
  <2>1. q # r
    BY BusyAtNext
  <2> QED BY <1>1, <2>1, BusyAtNext DEF Works
<1>5. TeardownClean(n)'
  <2> SUFFICES ASSUME NEW q \in Req, InTeardown(q, n)', work'[q][n].alone
               PROVE  Undone(q, n)'
    BY DEF TeardownClean
  <2>1. q = r
    BY <1>1, BusyAtNext
  <2> QED BY <2>1
<1>6. SetupClean(n)'
  <2> SUFFICES ASSUME NEW q \in Req, InSetup(q, n)', n \notin dirty'
               PROVE  FALSE
    BY DEF SetupClean
  <2>1. q # r
    BY BusyAtNext
  <2> QED BY <1>1, <2>1, BusyAtNext DEF Works
<1>7. Rests(n)'
  BY BusyAtNext DEF Rests
<1> QED BY <1>2, <1>3, <1>4, <1>5, <1>6, <1>7 DEF NodeKept

\* The steps of the setup, pointwise: BIRD,
LEMMA StartMoves ==
  ASSUME TypeOK, NEW r \in Req, NEW n \in Node, Start(r, n)
  PROVE  LET w == work[r][n] IN
         /\ w.at = "start" /\ node'[n] = [node[n] EXCEPT !.bird = TRUE]
         /\ orphaned' = orphaned
         /\ \/ Moves(r, n, "table", w.use, w.left, w.table) /\ confirmed' = confirmed
            \/ Succeed(r, n)
<1> DEFINE w == work[r][n]
<1>1. node'[n] = [node[n] EXCEPT !.bird = TRUE]
  BY DEF Start, Becomes, TypeOK
<1>2. Step(r, n, [w EXCEPT !.at = "table"]) => Moves(r, n, "table", w.use, w.left, w.table)
  BY StepMoves
<1> QED BY <1>1, <1>2 DEF Start, At

\* the routing table,
LEMMA ChooseTableMoves ==
  ASSUME TypeOK, NEW r \in Req, NEW n \in Node, ChooseTable(r, n)
  PROVE  LET w == work[r][n] IN
         /\ w.at = "table" /\ node' = node /\ orphaned' = orphaned /\ confirmed' = confirmed
         /\ \/ GivesUp(r, n)
            \/ \E t \in Table \ Taken :
                 Moves(r, n, "bridges", Links(w.opts), Links(w.opts), t)
<1> DEFINE w == work[r][n]
<1>1. Abort(r, n) \/ \E t \in Table \ Taken :
        Step(r, n, [w EXCEPT !.at = "bridges", !.table = t,
                             !.use = Links(w.opts), !.left = Links(w.opts)])
  BY DEF ChooseTable, UsedTables
<1>2. ASSUME NEW t,
             Step(r, n, [w EXCEPT !.at = "bridges", !.table = t,
                                  !.use = Links(w.opts), !.left = Links(w.opts)])
      PROVE  Moves(r, n, "bridges", Links(w.opts), Links(w.opts), t)
  BY <1>2, StepMoves
<1>3. w.at = "table" /\ node' = node /\ orphaned' = orphaned /\ confirmed' = confirmed
  BY DEF ChooseTable, At, ghosts
<1> QED BY <1>1, <1>2, <1>3, GivenUp

\* the router, which must not be there,
LEMMA CreateRouterMoves ==
  ASSUME TypeOK, NEW r \in Req, NEW n \in Node, CreateRouter(r, n)
  PROVE  LET w == work[r][n] IN
         /\ w.at = "router" /\ orphaned' = orphaned /\ confirmed' = confirmed
         /\ \/ GivesUp(r, n) /\ node' = node
            \/ /\ ~node[n].router
               /\ node'[n] = [node[n] EXCEPT !.router = TRUE, !.table = None]
               /\ Moves(r, n, "switches", w.use, w.left, w.table)
<1> DEFINE w == work[r][n]
<1>1. w.at = "router" /\ orphaned' = orphaned /\ confirmed' = confirmed
  BY DEF CreateRouter, At, ghosts
<1>2. CASE Abort(r, n) /\ node' = node
  BY <1>1, <1>2, GivenUp
<1>3. CASE /\ ~node[n].router
           /\ Becomes(n, [node[n] EXCEPT !.router = TRUE, !.table = None])
           /\ Step(r, n, [w EXCEPT !.at = "switches"])
  <2>1. node'[n] = [node[n] EXCEPT !.router = TRUE, !.table = None]
    BY <1>3 DEF Becomes, TypeOK
  <2>2. Moves(r, n, "switches", w.use, w.left, w.table)
    BY <1>3, StepMoves
  <2> QED BY <1>1, <1>3, <2>1, <2>2
<1> QED BY <1>2, <1>3 DEF CreateRouter

\* its VRF,
LEMMA CreateVrfMoves ==
  ASSUME TypeOK, NEW r \in Req, NEW n \in Node, CreateVrf(r, n)
  PROVE  LET w == work[r][n] IN
         /\ w.at = "vrf" /\ orphaned' = orphaned /\ confirmed' = confirmed
         /\ \/ GivesUp(r, n) /\ node' = node
            \/ /\ node'[n] = [node[n] EXCEPT !.table = w.table]
               /\ Moves(r, n, "plan", w.use, w.left, w.table)
<1> DEFINE w == work[r][n]
<1>1. w.at = "vrf" /\ orphaned' = orphaned /\ confirmed' = confirmed
  BY DEF CreateVrf, At, ghosts
<1>2. CASE Abort(r, n) /\ node' = node
  BY <1>1, <1>2, GivenUp
<1>3. CASE /\ Becomes(n, [node[n] EXCEPT !.table = w.table])
           /\ Step(r, n, [w EXCEPT !.at = "plan"])
  <2>1. node'[n] = [node[n] EXCEPT !.table = w.table]
    BY <1>3 DEF Becomes, TypeOK
  <2>2. Moves(r, n, "plan", w.use, w.left, w.table)
    BY <1>3, StepMoves
  <2> QED BY <1>1, <1>3, <2>1, <2>2
<1> QED BY <1>2, <1>3 DEF CreateVrf

\* the netplan file and what it says,
LEMMA PlanMoves ==
  ASSUME TypeOK, NEW r \in Req, NEW n \in Node
  PROVE  LET w == work[r][n] IN
         /\ WritePlan(r, n) =>
              /\ w.at = "plan" /\ confirmed' = confirmed
              /\ node'[n] = [node[n] EXCEPT !.plan = NetplanConfig(w)]
              /\ Moves(r, n, "veth", w.use, w.left, w.table)
         /\ ApplyPlan(r, n) =>
              /\ w.at = "veth" /\ confirmed' = confirmed
              /\ node'[n] = [node[n] EXCEPT !.veths = @ \cup node[n].plan.bridges]
              /\ Moves(r, n, "ports", w.use, w.left, w.table)
<1> DEFINE w == work[r][n]
<1>1. \A at : Step(r, n, [w EXCEPT !.at = at]) => Moves(r, n, at, w.use, w.left, w.table)
  BY StepMoves
<1>2. \A s : Becomes(n, s) => node'[n] = s
  BY DEF Becomes, TypeOK
<1>3. WritePlan(r, n) =>
        /\ w.at = "plan" /\ confirmed' = confirmed
        /\ node'[n] = [node[n] EXCEPT !.plan = NetplanConfig(w)]
        /\ Moves(r, n, "veth", w.use, w.left, w.table)
  BY <1>1, <1>2 DEF WritePlan, At
<1>4. ApplyPlan(r, n) =>
        /\ w.at = "veth" /\ confirmed' = confirmed
        /\ node'[n] = [node[n] EXCEPT !.veths = @ \cup node[n].plan.bridges]
        /\ Moves(r, n, "ports", w.use, w.left, w.table)
  BY <1>1, <1>2 DEF ApplyPlan, At
<1> QED BY <1>3, <1>4

\* and the configuration of BIRD.
LEMMA ConfigureMoves ==
  ASSUME TypeOK, NEW r \in Req, NEW n \in Node, Configure(r, n)
  PROVE  LET w == work[r][n] IN
         /\ w.at = "conf" /\ orphaned' = orphaned /\ Succeed(r, n)
         /\ \/ node'[n] = node[n]
            \/ node'[n] = [node[n] EXCEPT !.conf =
                             [table |-> w.table, bridges |-> w.use, asn |-> Asn(n)]]
BY DEF Configure, At, Becomes, TypeOK

\* A step of the setup that leaves bridges, devices and mappings alone leaves
\* nothing behind.
LEMMA RemnantsStay ==
  ASSUME NEW r \in Req, NEW n \in Node, Remnants(n),
         \A q \in Req : q # r => work'[q][n] = work[q][n], ~At(r, n, "delVeth"),
         orphaned' = orphaned,
         node'[n].bridges = node[n].bridges, node'[n].tagged = node[n].tagged,
         node'[n].veths = node[n].veths, node'[n].plan = node[n].plan,
         node'[n].mapped = node[n].mapped, node'[n].own = node[n].own
  PROVE  Remnants(n)'
BY DEF Remnants, At

\* A setup on a node that was not disturbed is as far as it should be.
LEMMA SetupSoFar ==
  ASSUME NEW r \in Req, NEW n \in Node, NodeKept(n), InSetup(r, n), n \notin dirty
  PROVE  SetUp(r, n)
BY DEF NodeKept, SetupClean

\* What one step of the setup must show of its handler and its node.
SetsUp(r, n) ==
  \/ /\ InSetup(r, n)' /\ work'[r][n].alone = work[r][n].alone
     /\ n \notin dirty => SetUp(r, n)'
     /\ n \in confirmed' <=> n \in confirmed
  \/ GivesUp(r, n) /\ (n \in confirmed' <=> n \in confirmed)
  \/ /\ work'[r][n].at \in {"none", "check"}
     /\ n \notin dirty => Full(n)' \/ (Base(n)' /\ node'[n].bird)

\* The setup of BIRD and of the table.
LEMMA StartKept ==
  ASSUME TypeOK, NEW r \in Req, NEW n \in Node, NodeKept(n), SetupActs(r, n), Start(r, n)
  PROVE  Remnants(n)' /\ AsnKept(n)' /\ SetsUp(r, n)
<1> DEFINE w == work[r][n]
           s == node[n]
<1>0. s \in NodeState /\ node'[n] = [s EXCEPT !.bird = TRUE] /\ orphaned' = orphaned
      /\ struck' = struck /\ dirty' = dirty
  BY StartMoves, SetupFrame DEF TypeOK
<1>1. /\ node'[n].bird /\ node'[n].router = s.router
      /\ node'[n].bridges = s.bridges /\ node'[n].tagged = s.tagged
      /\ node'[n].mapped = s.mapped /\ node'[n].own = s.own
      /\ node'[n].table = s.table /\ node'[n].plan = s.plan
      /\ node'[n].veths = s.veths /\ node'[n].ports = s.ports
      /\ node'[n].switches = s.switches /\ node'[n].conf = s.conf
  BY <1>0 DEF NodeState
<1>2. ~At(r, n, "delVeth") /\ InSetup(r, n)
  BY SetupAt, BusyAt
<1>3. Remnants(n)'
  BY <1>0, <1>1, <1>2, SetupFrame, RemnantsStay DEF NodeKept
<1>4. AsnKept(n)'
  BY <1>1 DEF NodeKept, AsnKept, Asn
<1>5. Base(n) => Base(n)'
  BY <1>0, <1>1 DEF Base
<1>6. Full(n) => Full(n)'
  BY <1>0, <1>1 DEF Full, Agrees
<1>7. n \notin dirty => Base(n) \/ Full(n)
  BY <1>2, SetupSoFar, StartMoves DEF SetUp
<1>8. CASE Moves(r, n, "table", w.use, w.left, w.table) /\ confirmed' = confirmed
  <2>1. work'[r][n].at = "table" /\ work'[r][n].alone = w.alone
    BY <1>8 DEF Moves
  <2>2. InSetup(r, n)'
    BY <2>1 DEF InSetup, SetupStep
  <2>3. n \notin dirty => SetUp(r, n)'
    BY <1>1, <1>5, <1>6, <1>7, <2>1 DEF SetUp
  <2> QED BY <1>3, <1>4, <1>8, <2>1, <2>2, <2>3 DEF SetsUp
<1>9. CASE Succeed(r, n)
  <2>1. work'[r][n].at \in {"none", "check"}
    BY <1>9, SucceedStep DEF NoWork
  <2> QED BY <1>1, <1>3, <1>4, <1>5, <1>6, <1>7, <2>1 DEF SetsUp
<1> QED BY <1>8, <1>9, StartMoves

\* A setup chooses a table that nobody uses.
LEMMA ChooseTableKept ==
  ASSUME TypeOK, RequestsKept, NEW r \in Req, NEW n \in Node, NodeKept(n),
         SetupActs(r, n), ChooseTable(r, n)
  PROVE  Remnants(n)' /\ AsnKept(n)' /\ SetsUp(r, n)
<1> DEFINE w == work[r][n]
           s == node[n]
<1>0. /\ w.at = "table" /\ node' = node /\ orphaned' = orphaned /\ confirmed' = confirmed
      /\ struck' = struck /\ dirty' = dirty
  BY ChooseTableMoves, SetupFrame
<1>1. ~At(r, n, "delVeth") /\ InSetup(r, n)
  BY SetupAt, BusyAt
<1>2. Remnants(n)'
  BY <1>0, <1>1, SetupFrame, RemnantsStay DEF NodeKept
<1>3. AsnKept(n)'
  BY <1>0 DEF NodeKept, AsnKept, Asn
<1>4. CASE GivesUp(r, n)
  BY <1>0, <1>2, <1>3, <1>4 DEF SetsUp
<1>5. ASSUME NEW t \in Table \ Taken, Moves(r, n, "bridges", Links(w.opts), Links(w.opts), t)
      PROVE  SetsUp(r, n)
  <2>1. /\ work'[r][n].at = "bridges" /\ work'[r][n].alone = w.alone
        /\ work'[r][n].use = Links(w.opts) /\ work'[r][n].left = Links(w.opts)
        /\ work'[r][n].table = t
    BY <1>5 DEF Moves
  <2>2. InSetup(r, n)'
    BY <2>1 DEF InSetup, SetupStep
  <2>3. Links(w.opts) # {}
    <3>1. Valid(w.opts)
      BY <1>0 DEF RequestsKept, OptionsValid, OptionsOf
    <3>2. w.opts \in Options
      BY HandlerParts DEF TypeOK
    <3> QED BY <3>1, <3>2, LinksType
  <2>4. t # None
    BY TableAssumption
  <2>5. n \notin dirty => SetUp(r, n)'
    <3> SUFFICES ASSUME n \notin dirty PROVE SetUp(r, n)'
      OBVIOUS
    <3>1. s.bird /\ (Base(n) \/ Full(n))
      BY <1>0, <1>1, SetupSoFar DEF SetUp
    <3>2. Chosen(r, n)'
      BY <1>0, <2>1, <2>3, <2>4, <3>1 DEF Chosen
    <3>3. s.router \/ (Near(n)' /\ s.switches = {})
      BY <1>0, <3>1 DEF Base, Full, Near
    <3> QED BY <1>0, <2>1, <3>2, <3>3 DEF SetUp
  <2> QED BY <1>0, <2>1, <2>2, <2>5 DEF SetsUp
<1> QED BY <1>2, <1>3, <1>4, <1>5, ChooseTableMoves

\* Bridges that are made or taken are tagged and mapped.
LEMMA CreateBridgesKept ==
  ASSUME TypeOK, NEW r \in Req, NEW n \in Node, NodeKept(n), SetupActs(r, n),
         CreateBridges(r, n)
  PROVE  Remnants(n)' /\ AsnKept(n)' /\ SetsUp(r, n)
<1> DEFINE w == work[r][n]
           s == node[n]
<1>0. /\ w.at = "bridges" /\ confirmed' = confirmed /\ struck' = struck /\ dirty' = dirty
      /\ s \in NodeState
  BY CreateBridgesDoes, SetupFrame DEF TypeOK
<1>1. ~At(r, n, "delVeth") /\ InSetup(r, n)
  BY SetupAt, BusyAt
<1>2. \A q \in Req : q # r => work'[q][n] = work[q][n]
  BY SetupFrame
<1>3. n \notin dirty =>
        /\ Chosen(r, n)
        /\ s.router \/ (Near(n) /\ s.switches = {} /\ w.use \ w.left \subseteq MappedTo(n))
  BY <1>0, <1>1, SetupSoFar DEF SetUp
<1>4. CASE /\ node' = node
           /\ \/ GivesUp(r, n)
              \/ w.left = {} /\ Moves(r, n, "router", w.use, w.use, w.table)
  <2>1. orphaned' = orphaned
    BY <1>4, CreateBridgesDoes
  <2>2. Remnants(n)' /\ AsnKept(n)'
    BY <1>1, <1>2, <1>4, <2>1, RemnantsStay DEF NodeKept, AsnKept, Asn
  <2>3. CASE GivesUp(r, n)
    BY <1>0, <2>2, <2>3 DEF SetsUp
  <2>4. CASE w.left = {} /\ Moves(r, n, "router", w.use, w.use, w.table)
    <3>1. /\ work'[r][n].at = "router" /\ work'[r][n].alone = w.alone
          /\ work'[r][n].use = w.use /\ work'[r][n].left = w.use
          /\ work'[r][n].table = w.table
      BY <2>4 DEF Moves
    <3>2. InSetup(r, n)'
      BY <3>1 DEF InSetup, SetupStep
    <3>3. n \notin dirty => SetUp(r, n)'
      BY <1>3, <1>4, <2>4, <3>1 DEF SetUp, Chosen, Near, MappedTo
    <3> QED BY <1>0, <2>2, <3>1, <3>2, <3>3 DEF SetsUp
  <2> QED BY <1>4, <2>2, <2>3, <2>4
<1>5. CASE \E b \in w.left : /\ node'[n] = AddMapping(n, b)
                             /\ Moves(r, n, "bridges", w.use, w.left \ {b}, w.table)
  <2>1. PICK b \in w.left : /\ node'[n] = AddMapping(n, b)
                            /\ Moves(r, n, "bridges", w.use, w.left \ {b}, w.table)
    BY <1>5
  <2>2. /\ node'[n].bird = s.bird /\ node'[n].router = s.router
        /\ node'[n].bridges = s.bridges \cup {b} /\ node'[n].tagged = s.tagged \cup {b}
        /\ node'[n].mapped = s.mapped \cup {b} /\ node'[n].own = s.mapped \cup {b}
        /\ node'[n].table = s.table /\ node'[n].plan = s.plan
        /\ node'[n].veths = s.veths /\ node'[n].ports = s.ports
        /\ node'[n].switches = s.switches /\ node'[n].conf = s.conf
    BY <1>0, <2>1 DEF AddMapping, NodeState
  <2>3. /\ work'[r][n].at = "bridges" /\ work'[r][n].alone = w.alone
        /\ work'[r][n].use = w.use /\ work'[r][n].left = w.left \ {b}
        /\ work'[r][n].table = w.table
    BY <2>1 DEF Moves
  <2>4. \A c : <<n, "veth", c>> \in orphaned => <<n, "veth", c>> \in orphaned'
    BY CreateBridgesDoes
  <2>5. Remnants(n)'
    <3>1. Remnants(n)
      BY DEF NodeKept
    <3>2. \A c \in node'[n].veths :
            \/ c \in node'[n].plan.bridges \/ <<n, "veth", c>> \in orphaned'
            \/ \E q \in Req : At(q, n, "delVeth")' /\ c \in work'[q][n].left
      BY <1>1, <1>2, <2>2, <2>4, <3>1 DEF Remnants, At
    <3> QED BY <2>2, <3>1, <3>2 DEF Remnants
  <2>6. AsnKept(n)'
    BY <2>2 DEF NodeKept, AsnKept, Asn
  <2>7. InSetup(r, n)'
    BY <2>3 DEF InSetup, SetupStep
  <2>8. n \notin dirty => SetUp(r, n)'
    BY <1>3, <2>2, <2>3 DEF SetUp, Chosen, Near, MappedTo
  <2> QED BY <1>0, <2>3, <2>5, <2>6, <2>7, <2>8 DEF SetsUp
<1> QED BY <1>4, <1>5, CreateBridgesMoves

\* A step of the setup that leaves bridges, devices, mappings, the netplan file
\* and BIRD's configuration alone has only its own part to show.
LEMMA LittleKept ==
  ASSUME TypeOK, NEW r \in Req, NEW n \in Node, NodeKept(n), SetupActs(r, n),
         orphaned' = orphaned, confirmed' = confirmed,
         node'[n].bridges = node[n].bridges, node'[n].tagged = node[n].tagged,
         node'[n].veths = node[n].veths, node'[n].plan = node[n].plan,
         node'[n].mapped = node[n].mapped, node'[n].own = node[n].own,
         node'[n].conf = node[n].conf,
         NEW at \in SetupStep, NEW use, NEW left, NEW table,
         GivesUp(r, n) \/ (/\ Moves(r, n, at, use, left, table)
                           /\ n \notin dirty => SetUp(r, n)')
  PROVE  Remnants(n)' /\ AsnKept(n)' /\ SetsUp(r, n)
<1>1. ~At(r, n, "delVeth")
  BY SetupAt, BusyAt
<1>2. Remnants(n)'
  BY <1>1, SetupFrame, RemnantsStay DEF NodeKept
<1>3. AsnKept(n)'
  BY DEF NodeKept, AsnKept, Asn
<1> QED BY <1>2, <1>3 DEF SetsUp, Moves, InSetup

\* The router is new.
LEMMA CreateRouterKept ==
  ASSUME TypeOK, NEW r \in Req, NEW n \in Node, NodeKept(n), SetupActs(r, n),
         CreateRouter(r, n)
  PROVE  Remnants(n)' /\ AsnKept(n)' /\ SetsUp(r, n)
<1> DEFINE w == work[r][n]
           s == node[n]
<1>0. /\ w.at = "router" /\ confirmed' = confirmed /\ orphaned' = orphaned
      /\ struck' = struck /\ s \in NodeState /\ InSetup(r, n)
  BY CreateRouterMoves, SetupFrame, SetupAt DEF TypeOK
<1>1. CASE GivesUp(r, n) /\ node' = node
  BY <1>0, <1>1, LittleKept DEF InSetup
<1>2. CASE /\ ~s.router /\ node'[n] = [s EXCEPT !.router = TRUE, !.table = None]
           /\ Moves(r, n, "switches", w.use, w.left, w.table)
  <2>1. /\ node'[n].bird = s.bird /\ node'[n].router
        /\ node'[n].bridges = s.bridges /\ node'[n].tagged = s.tagged
        /\ node'[n].mapped = s.mapped /\ node'[n].own = s.own
        /\ node'[n].plan = s.plan
        /\ node'[n].veths = s.veths /\ node'[n].ports = s.ports
        /\ node'[n].switches = s.switches /\ node'[n].conf = s.conf
    BY <1>0, <1>2 DEF NodeState
  <2>2. n \notin dirty => SetUp(r, n)'
    <3> SUFFICES ASSUME n \notin dirty PROVE SetUp(r, n)'
      OBVIOUS
    <3>1. /\ Chosen(r, n) /\ w.left = w.use
          /\ Near(n) /\ s.switches = {} /\ w.use \subseteq MappedTo(n)
      BY <1>0, <1>2, SetupSoFar DEF SetUp
    <3> QED BY <1>2, <2>1, <3>1 DEF SetUp, Linked, Chosen, Near, MappedTo, Moves
  <2>3. "switches" \in SetupStep
    BY DEF SetupStep
  <2> QED BY <1>0, <1>2, <2>1, <2>2, <2>3, LittleKept
<1> QED BY <1>1, <1>2, CreateRouterMoves

\* Every bridge gets a switch.
LEMMA CreateSwitchesKept ==
  ASSUME TypeOK, NEW r \in Req, NEW n \in Node, NodeKept(n), SetupActs(r, n),
         CreateSwitches(r, n)
  PROVE  Remnants(n)' /\ AsnKept(n)' /\ SetsUp(r, n)
<1> DEFINE w == work[r][n]
           s == node[n]
<1>0. /\ w.at = "switches" /\ confirmed' = confirmed /\ orphaned' = orphaned
      /\ struck' = struck /\ s \in NodeState /\ InSetup(r, n)
  BY CreateSwitchesDoes, SetupFrame, SetupAt DEF TypeOK
<1>1. CASE GivesUp(r, n) /\ node' = node
  BY <1>0, <1>1, LittleKept DEF InSetup
<1>2. n \notin dirty =>
        /\ Linked(r, n) /\ Near(n)
        /\ s.switches = w.use \ w.left \/ n \in struck
  BY <1>0, SetupSoFar DEF SetUp
<1>3. CASE \E b \in w.left : /\ node'[n] = [s EXCEPT !.switches = @ \cup {b}]
                             /\ Moves(r, n, "switches", w.use, w.left \ {b}, w.table)
  <2>1. PICK b \in w.left : /\ node'[n] = [s EXCEPT !.switches = @ \cup {b}]
                            /\ Moves(r, n, "switches", w.use, w.left \ {b}, w.table)
    BY <1>3
  <2>2. /\ node'[n].bird = s.bird /\ node'[n].router = s.router
        /\ node'[n].bridges = s.bridges /\ node'[n].tagged = s.tagged
        /\ node'[n].mapped = s.mapped /\ node'[n].own = s.own
        /\ node'[n].plan = s.plan
        /\ node'[n].veths = s.veths /\ node'[n].ports = s.ports
        /\ node'[n].switches = s.switches \cup {b} /\ node'[n].conf = s.conf
    BY <1>0, <2>1 DEF NodeState
  <2>3. n \notin dirty => SetUp(r, n)'
    BY <1>0, <1>2, <2>1, <2>2 DEF SetUp, Linked, Chosen, Near, MappedTo, Moves
  <2>4. "switches" \in SetupStep
    BY DEF SetupStep
  <2> QED BY <1>0, <2>1, <2>2, <2>3, <2>4, LittleKept
<1>4. CASE w.left = {} /\ node' = node /\ Moves(r, n, "vrf", w.use, w.use, w.table)
  <2>1. n \notin dirty => SetUp(r, n)'
    BY <1>0, <1>2, <1>4 DEF SetUp, Linked, Chosen, Near, MappedTo, Moves, Switched
  <2>2. "vrf" \in SetupStep
    BY DEF SetupStep
  <2> QED BY <1>0, <1>4, <2>1, <2>2, LittleKept
<1> QED BY <1>1, <1>3, <1>4, CreateSwitchesMoves

\* The router gets the table of the setup.
LEMMA CreateVrfKept ==
  ASSUME TypeOK, NEW r \in Req, NEW n \in Node, NodeKept(n), SetupActs(r, n),
         CreateVrf(r, n)
  PROVE  Remnants(n)' /\ AsnKept(n)' /\ SetsUp(r, n)
<1> DEFINE w == work[r][n]
           s == node[n]
<1>0. /\ w.at = "vrf" /\ confirmed' = confirmed /\ orphaned' = orphaned
      /\ struck' = struck /\ s \in NodeState /\ InSetup(r, n)
  BY CreateVrfMoves, SetupFrame, SetupAt DEF TypeOK
<1>1. CASE GivesUp(r, n) /\ node' = node
  BY <1>0, <1>1, LittleKept DEF InSetup
<1>2. CASE /\ node'[n] = [s EXCEPT !.table = w.table]
           /\ Moves(r, n, "plan", w.use, w.left, w.table)
  <2>1. /\ node'[n].bird = s.bird /\ node'[n].router = s.router
        /\ node'[n].bridges = s.bridges /\ node'[n].tagged = s.tagged
        /\ node'[n].mapped = s.mapped /\ node'[n].own = s.own
        /\ node'[n].plan = s.plan /\ node'[n].table = w.table
        /\ node'[n].veths = s.veths /\ node'[n].ports = s.ports
        /\ node'[n].switches = s.switches /\ node'[n].conf = s.conf
    BY <1>0, <1>2 DEF NodeState
  <2>2. n \notin dirty => Linked(r, n) /\ Near(n) /\ Switched(r, n)
    BY <1>0, SetupSoFar DEF SetUp
  <2>3. n \notin dirty => SetUp(r, n)'
    BY <1>0, <1>2, <2>1, <2>2 DEF SetUp, Linked, Chosen, Near, MappedTo, Moves, Switched
  <2>4. "plan" \in SetupStep
    BY DEF SetupStep
  <2> QED BY <1>0, <1>2, <2>1, <2>3, <2>4, LittleKept
<1> QED BY <1>1, <1>2, CreateVrfMoves

\* Every bridge gets a port.
LEMMA RedirectPortsKept ==
  ASSUME TypeOK, NEW r \in Req, NEW n \in Node, NodeKept(n), SetupActs(r, n),
         RedirectPorts(r, n)
  PROVE  Remnants(n)' /\ AsnKept(n)' /\ SetsUp(r, n)
<1> DEFINE w == work[r][n]
           s == node[n]
<1>0. /\ w.at = "ports" /\ confirmed' = confirmed /\ orphaned' = orphaned
      /\ struck' = struck /\ s \in NodeState /\ InSetup(r, n)
  BY RedirectPortsDoes, SetupFrame, SetupAt DEF TypeOK
<1>1. CASE GivesUp(r, n) /\ node' = node
  BY <1>0, <1>1, LittleKept DEF InSetup
<1>2. n \notin dirty => Planned(r, n) /\ w.use \subseteq s.veths /\ s.ports = w.use \ w.left
  BY <1>0, SetupSoFar DEF SetUp
<1>3. CASE \E b \in w.left : /\ node'[n] = [s EXCEPT !.ports = @ \cup {b}]
                             /\ Moves(r, n, "ports", w.use, w.left \ {b}, w.table)
  <2>1. PICK b \in w.left : /\ node'[n] = [s EXCEPT !.ports = @ \cup {b}]
                            /\ Moves(r, n, "ports", w.use, w.left \ {b}, w.table)
    BY <1>3
  <2>2. /\ node'[n].bird = s.bird /\ node'[n].router = s.router
        /\ node'[n].bridges = s.bridges /\ node'[n].tagged = s.tagged
        /\ node'[n].mapped = s.mapped /\ node'[n].own = s.own
        /\ node'[n].plan = s.plan /\ node'[n].table = s.table
        /\ node'[n].veths = s.veths /\ node'[n].ports = s.ports \cup {b}
        /\ node'[n].switches = s.switches /\ node'[n].conf = s.conf
    BY <1>0, <2>1 DEF NodeState
  <2>3. n \notin dirty => SetUp(r, n)'
    <3> SUFFICES ASSUME n \notin dirty PROVE SetUp(r, n)'
      OBVIOUS
    <3>1. Linked(r, n)'
      BY <1>2, <2>1, <2>2 DEF Planned, Linked, Chosen, MappedTo, Moves
    <3>2. Planned(r, n)'
      BY <1>0, <1>2, <2>1, <2>2, <3>1 DEF Planned, NetplanConfig, Moves
    <3>3. s.ports \cup {b} = w.use \ (w.left \ {b})
      BY <1>2 DEF Planned, Linked, Chosen
    <3> QED BY <1>2, <2>1, <2>2, <3>2, <3>3 DEF SetUp, Moves
  <2>4. "ports" \in SetupStep
    BY DEF SetupStep
  <2> QED BY <1>0, <2>1, <2>2, <2>3, <2>4, LittleKept
<1>4. CASE w.left = {} /\ node' = node /\ Moves(r, n, "conf", w.use, w.use, w.table)
  <2>1. n \notin dirty => SetUp(r, n)'
    BY <1>0, <1>2, <1>4
       DEF SetUp, Planned, Linked, Chosen, MappedTo, NetplanConfig, Moves
  <2>2. "conf" \in SetupStep
    BY DEF SetupStep
  <2> QED BY <1>0, <1>4, <2>1, <2>2, LittleKept
<1> QED BY <1>1, <1>3, <1>4, RedirectPortsMoves

\* The devices that the new netplan file does not name are orphaned.
LEMMA WritePlanKept ==
  ASSUME TypeOK, NEW r \in Req, NEW n \in Node, NodeKept(n), SetupActs(r, n),
         WritePlan(r, n)
  PROVE  Remnants(n)' /\ AsnKept(n)' /\ SetsUp(r, n)
<1> DEFINE w == work[r][n]
           s == node[n]
<1>0. /\ w.at = "plan" /\ confirmed' = confirmed /\ struck' = struck
      /\ s \in NodeState /\ w \in Handler
      /\ orphaned' = orphaned \cup {<<n, "veth", b>> : b \in s.veths \ w.use}
      /\ node'[n] = [s EXCEPT !.plan = NetplanConfig(w)]
      /\ Moves(r, n, "veth", w.use, w.left, w.table)
  <2>1. /\ w.at = "plan" /\ confirmed' = confirmed
        /\ node'[n] = [s EXCEPT !.plan = NetplanConfig(w)]
        /\ Moves(r, n, "veth", w.use, w.left, w.table)
    BY PlanMoves
  <2>2. orphaned' = orphaned \cup {<<n, "veth", b>> : b \in s.veths \ w.use}
    BY DEF WritePlan
  <2>3. struck' = struck /\ s \in NodeState /\ w \in Handler
    BY SetupFrame DEF TypeOK
  <2> QED BY <2>1, <2>2, <2>3
<1>1. /\ ~At(r, n, "delVeth") /\ InSetup(r, n)
      /\ \A q \in Req : q # r => work'[q][n] = work[q][n]
  BY SetupAt, BusyAt, SetupFrame
<1>2. /\ node'[n].bird = s.bird /\ node'[n].router = s.router
      /\ node'[n].bridges = s.bridges /\ node'[n].tagged = s.tagged
      /\ node'[n].mapped = s.mapped /\ node'[n].own = s.own
      /\ node'[n].table = s.table /\ node'[n].plan = NetplanConfig(w)
      /\ node'[n].veths = s.veths /\ node'[n].ports = s.ports
      /\ node'[n].switches = s.switches /\ node'[n].conf = s.conf
  BY <1>0 DEF NodeState
<1>3. Remnants(n)'
  <2>1. Remnants(n) /\ orphaned \subseteq orphaned'
    BY <1>0 DEF NodeKept
  <2>2. \A b \in s.veths : b \in w.use \/ <<n, "veth", b>> \in orphaned'
    BY <1>0
  <2>3. NetplanConfig(w).bridges = w.use
    BY DEF NetplanConfig
  <2> QED BY <1>2, <2>1, <2>2, <2>3 DEF Remnants
<1>4. AsnKept(n)'
  BY <1>2 DEF NodeKept, AsnKept, Asn
<1>5. InSetup(r, n)' /\ work'[r][n].alone = w.alone
  BY <1>0 DEF Moves, InSetup, SetupStep
<1>6. n \notin dirty => SetUp(r, n)'
  <2> SUFFICES ASSUME n \notin dirty PROVE SetUp(r, n)'
    OBVIOUS
  <2>1. Linked(r, n) /\ Near(n) /\ Switched(r, n) /\ s.table = w.table
    BY <1>0, <1>1, SetupSoFar DEF SetUp
  <2>2. Linked(r, n)'
    BY <1>0, <1>2, <2>1 DEF Linked, Chosen, MappedTo, Moves
  <2>3. Planned(r, n)'
    BY <1>0, <1>2, <2>1, <2>2 DEF Planned, NetplanConfig, Moves, Near, Switched
  <2> QED BY <1>0, <1>2, <2>1, <2>3 DEF SetUp, Moves, Near, Switched
<1> QED BY <1>0, <1>3, <1>4, <1>5, <1>6 DEF SetsUp

\* The devices of the file are made, and are not orphaned any more.
LEMMA ApplyPlanKept ==
  ASSUME TypeOK, NEW r \in Req, NEW n \in Node, NodeKept(n), SetupActs(r, n),
         ApplyPlan(r, n)
  PROVE  Remnants(n)' /\ AsnKept(n)' /\ SetsUp(r, n)
<1> DEFINE w == work[r][n]
           s == node[n]
<1>0. /\ w.at = "veth" /\ confirmed' = confirmed /\ struck' = struck
      /\ s \in NodeState
      /\ orphaned' = orphaned \ {<<n, "veth", b>> : b \in s.plan.bridges}
      /\ node'[n] = [s EXCEPT !.veths = @ \cup s.plan.bridges]
      /\ Moves(r, n, "ports", w.use, w.left, w.table)
  BY PlanMoves, SetupFrame DEF TypeOK, ApplyPlan
<1>1. /\ ~At(r, n, "delVeth") /\ InSetup(r, n)
      /\ \A q \in Req : q # r => work'[q][n] = work[q][n]
  BY SetupAt, BusyAt, SetupFrame
<1>2. /\ node'[n].bird = s.bird /\ node'[n].router = s.router
      /\ node'[n].bridges = s.bridges /\ node'[n].tagged = s.tagged
      /\ node'[n].mapped = s.mapped /\ node'[n].own = s.own
      /\ node'[n].table = s.table /\ node'[n].plan = s.plan
      /\ node'[n].veths = s.veths \cup s.plan.bridges /\ node'[n].ports = s.ports
      /\ node'[n].switches = s.switches /\ node'[n].conf = s.conf
  BY <1>0 DEF NodeState
<1>3. Remnants(n)'
  <2>1. Remnants(n)
    BY DEF NodeKept
  <2>2. /\ \A b : <<n, "mapping", b>> \in orphaned => <<n, "mapping", b>> \in orphaned'
        /\ \A b : <<n, "veth", b>> \in orphaned /\ b \notin s.plan.bridges
                    => <<n, "veth", b>> \in orphaned'
    BY <1>0
  <2>3. \A b \in node'[n].veths :
          \/ b \in node'[n].plan.bridges \/ <<n, "veth", b>> \in orphaned'
          \/ \E q \in Req : At(q, n, "delVeth")' /\ b \in work'[q][n].left
    BY <1>1, <1>2, <2>1, <2>2 DEF Remnants, At
  <2> QED BY <1>2, <2>1, <2>2, <2>3 DEF Remnants
<1>4. AsnKept(n)'
  BY <1>2 DEF NodeKept, AsnKept, Asn
<1>5. InSetup(r, n)' /\ work'[r][n].alone = w.alone
  BY <1>0 DEF Moves, InSetup, SetupStep
<1>6. n \notin dirty => SetUp(r, n)'
  <2> SUFFICES ASSUME n \notin dirty PROVE SetUp(r, n)'
    OBVIOUS
  <2>1. Planned(r, n) /\ s.ports = {} /\ w.left = w.use
    BY <1>0, <1>1, SetupSoFar DEF SetUp
  <2>2. Linked(r, n)'
    BY <1>0, <1>2, <2>1 DEF Planned, Linked, Chosen, MappedTo, Moves
  <2>3. Planned(r, n)'
    BY <1>0, <1>2, <2>1, <2>2 DEF Planned, NetplanConfig, Moves
  <2>4. w.use \subseteq node'[n].veths
    BY <1>2, <2>1 DEF Planned, NetplanConfig
  <2> QED BY <1>0, <1>2, <2>1, <2>3, <2>4 DEF SetUp, Moves
<1> QED BY <1>0, <1>3, <1>4, <1>5, <1>6 DEF SetsUp

\* BIRD's configuration is of the router and the plan; then the setup is complete.
LEMMA ConfigureKept ==
  ASSUME TypeOK, NEW r \in Req, NEW n \in Node, NodeKept(n), SetupActs(r, n),
         Configure(r, n)
  PROVE  Remnants(n)' /\ AsnKept(n)' /\ SetsUp(r, n)
<1> DEFINE w == work[r][n]
           s == node[n]
           c == [table |-> w.table, bridges |-> w.use, asn |-> Asn(n)]
<1>0. /\ w.at = "conf" /\ orphaned' = orphaned /\ struck' = struck
      /\ s \in NodeState /\ Succeed(r, n)
      /\ node'[n] = s \/ node'[n] = [s EXCEPT !.conf = c]
  BY ConfigureMoves, SetupFrame DEF TypeOK
<1>1. ~At(r, n, "delVeth") /\ InSetup(r, n)
  BY SetupAt, BusyAt
<1>2. /\ node'[n].bird = s.bird /\ node'[n].router = s.router
      /\ node'[n].bridges = s.bridges /\ node'[n].tagged = s.tagged
      /\ node'[n].mapped = s.mapped /\ node'[n].own = s.own
      /\ node'[n].table = s.table /\ node'[n].plan = s.plan
      /\ node'[n].veths = s.veths /\ node'[n].ports = s.ports
      /\ node'[n].switches = s.switches
      /\ node'[n].conf = s.conf \/ node'[n].conf = c
  BY <1>0 DEF NodeState
<1>3. Remnants(n)'
  BY <1>0, <1>1, <1>2, SetupFrame, RemnantsStay DEF NodeKept
<1>4. AsnKept(n)'
  <2>1. c.asn = Asn(n)
    OBVIOUS
  <2> HIDE DEF c
  <2> QED BY <1>2, <2>1 DEF NodeKept, AsnKept, Asn
<1>5. work'[r][n].at \in {"none", "check"}
  BY <1>0, SucceedStep DEF NoWork
<1>6. n \notin dirty => Full(n)'
  <2> SUFFICES ASSUME n \notin dirty PROVE Full(n)'
    OBVIOUS
  <2>1. Planned(r, n) /\ w.use \subseteq s.veths /\ s.ports = w.use
    BY <1>0, <1>1, SetupSoFar DEF SetUp
  <2>2. /\ s.plan.table = w.table /\ s.plan.bridges = w.use
        /\ c.table = w.table /\ c.bridges = w.use
    BY <2>1 DEF Planned, NetplanConfig
  <2>3. node'[n].conf # DefaultBird =>
          node'[n].conf.table = w.table /\ node'[n].conf.bridges = w.use
    BY <1>2, <2>1, <2>2 DEF Planned
  <2> HIDE DEF c
  <2> QED BY <1>0, <1>2, <2>1, <2>2, <2>3
          DEF Full, Agrees, Planned, Linked, Chosen, MappedTo
<1> QED BY <1>3, <1>4, <1>5, <1>6 DEF SetsUp

\* A setup that fails gives up.
LEMMA FailKept ==
  ASSUME TypeOK, NEW r \in Req, NEW n \in Node, NodeKept(n), SetupActs(r, n), Fail(r, n)
  PROVE  Remnants(n)' /\ AsnKept(n)' /\ SetsUp(r, n)
<1>1. GivesUp(r, n) /\ node' = node /\ orphaned' = orphaned /\ confirmed' = confirmed
  BY GivenUp DEF Fail, ghosts
<1>2. "start" \in SetupStep
  BY DEF SetupStep
<1> QED BY <1>1, <1>2, LittleKept

\* A step of the setup keeps what its node has.
LEMMA SetupActsKept ==
  ASSUME TypeOK, RequestsKept, NEW r \in Req, NEW n \in Node, NodeKept(n), SetupActs(r, n)
  PROVE  NodeKept(n)'
<1>1. InSetup(r, n) /\ Works(r, n)
  BY SetupAt, SetupFrame DEF Works
<1>2. Remnants(n)' /\ AsnKept(n)' /\ SetsUp(r, n)
  <2>1. CASE Start(r, n)
    BY <2>1, StartKept
  <2>2. CASE ChooseTable(r, n)
    BY <2>2, ChooseTableKept
  <2>3. CASE CreateBridges(r, n)
    BY <2>3, CreateBridgesKept
  <2>4. CASE CreateRouter(r, n)
    BY <2>4, CreateRouterKept
  <2>5. CASE CreateSwitches(r, n)
    BY <2>5, CreateSwitchesKept
  <2>6. CASE CreateVrf(r, n)
    BY <2>6, CreateVrfKept
  <2>7. CASE WritePlan(r, n)
    BY <2>7, WritePlanKept
  <2>8. CASE ApplyPlan(r, n)
    BY <2>8, ApplyPlanKept
  <2>9. CASE RedirectPorts(r, n)
    BY <2>9, RedirectPortsKept
  <2>10. CASE Configure(r, n)
    BY <2>10, ConfigureKept
  <2>11. CASE Fail(r, n)
    BY <2>11, FailKept
  <2> QED BY <2>1, <2>2, <2>3, <2>4, <2>5, <2>6, <2>7, <2>8, <2>9, <2>10, <2>11 DEF SetupActs
<1> QED BY <1>1, <1>2, SetupKept DEF SetsUp

\* What one step of the teardown must show of its handler.
TearsDown(r, n) ==
  /\ InTeardown(r, n)'
  /\ work'[r][n].alone =>
       work[r][n].alone /\ work'[r][n].undo = work[r][n].undo /\ Undone(r, n)'

\* A step of the teardown that leaves devices and netplan file alone leaves
\* behind only what is orphaned.
LEMMA LeftBehind ==
  ASSUME NEW r \in Req, NEW n \in Node, NodeKept(n),
         \A q \in Req : q # r => work'[q][n] = work[q][n], ~At(r, n, "delVeth"),
         orphaned \subseteq orphaned',
         node'[n].bridges \ UserBridge \subseteq node'[n].tagged,
         node'[n].veths = node[n].veths, node'[n].plan = node[n].plan,
         \A b \in node'[n].mapped \cap Bridge :
           b \in node'[n].own \/ <<n, "mapping", b>> \in orphaned',
         node'[n].conf = node[n].conf \/ node'[n].conf = DefaultBird
  PROVE  Remnants(n)' /\ AsnKept(n)'
<1>1. Remnants(n)'
  <2>1. Remnants(n)
    BY DEF NodeKept
  <2>2. \A b \in node'[n].veths :
          \/ b \in node'[n].plan.bridges \/ <<n, "veth", b>> \in orphaned'
          \/ \E q \in Req : At(q, n, "delVeth")' /\ b \in work'[q][n].left
    BY <2>1 DEF Remnants, At
  <2> QED BY <2>2 DEF Remnants
<1>2. AsnKept(n)'
  BY DEF NodeKept, AsnKept, Asn
<1> QED BY <1>1, <1>2

\* A teardown that is alone has torn down what it should.
LEMMA UndoneSoFar ==
  ASSUME NEW r \in Req, NEW n \in Node, NodeKept(n), InTeardown(r, n), work[r][n].alone
  PROVE  Undone(r, n) /\ \A q \in Req : q # r => ~Busy(q, n)
BY BusyAt DEF NodeKept, TeardownClean, Exclusive

\* A failed command leaves the node as it is, and the teardown is not certain of
\* it any more.
LEMMA FailedKept ==
  ASSUME TypeOK, NEW r \in Req, NEW n \in Node, NodeKept(n),
         TeardownActs(r, n), ~TornDown(r, n), ~At(r, n, "delVeth"),
         orphaned \subseteq orphaned', node'[n] = node[n], ~work'[r][n].alone,
         work'[r][n].at \in TeardownStep \cup {"done"}
  PROVE  Remnants(n)' /\ AsnKept(n)' /\ TearsDown(r, n)
<1>1. \A b \in node[n].mapped \cap Bridge :
        b \in node[n].own \/ <<n, "mapping", b>> \in orphaned'
  BY DEF NodeKept, Remnants
<1>2. Remnants(n)' /\ AsnKept(n)'
  <2>1. node[n].bridges \ UserBridge \subseteq node[n].tagged
    BY DEF NodeKept, Remnants
  <2> QED BY <1>1, <2>1, TeardownFrame, LeftBehind
<1>3. TearsDown(r, n)
  BY DEF TearsDown, InTeardown
<1> QED BY <1>2, <1>3

\* A step of the teardown leaves the node in state s, or fails and leaves it.
Tears(r, n, at, next, s) ==
  /\ work[r][n].at = at /\ work'[r][n].at = next
  /\ work'[r][n].undo = work[r][n].undo
  /\ \/ node'[n] = s /\ work'[r][n].alone = work[r][n].alone
     \/ node'[n] = node[n] /\ ~work'[r][n].alone

\* The steps of the teardown that are like each other, pointwise.
LEMMA TeardownMoves ==
  ASSUME TypeOK, NEW r \in Req, NEW n \in Node
  PROVE  \A at, next, s : Teardown(r, n, at, next, s) => Tears(r, n, at, next, s)
<1> DEFINE w == work[r][n]
<1>1. w \in Handler /\ \A new : Step(r, n, new) => work'[r][n] = new
  BY DEF TypeOK, Step
<1>2. \A s : Becomes(n, s) => node'[n] = s
  BY DEF Becomes, TypeOK
<1> SUFFICES ASSUME NEW at, NEW next, NEW s, Teardown(r, n, at, next, s)
             PROVE  Tears(r, n, at, next, s)
  OBVIOUS
<1>3. w.at = at
  BY DEF Teardown, At
<1>4. CASE Becomes(n, s) /\ Step(r, n, [w EXCEPT !.at = next])
  <2>1. work'[r][n] = [w EXCEPT !.at = next] /\ node'[n] = s
    BY <1>1, <1>2, <1>4
  <2> QED BY <1>1, <1>3, <2>1 DEF Tears, Handler
<1>5. CASE node' = node /\ Step(r, n, [w EXCEPT !.at = next, !.alone = FALSE])
  <2>1. work'[r][n] = [w EXCEPT !.at = next, !.alone = FALSE] /\ node'[n] = node[n]
    BY <1>1, <1>5
  <2> QED BY <1>1, <1>3, <2>1 DEF Tears, Handler
<1> QED BY <1>4, <1>5 DEF Teardown

\* The teardown of BIRD and the router, ...
LEMMA StopBirdKept ==
  ASSUME TypeOK, NEW r \in Req, NEW n \in Node, NodeKept(n), TeardownActs(r, n),
         ~TornDown(r, n), StopBird(r, n)
  PROVE  Remnants(n)' /\ AsnKept(n)' /\ TearsDown(r, n)
<1> DEFINE w == work[r][n]
           s == node[n]
           t == [s EXCEPT !.bird = FALSE]
<1>0. s \in NodeState
  BY DEF TypeOK
<1>1. Teardown(r, n, "stop", "delRouter", t) /\ orphaned' = orphaned
  BY DEF StopBird
<1>2. /\ ~t.bird /\ t.bridges = s.bridges /\ t.tagged = s.tagged
      /\ t.mapped = s.mapped /\ t.own = s.own
      /\ t.plan = s.plan /\ t.veths = s.veths /\ t.conf = s.conf
  BY <1>0 DEF NodeState
<1> HIDE DEF t
<1>3. /\ w.at = "stop" /\ work'[r][n].at = "delRouter" /\ work'[r][n].undo = w.undo
      /\ \/ node'[n] = t /\ work'[r][n].alone = w.alone
         \/ node'[n] = s /\ ~work'[r][n].alone
  BY <1>1, TeardownMoves DEF Tears
<1>4. ~At(r, n, "delVeth") /\ InTeardown(r, n)'
  BY <1>3 DEF At, InTeardown, TeardownStep
<1>5. CASE node'[n] = s /\ ~work'[r][n].alone
  BY <1>1, <1>3, <1>4, <1>5, FailedKept DEF InTeardown
<1>6. CASE node'[n] = t /\ work'[r][n].alone = w.alone
  <2>1. Remnants(n)' /\ AsnKept(n)'
    BY <1>1, <1>2, <1>4, <1>6, TeardownFrame, LeftBehind DEF NodeKept, Remnants
  <2>2. Undone(r, n)'
    BY <1>2, <1>3, <1>6 DEF Undone, ToSwitches
  <2> QED BY <1>3, <1>4, <1>6, <2>1, <2>2 DEF TearsDown
<1> QED BY <1>3, <1>5, <1>6

\* ... and of the router, ...
LEMMA DeleteRouterKept ==
  ASSUME TypeOK, NEW r \in Req, NEW n \in Node, NodeKept(n), TeardownActs(r, n),
         ~TornDown(r, n), DeleteRouter(r, n)
  PROVE  Remnants(n)' /\ AsnKept(n)' /\ TearsDown(r, n)
<1> DEFINE w == work[r][n]
           s == node[n]
           t == [s EXCEPT !.router = FALSE, !.table = None]
<1>0. s \in NodeState
  BY DEF TypeOK
<1>1. Teardown(r, n, "delRouter", "delPlan", t) /\ orphaned' = orphaned
  BY DEF DeleteRouter
<1>2. /\ t.bird = s.bird /\ t.bridges = s.bridges /\ t.tagged = s.tagged
      /\ t.mapped = s.mapped /\ t.own = s.own /\ ~t.router
      /\ t.table = None /\ t.switches = s.switches /\ t.plan = s.plan
      /\ t.veths = s.veths /\ t.ports = s.ports /\ t.conf = s.conf
  BY <1>0 DEF NodeState
<1> HIDE DEF t
<1>3. /\ w.at = "delRouter" /\ work'[r][n].at = "delPlan" /\ work'[r][n].undo = w.undo
      /\ \/ node'[n] = t /\ work'[r][n].alone = w.alone
         \/ node'[n] = s /\ ~work'[r][n].alone
  BY <1>1, TeardownMoves DEF Tears
<1>4. ~At(r, n, "delVeth") /\ InTeardown(r, n)' /\ InTeardown(r, n)
  BY <1>3 DEF At, InTeardown, TeardownStep
<1>5. CASE node'[n] = s /\ ~work'[r][n].alone
  BY <1>1, <1>3, <1>4, <1>5, FailedKept DEF InTeardown
<1>6. CASE node'[n] = t /\ work'[r][n].alone = w.alone
  <2>1. Remnants(n)' /\ AsnKept(n)'
    BY <1>0, <1>1, <1>2, <1>4, <1>6, TeardownFrame, LeftBehind DEF NodeKept, Remnants
  <2>2. w.alone => Undone(r, n)'
    BY <1>1, <1>2, <1>3, <1>4, <1>6, UndoneSoFar DEF Undone, ToSwitches
  <2> QED BY <1>3, <1>4, <1>6, <2>1, <2>2 DEF TearsDown
<1> QED BY <1>3, <1>5, <1>6

\* ... of the bridges, which are all tagged but for the users' ...
LEMMA DeleteBridgesKept ==
  ASSUME TypeOK, NEW r \in Req, NEW n \in Node, NodeKept(n), TeardownActs(r, n),
         ~TornDown(r, n), DeleteBridges(r, n)
  PROVE  Remnants(n)' /\ AsnKept(n)' /\ TearsDown(r, n)
<1> DEFINE w == work[r][n]
           s == node[n]
           t == [s EXCEPT !.bridges = @ \ s.tagged, !.tagged = {}]
<1>0. s \in NodeState
  BY DEF TypeOK
<1>1. Teardown(r, n, "delBridges", "delPorts", t) /\ orphaned' = orphaned
  BY DEF DeleteBridges
<1>2. /\ t.bird = s.bird /\ t.bridges = s.bridges \ s.tagged /\ t.tagged = {}
      /\ t.mapped = s.mapped /\ t.own = s.own /\ t.router = s.router
      /\ t.table = s.table /\ t.switches = s.switches /\ t.plan = s.plan
      /\ t.veths = s.veths /\ t.ports = s.ports /\ t.conf = s.conf
  BY <1>0 DEF NodeState
<1> HIDE DEF t
<1>3. /\ w.at = "delBridges" /\ work'[r][n].at = "delPorts" /\ work'[r][n].undo = w.undo
      /\ \/ node'[n] = t /\ work'[r][n].alone = w.alone
         \/ node'[n] = s /\ ~work'[r][n].alone
  BY <1>1, TeardownMoves DEF Tears
<1>4. ~At(r, n, "delVeth") /\ InTeardown(r, n)' /\ InTeardown(r, n)
  BY <1>3 DEF At, InTeardown, TeardownStep
<1>5. CASE node'[n] = s /\ ~work'[r][n].alone
  BY <1>1, <1>3, <1>4, <1>5, FailedKept DEF InTeardown
<1>6. CASE node'[n] = t /\ work'[r][n].alone = w.alone
  <2>1. Remnants(n)' /\ AsnKept(n)'
    BY <1>0, <1>1, <1>2, <1>4, <1>6, TeardownFrame, LeftBehind DEF NodeKept, Remnants
  <2>2. s.bridges \ s.tagged \subseteq UserBridge
    BY DEF NodeKept, Remnants
  <2>3. w.alone => Undone(r, n)'
    BY <1>1, <1>2, <1>3, <1>4, <1>6, <2>2, UndoneSoFar DEF Undone, ToSwitches
  <2> QED BY <1>3, <1>4, <1>6, <2>1, <2>3 DEF TearsDown
<1> QED BY <1>3, <1>5, <1>6

\* ... of the ports ...
LEMMA DeletePortsKept ==
  ASSUME TypeOK, NEW r \in Req, NEW n \in Node, NodeKept(n), TeardownActs(r, n),
         ~TornDown(r, n), DeletePorts(r, n)
  PROVE  Remnants(n)' /\ AsnKept(n)' /\ TearsDown(r, n)
<1> DEFINE w == work[r][n]
           s == node[n]
           t == [s EXCEPT !.ports = {}]
<1>0. s \in NodeState
  BY DEF TypeOK
<1>1. Teardown(r, n, "delPorts", "delMaps", t) /\ orphaned' = orphaned
  BY DEF DeletePorts
<1>2. /\ t.bird = s.bird /\ t.bridges = s.bridges /\ t.tagged = s.tagged
      /\ t.mapped = s.mapped /\ t.own = s.own /\ t.router = s.router
      /\ t.table = s.table /\ t.switches = s.switches /\ t.plan = s.plan
      /\ t.veths = s.veths /\ t.ports = {} /\ t.conf = s.conf
  BY <1>0 DEF NodeState
<1> HIDE DEF t
<1>3. /\ w.at = "delPorts" /\ work'[r][n].at = "delMaps" /\ work'[r][n].undo = w.undo
      /\ \/ node'[n] = t /\ work'[r][n].alone = w.alone
         \/ node'[n] = s /\ ~work'[r][n].alone
  BY <1>1, TeardownMoves DEF Tears
<1>4. ~At(r, n, "delVeth") /\ InTeardown(r, n)' /\ InTeardown(r, n)
  BY <1>3 DEF At, InTeardown, TeardownStep
<1>5. CASE node'[n] = s /\ ~work'[r][n].alone
  BY <1>1, <1>3, <1>4, <1>5, FailedKept DEF InTeardown
<1>6. CASE node'[n] = t /\ work'[r][n].alone = w.alone
  <2>1. Remnants(n)' /\ AsnKept(n)'
    BY <1>0, <1>1, <1>2, <1>4, <1>6, TeardownFrame, LeftBehind DEF NodeKept, Remnants
  <2>2. w.alone => Undone(r, n)'
    BY <1>1, <1>2, <1>3, <1>4, <1>6, UndoneSoFar DEF Undone, ToSwitches
  <2> QED BY <1>3, <1>4, <1>6, <2>1, <2>2 DEF TearsDown
<1> QED BY <1>3, <1>5, <1>6

\* ... and of BIRD's configuration.
LEMMA ResetConfKept ==
  ASSUME TypeOK, NEW r \in Req, NEW n \in Node, NodeKept(n), TeardownActs(r, n),
         ~TornDown(r, n), ResetConf(r, n)
  PROVE  Remnants(n)' /\ AsnKept(n)' /\ TearsDown(r, n)
<1> DEFINE w == work[r][n]
           s == node[n]
           t == [s EXCEPT !.conf = DefaultBird]
<1>0. s \in NodeState
  BY DEF TypeOK
<1>1. Teardown(r, n, "resetConf", "done", t) /\ orphaned' = orphaned
  BY DEF ResetConf
<1>2. /\ t.bird = s.bird /\ t.bridges = s.bridges /\ t.tagged = s.tagged
      /\ t.mapped = s.mapped /\ t.own = s.own /\ t.router = s.router
      /\ t.table = s.table /\ t.switches = s.switches /\ t.plan = s.plan
      /\ t.veths = s.veths /\ t.ports = s.ports /\ t.conf = DefaultBird
  BY <1>0 DEF NodeState
<1> HIDE DEF t
<1>3. /\ w.at = "resetConf" /\ work'[r][n].at = "done" /\ work'[r][n].undo = w.undo
      /\ \/ node'[n] = t /\ work'[r][n].alone = w.alone
         \/ node'[n] = s /\ ~work'[r][n].alone
  BY <1>1, TeardownMoves DEF Tears
<1>4. ~At(r, n, "delVeth") /\ InTeardown(r, n)' /\ InTeardown(r, n)
  BY <1>3 DEF At, InTeardown, TeardownStep
<1>5. CASE node'[n] = s /\ ~work'[r][n].alone
  BY <1>1, <1>3, <1>4, <1>5, FailedKept DEF InTeardown
<1>6. CASE node'[n] = t /\ work'[r][n].alone = w.alone
  <2>1. Remnants(n)' /\ AsnKept(n)'
    BY <1>0, <1>1, <1>2, <1>4, <1>6, TeardownFrame, LeftBehind DEF NodeKept, Remnants
  <2>2. w.alone => Undone(r, n)'
    BY <1>1, <1>2, <1>3, <1>4, <1>6, UndoneSoFar DEF Undone, ToSwitches
  <2> QED BY <1>3, <1>4, <1>6, <2>1, <2>2 DEF TearsDown
<1> QED BY <1>3, <1>5, <1>6

\* Without the netplan file the devices that are left to delete are known to the
\* teardown only.
LEMMA MovePlanKept ==
  ASSUME TypeOK, NEW r \in Req, NEW n \in Node, NodeKept(n), TeardownActs(r, n),
         ~TornDown(r, n), MovePlan(r, n)
  PROVE  Remnants(n)' /\ AsnKept(n)' /\ TearsDown(r, n)
<1> DEFINE w == work[r][n]
           s == node[n]
<1>0. /\ s \in NodeState /\ orphaned' = orphaned /\ w.at = "delPlan"
      /\ \A q \in Req : q # r => work'[q][n] = work[q][n]
  BY TeardownFrame DEF TypeOK, MovePlan, At, ghosts
<1>1. ~At(r, n, "delVeth") /\ InTeardown(r, n)
  BY <1>0, TeardownAt DEF At
<1>2. CASE node' = node /\ work'[r][n].at = "delSwitches" /\ ~work'[r][n].alone
  BY <1>0, <1>1, <1>2, FailedKept DEF TeardownStep
<1>3. CASE /\ node'[n] = [s EXCEPT !.plan = NoPlan]
           /\ Moves(r, n, "delVeth", w.use, s.plan.bridges, w.table)
  <2>1. /\ node'[n].bird = s.bird /\ node'[n].router = s.router
        /\ node'[n].bridges = s.bridges /\ node'[n].tagged = s.tagged
        /\ node'[n].mapped = s.mapped /\ node'[n].own = s.own
        /\ node'[n].table = s.table /\ node'[n].plan = NoPlan
        /\ node'[n].veths = s.veths /\ node'[n].conf = s.conf
    BY <1>0, <1>3 DEF NodeState
  <2>2. /\ At(r, n, "delVeth")' /\ work'[r][n].left = s.plan.bridges
        /\ work'[r][n].alone = w.alone /\ work'[r][n].undo = w.undo
    BY <1>3 DEF Moves, At
  <2>3. Remnants(n)'
    BY <1>0, <1>1, <2>1, <2>2 DEF NodeKept, Remnants, At
  <2>4. AsnKept(n)'
    BY <2>1 DEF NodeKept, AsnKept, Asn
  <2>5. w.alone => Undone(r, n)'
    BY <1>0, <1>1, <2>1, <2>2, UndoneSoFar DEF Undone, ToSwitches, At
  <2>6. InTeardown(r, n)'
    BY <2>2, BusyAtNext
  <2> QED BY <2>2, <2>3, <2>4, <2>5, <2>6 DEF TearsDown
<1> QED BY <1>2, <1>3, MovePlanMoves

\* A device that is not deleted then is orphaned.
LEMMA DeleteVethsKept ==
  ASSUME TypeOK, NEW r \in Req, NEW n \in Node, NodeKept(n), TeardownActs(r, n),
         ~TornDown(r, n), DeleteVeths(r, n)
  PROVE  Remnants(n)' /\ AsnKept(n)' /\ TearsDown(r, n)
<1> DEFINE w == work[r][n]
           s == node[n]
           lost == s.veths \cap w.left
           t == [s EXCEPT !.veths = @ \ lost]
<1>0. /\ s \in NodeState
      /\ \A q \in Req : q # r => work'[q][n] = work[q][n]
  BY TeardownFrame DEF TypeOK
<1>1. /\ Teardown(r, n, "delVeth", "delSwitches", t)
      /\ orphaned' = IF node'[n] = s
                     THEN orphaned \cup {<<n, "veth", b>> : b \in lost} ELSE orphaned
  BY DEF DeleteVeths
<1>2. /\ t.bird = s.bird /\ t.bridges = s.bridges /\ t.tagged = s.tagged
      /\ t.mapped = s.mapped /\ t.own = s.own /\ t.router = s.router
      /\ t.table = s.table /\ t.plan = s.plan
      /\ t.veths = s.veths \ lost /\ t.conf = s.conf
  BY <1>0 DEF NodeState
<1> HIDE DEF t
<1>3. /\ w.at = "delVeth" /\ work'[r][n].at = "delSwitches" /\ work'[r][n].undo = w.undo
      /\ \/ node'[n] = t /\ work'[r][n].alone = w.alone
         \/ node'[n] = s /\ ~work'[r][n].alone
  BY <1>1, TeardownMoves DEF Tears
<1>4. InTeardown(r, n)' /\ InTeardown(r, n)
  BY <1>3 DEF InTeardown, TeardownStep
<1>5. /\ orphaned \subseteq orphaned'
      /\ \A b \in node'[n].veths : b \in s.veths
           /\ (b \in w.left => <<n, "veth", b>> \in orphaned')
  <2>1. CASE node'[n] = s
    <3>1. orphaned' = orphaned \cup {<<n, "veth", b>> : b \in lost}
      BY <1>1, <2>1
    <3> QED BY <2>1, <3>1
  <2>2. CASE node'[n] # s
    BY <1>1, <1>2, <1>3, <2>2
  <2> QED BY <2>1, <2>2
<1>6. \A b \in node'[n].veths :
        \/ b \in s.plan.bridges \/ <<n, "veth", b>> \in orphaned'
        \/ \E q \in Req : q # r /\ At(q, n, "delVeth") /\ b \in work[q][n].left
  BY <1>5 DEF NodeKept, Remnants
<1>7. Remnants(n)'
  <2>1. \A b \in node'[n].veths :
          \/ b \in node'[n].plan.bridges \/ <<n, "veth", b>> \in orphaned'
          \/ \E q \in Req : At(q, n, "delVeth")' /\ b \in work'[q][n].left
    BY <1>0, <1>2, <1>3, <1>6 DEF At
  <2> QED BY <1>2, <1>3, <1>5, <2>1 DEF NodeKept, Remnants
<1>8. AsnKept(n)'
  BY <1>2, <1>3 DEF NodeKept, AsnKept, Asn
<1>9. work'[r][n].alone => w.alone /\ Undone(r, n)'
  <2> SUFFICES ASSUME work'[r][n].alone PROVE w.alone /\ Undone(r, n)'
    OBVIOUS
  <2>1. node'[n] = t /\ w.alone
    BY <1>3
  <2>2. Undone(r, n) /\ \A q \in Req : q # r => ~Busy(q, n)
    BY <1>4, <2>1, UndoneSoFar
  <2>3. s.plan = NoPlan /\ ~s.bird /\ ~s.router /\ s.table = None
    BY <1>3, <2>2 DEF Undone
  <2>4. \A b \in node'[n].veths : <<n, "veth", b>> \in orphaned'
    BY <1>6, <2>2, <2>3, BusyAt DEF NoPlan
  <2> QED BY <1>2, <1>3, <2>1, <2>3, <2>4 DEF Undone, ToSwitches
<1> QED BY <1>3, <1>4, <1>7, <1>8, <1>9 DEF TearsDown

\* The switches of the node are all deleted.
LEMMA DeleteSwitchesKept ==
  ASSUME TypeOK, NEW r \in Req, NEW n \in Node, NodeKept(n), TeardownActs(r, n),
         ~TornDown(r, n), DeleteSwitches(r, n)
  PROVE  Remnants(n)' /\ AsnKept(n)' /\ TearsDown(r, n)
<1> DEFINE w == work[r][n]
           s == node[n]
<1>0. s \in NodeState /\ orphaned' = orphaned /\ w.at = "delSwitches"
  BY DEF TypeOK, DeleteSwitches, At
<1>1. ~At(r, n, "delVeth") /\ InTeardown(r, n)
  BY <1>0, TeardownAt DEF At
<1>2. CASE node' = node /\ work'[r][n].at = "delBridges" /\ ~work'[r][n].alone
  BY <1>0, <1>1, <1>2, FailedKept DEF TeardownStep
<1>3. CASE /\ node'[n] = [s EXCEPT !.switches = {}]
           /\ Moves(r, n, "delBridges", w.use, w.left, w.table)
  <2>1. /\ node'[n].bird = s.bird /\ node'[n].router = s.router
        /\ node'[n].bridges = s.bridges /\ node'[n].tagged = s.tagged
        /\ node'[n].mapped = s.mapped /\ node'[n].own = s.own
        /\ node'[n].table = s.table /\ node'[n].plan = s.plan
        /\ node'[n].veths = s.veths /\ node'[n].conf = s.conf
        /\ node'[n].switches = {}
    BY <1>0, <1>3 DEF NodeState
  <2>2. /\ work'[r][n].at = "delBridges"
        /\ work'[r][n].alone = w.alone /\ work'[r][n].undo = w.undo
    BY <1>3 DEF Moves
  <2>3. Remnants(n)' /\ AsnKept(n)'
    BY <1>0, <1>1, <2>1, TeardownFrame, LeftBehind DEF NodeKept, Remnants
  <2>4. w.alone => Undone(r, n)'
    BY <1>0, <1>1, <2>1, <2>2, UndoneSoFar DEF Undone, ToSwitches
  <2>5. InTeardown(r, n)'
    BY <2>2 DEF InTeardown, TeardownStep
  <2> QED BY <2>2, <2>3, <2>4, <2>5 DEF TearsDown
<1> QED BY <1>2, <1>3, DeleteSwitchesMoves

\* The mappings that are not MicroOVN's own stay, those of MicroOVN are orphaned.
LEMMA DeleteMappingsKept ==
  ASSUME TypeOK, NEW r \in Req, NEW n \in Node, NodeKept(n), TeardownActs(r, n),
         ~TornDown(r, n), DeleteMappings(r, n)
  PROVE  Remnants(n)' /\ AsnKept(n)' /\ TearsDown(r, n)
<1> DEFINE w == work[r][n]
           s == node[n]
           t == [s EXCEPT !.mapped = @ \ s.own]
<1>0. s \in NodeState /\ orphaned' = orphaned /\ w.at = "delMaps"
  BY DeleteMappingsMoves DEF TypeOK, DeleteMappings
<1>1. ~At(r, n, "delVeth") /\ InTeardown(r, n)
  BY <1>0, TeardownAt DEF At
<1>2. /\ t.bird = s.bird /\ t.bridges = s.bridges /\ t.tagged = s.tagged
      /\ t.mapped = s.mapped \ s.own /\ t.own = s.own /\ t.router = s.router
      /\ t.table = s.table /\ t.plan = s.plan /\ t.switches = s.switches
      /\ t.veths = s.veths /\ t.ports = s.ports /\ t.conf = s.conf
  BY <1>0 DEF NodeState
<1> HIDE DEF t
<1>3. \/ /\ work'[r][n].at = "delOwn" /\ work'[r][n].undo = w.undo
         /\ node'[n] = t /\ work'[r][n].alone = w.alone
      \/ /\ node'[n] = s /\ ~work'[r][n].alone
         /\ work'[r][n].at \in {"delOwn", "done"}
  <2>1. CASE Teardown(r, n, "delMaps", "delOwn", t)
    BY <2>1, TeardownMoves DEF Tears
  <2>2. CASE node' = node /\ work'[r][n].at = "done" /\ ~work'[r][n].alone
    BY <2>2
  <2> QED BY <2>1, <2>2, DeleteMappingsMoves DEF t
<1>4. CASE /\ node'[n] = s /\ ~work'[r][n].alone
           /\ work'[r][n].at \in {"delOwn", "done"}
  <2>1. work'[r][n].at \in TeardownStep \cup {"done"}
    BY <1>4 DEF TeardownStep
  <2> QED BY <1>0, <1>1, <1>4, <2>1, FailedKept
<1>5. CASE /\ work'[r][n].at = "delOwn" /\ work'[r][n].undo = w.undo
           /\ node'[n] = t /\ work'[r][n].alone = w.alone
  <2>1. \A b \in t.mapped \cap Bridge : <<n, "mapping", b>> \in orphaned
    BY <1>2 DEF NodeKept, Remnants
  <2>2. s.bridges \ UserBridge \subseteq s.tagged
    BY DEF NodeKept, Remnants
  <2>3. Remnants(n)' /\ AsnKept(n)'
    BY <1>0, <1>1, <1>2, <1>5, <2>1, <2>2, TeardownFrame, LeftBehind
  <2>4. w.alone => Undone(r, n)'
    BY <1>0, <1>1, <1>2, <1>5, UndoneSoFar DEF Undone, ToSwitches
  <2>5. InTeardown(r, n)'
    BY <1>5 DEF InTeardown, TeardownStep
  <2> QED BY <1>5, <2>3, <2>4, <2>5 DEF TearsDown
<1> QED BY <1>3, <1>4, <1>5

\* What MicroOVN then does not know to be its own is orphaned.
LEMMA DeleteOwnKept ==
  ASSUME TypeOK, NEW r \in Req, NEW n \in Node, NodeKept(n), TeardownActs(r, n),
         ~TornDown(r, n), DeleteOwn(r, n)
  PROVE  Remnants(n)' /\ AsnKept(n)' /\ TearsDown(r, n)
<1> DEFINE w == work[r][n]
           s == node[n]
           stay == s.mapped \cap Bridge
           t == [s EXCEPT !.own = {}]
<1>0. s \in NodeState
  BY DEF TypeOK
<1>1. /\ Teardown(r, n, "delOwn", "resetConf", t)
      /\ orphaned' = IF node'[n].own = {}
                     THEN orphaned \cup {<<n, "mapping", b>> : b \in stay} ELSE orphaned
  BY DEF DeleteOwn
<1>2. /\ t.bird = s.bird /\ t.bridges = s.bridges /\ t.tagged = s.tagged
      /\ t.mapped = s.mapped /\ t.own = {} /\ t.router = s.router
      /\ t.table = s.table /\ t.plan = s.plan /\ t.switches = s.switches
      /\ t.veths = s.veths /\ t.ports = s.ports /\ t.conf = s.conf
  BY <1>0 DEF NodeState
<1> HIDE DEF t
<1>3. /\ w.at = "delOwn" /\ work'[r][n].at = "resetConf" /\ work'[r][n].undo = w.undo
      /\ \/ node'[n] = t /\ work'[r][n].alone = w.alone
         \/ node'[n] = s /\ ~work'[r][n].alone
  BY <1>1, TeardownMoves DEF Tears
<1>4. ~At(r, n, "delVeth") /\ InTeardown(r, n)' /\ InTeardown(r, n)
  BY <1>3 DEF At, InTeardown, TeardownStep
<1>5. orphaned \subseteq orphaned'
  BY <1>1
<1>6. CASE node'[n] = s /\ ~work'[r][n].alone
  BY <1>3, <1>4, <1>5, <1>6, FailedKept DEF InTeardown
<1>7. CASE node'[n] = t /\ work'[r][n].alone = w.alone
  <2>1. \A b \in t.mapped \cap Bridge : <<n, "mapping", b>> \in orphaned'
    <3>1. orphaned' = orphaned \cup {<<n, "mapping", b>> : b \in stay}
      BY <1>1, <1>2, <1>7
    <3> QED BY <1>2, <3>1
  <2>2. s.bridges \ UserBridge \subseteq s.tagged
    BY DEF NodeKept, Remnants
  <2>3. Remnants(n)' /\ AsnKept(n)'
    BY <1>2, <1>4, <1>5, <1>7, <2>1, <2>2, TeardownFrame, LeftBehind
  <2>4. w.alone => Undone(r, n)'
    BY <1>2, <1>3, <1>4, <1>5, <1>7, UndoneSoFar DEF Undone, ToSwitches
  <2> QED BY <1>3, <1>4, <1>7, <2>3, <2>4 DEF TearsDown
<1> QED BY <1>3, <1>6, <1>7

\* A step of the teardown keeps what its node has.
LEMMA TeardownActsKept ==
  ASSUME TypeOK, NEW r \in Req, NEW n \in Node, NodeKept(n), TeardownActs(r, n),
         ~TornDown(r, n)
  PROVE  NodeKept(n)'
<1>1. InTeardown(r, n) /\ Works(r, n) /\ (n \in confirmed' <=> n \in confirmed)
  BY TeardownAt, TeardownFrame DEF Works
<1>2. Remnants(n)' /\ AsnKept(n)' /\ TearsDown(r, n)
  <2>1. CASE StopBird(r, n)
    BY <2>1, StopBirdKept
  <2>2. CASE DeleteRouter(r, n)
    BY <2>2, DeleteRouterKept
  <2>3. CASE MovePlan(r, n)
    BY <2>3, MovePlanKept
  <2>4. CASE DeleteVeths(r, n)
    BY <2>4, DeleteVethsKept
  <2>5. CASE DeleteSwitches(r, n)
    BY <2>5, DeleteSwitchesKept
  <2>6. CASE DeleteBridges(r, n)
    BY <2>6, DeleteBridgesKept
  <2>7. CASE DeletePorts(r, n)
    BY <2>7, DeletePortsKept
  <2>8. CASE DeleteMappings(r, n)
    BY <2>8, DeleteMappingsKept
  <2>9. CASE DeleteOwn(r, n)
    BY <2>9, DeleteOwnKept
  <2>10. CASE ResetConf(r, n)
    BY <2>10, ResetConfKept
  <2> QED BY <2>1, <2>2, <2>3, <2>4, <2>5, <2>6, <2>7, <2>8, <2>9, <2>10 DEF TeardownActs
<1> QED BY <1>1, <1>2, TeardownKept DEF TearsDown

---------------------------------------------------------------------------
(* The other steps.                                                        *)

\* What a node has, as far as the handlers do not matter, stays if the node does.
LEMMA NodeStays ==
  ASSUME NEW n \in Node, node'[n] = node[n], orphaned \subseteq orphaned',
         n \in struck => n \in struck'
  PROVE  /\ AsnKept(n) => AsnKept(n)'
         /\ Base(n) => Base(n)'
         /\ Full(n) => Full(n)'
         /\ TornDownState(n) => TornDownState(n)'
<1>1. AsnKept(n) => AsnKept(n)'
  BY DEF AsnKept, Asn
<1>2. Base(n) => Base(n)'
  BY DEF Base
<1>3. Full(n) => Full(n)'
  BY DEF Full, Agrees
<1>4. TornDownState(n) => TornDownState(n)'
  BY DEF TornDownState
<1> QED BY <1>1, <1>2, <1>3, <1>4

\* A step of a handler that leaves the node as it is, and does not come from the
\* deletion of devices, leaves nothing behind.
LEMMA NothingBehind ==
  ASSUME NEW r \in Req, NEW n \in Node, Remnants(n), node'[n] = node[n],
         orphaned' = orphaned, ~At(r, n, "delVeth"),
         \A q \in Req : q # r => work'[q][n].at = work[q][n].at
                                 /\ work'[q][n].left = work[q][n].left
  PROVE  Remnants(n)'
BY DEF Remnants, At

\* Of a node that was disturbed little is claimed.
LEMMA Disturbed ==
  ASSUME NEW n \in Node, Remnants(n)', AsnKept(n)', n \in dirty',
         \A q \in Req : Busy(q, n)' => ~work'[q][n].alone
  PROVE  NodeKept(n)'
<1>1. \A q \in Req : InTeardown(q, n)' => ~work'[q][n].alone
  BY BusyAtNext
<1>2. Exclusive(n)' /\ Rowed(n)' /\ RollbackClean(n)'
  BY <1>1 DEF Exclusive, Rowed, RollbackClean
<1>3. TeardownClean(n)' /\ SetupClean(n)' /\ Rests(n)'
  BY <1>1 DEF TeardownClean, SetupClean, Rests
<1> QED BY <1>2, <1>3 DEF NodeKept

\* Handlers that were disturbed are where they were.
LEMMA DisturbedAt ==
  ASSUME TypeOK, NEW q \in Req, NEW n \in Node,
         \/ ~Busy(q, n) /\ work'[q][n] = work[q][n]
         \/ Busy(q, n) /\ work'[q][n] = [work[q][n] EXCEPT !.alone = FALSE]
  PROVE  /\ work'[q][n].at = work[q][n].at /\ work'[q][n].left = work[q][n].left
         /\ Busy(q, n)' => ~work'[q][n].alone
<1>1. work[q][n] \in Handler
  BY DEF TypeOK
<1> QED BY <1>1 DEF Handler, Busy

\* Before its row is made or deleted a handler does nothing on the system.
LEMMA ReadPassive ==
  ASSUME TypeOK, NEW r \in Req, NEW n \in Node,
         Visit(r, n) \/ Lost(r, n) \/ ReadConf(r, n) \/ Check(r, n) \/ CreateRow(r, n)
  PROVE  Passive(n)
<1> DEFINE w == work[r][n]
<1>1. /\ w \in Handler
      /\ \A next : Step(r, n, next) =>
           /\ work'[r][n] = next
           /\ \A q \in Req : q # r => work'[q][n] = work[q][n]
  BY DEF TypeOK, Step
<1>2. /\ UNCHANGED <<node, dirty, confirmed, struck, orphaned>>
      /\ w.at \in {"none", "readIface", "readBridge", "check", "row"}
  BY DEF Visit, Lost, ReadConf, Check, CreateRow, MayVisit, At, ghosts
<1>3. /\ work'[r][n].at \in {"none", "readIface", "readBridge", "check", "row", "env"}
      /\ \A q \in Req : q # r => work'[q][n] = work[q][n]
  <2>1. CASE Visit(r, n)
    <3>1. PICK b : Step(r, n, [NoWork EXCEPT
              !.at = IF ask[r].op = "setup" THEN "readIface" ELSE "check",
              !.opts = IF ask[r].op = "tags"
                       THEN [NoOptions EXCEPT !.bridges = {b}, !.given = TRUE]
                       ELSE ask[r].opts])
      BY <2>1 DEF Visit
    <3>2. /\ work'[r][n] = [NoWork EXCEPT
              !.at = IF ask[r].op = "setup" THEN "readIface" ELSE "check",
              !.opts = IF ask[r].op = "tags"
                       THEN [NoOptions EXCEPT !.bridges = {b}, !.given = TRUE]
                       ELSE ask[r].opts]
          /\ \A q \in Req : q # r => work'[q][n] = work[q][n]
      BY <1>1, <3>1
    <3>3. work'[r][n].at = IF ask[r].op = "setup" THEN "readIface" ELSE "check"
      BY <3>2 DEF NoWork
    <3> QED BY <3>2, <3>3
  <2>2. CASE Lost(r, n)
    BY <1>2, <2>2 DEF Lost
  <2>3. CASE ReadConf(r, n)
    <3>1. \/ Step(r, n, NoWork)
          \/ Step(r, n, [w EXCEPT !.at = "readBridge", !.opts.ifaces = conf.ifaces])
          \/ Step(r, n, [w EXCEPT !.at = "check", !.opts.bridges = conf.bridges])
      BY <2>3 DEF ReadConf, Return
    <3> DEFINE a == [w EXCEPT !.at = "readBridge", !.opts.ifaces = conf.ifaces]
               b == [w EXCEPT !.at = "check", !.opts.bridges = conf.bridges]
    <3>2. NoWork.at = "none" /\ a.at = "readBridge" /\ b.at = "check"
      BY <1>1 DEF Handler, NoWork
    <3> HIDE DEF a, b
    <3>3. Step(r, n, NoWork) \/ Step(r, n, a) \/ Step(r, n, b)
      BY <3>1 DEF a, b
    <3> QED BY <1>1, <3>2, <3>3
  <2>4. CASE Check(r, n)
    <3>1. Step(r, n, NoWork) \/ Step(r, n, [w EXCEPT !.at = "row"])
      BY <2>4 DEF Check, Return
    <3> QED BY <1>1, <3>1 DEF Handler, NoWork
  <2>5. CASE CreateRow(r, n)
    <3>1. Step(r, n, NoWork) \/ Step(r, n, [w EXCEPT !.at = "env"])
      BY <2>5 DEF CreateRow, Return
    <3> QED BY <1>1, <3>1 DEF Handler, NoWork
  <2> QED BY <2>1, <2>2, <2>3, <2>4, <2>5
<1>4. \/ rows' = rows
      \/ n \in rows' /\ At(r, n, "env")'
  <2>1. CASE CreateRow(r, n)
    <3>1. CASE Step(r, n, [w EXCEPT !.at = "env"]) /\ rows' = rows \cup {n}
      BY <1>1, <3>1 DEF At, Handler
    <3> QED BY <2>1, <3>1 DEF CreateRow
  <2> QED BY <2>1 DEF Visit, Lost, ReadConf, Check
<1>5. ~Busy(r, n) /\ ~At(r, n, "env") /\ ~Busy(r, n)'
  BY <1>2, <1>3 DEF Busy, At, SetupStep, TeardownStep
<1> QED BY <1>2, <1>3, <1>4, <1>5 DEF Passive

\* The row goes, and the teardown begins.
LEMMA DeleteRowKept ==
  ASSUME TypeOK, NEW r \in Req, NEW n \in Node, NodeKept(n), DeleteRow(r, n)
  PROVE  NodeKept(n)'
<1> DEFINE w == work[r][n]
           next == [w EXCEPT !.at = "stop"]
<1>1. UNCHANGED <<node, orphaned, struck>> /\ w.at = "row" /\ w \in Handler
  BY DEF DeleteRow, At, TypeOK
<1>2. CASE Return(r, n) /\ UNCHANGED <<rows, confirmed, dirty>>
  <2>1. work'[r][n] = NoWork /\ \A q \in Req : q # r => work'[q][n] = work[q][n]
    BY <1>2, ReturnStep
  <2>2. ~Busy(r, n) /\ ~At(r, n, "env") /\ ~Busy(r, n)'
    BY <1>1, <2>1 DEF Busy, At, SetupStep, TeardownStep, NoWork
  <2>3. Passive(n)
    BY <1>1, <1>2, <2>1, <2>2 DEF Passive
  <2> QED BY <2>3, PassiveKept
<1>3. CASE /\ rows' = rows \ {n} /\ confirmed' = confirmed \ {n}
           /\ Enter(r, n, next)
  <2>1. next \in Handler /\ next.at = "stop"
    <3>1. "stop" \in StepName
      BY DEF StepName, TeardownStep
    <3>2. next \in Handler
      BY <1>1, <3>1, HandlerChanges
    <3> QED BY <1>1, <3>2 DEF Handler
  <2> HIDE DEF next
  <2>2. /\ work'[r][n].at = "stop"
        /\ \/ /\ \A q \in Req : q # r => ~Busy(q, n) /\ work'[q][n] = work[q][n]
              /\ dirty' = dirty
           \/ /\ ~work'[r][n].alone
              /\ \A q \in Req : q # r =>
                   \/ ~Busy(q, n) /\ work'[q][n] = work[q][n]
                   \/ Busy(q, n) /\ work'[q][n] = [work[q][n] EXCEPT !.alone = FALSE]
              /\ dirty' = dirty \cup {n}
    BY <1>3, <2>1, EnterStep
  <2>3. ~At(r, n, "delVeth")
    BY <1>1 DEF At
  <2>4. CASE /\ \A q \in Req : q # r => ~Busy(q, n) /\ work'[q][n] = work[q][n]
             /\ dirty' = dirty
    <3>1. Remnants(n)' /\ AsnKept(n)'
      BY <1>1, <2>3, <2>4, NothingBehind, NodeStays DEF NodeKept
    <3>2. \A q \in Req : q # r => ~Busy(q, n)'
      BY <2>4, OthersStay
    <3>3. InTeardown(r, n)' /\ Undone(r, n)'
      BY <2>2 DEF InTeardown, TeardownStep, Undone, ToSwitches
    <3>4. \A q \in Req : ~InSetup(q, n)' /\ ~At(q, n, "rollback")'
      BY <3>2, <3>3, BusyAtNext
    <3>5. Exclusive(n)' /\ Rowed(n)' /\ RollbackClean(n)'
      BY <1>3, <3>2, <3>4 DEF Exclusive, Rowed, RollbackClean
    <3>6. TeardownClean(n)' /\ SetupClean(n)' /\ Rests(n)'
      BY <3>2, <3>3, <3>4, BusyAtNext DEF TeardownClean, SetupClean, Rests
    <3> QED BY <3>1, <3>5, <3>6 DEF NodeKept
  <2>5. CASE /\ ~work'[r][n].alone
             /\ \A q \in Req : q # r =>
                  \/ ~Busy(q, n) /\ work'[q][n] = work[q][n]
                  \/ Busy(q, n) /\ work'[q][n] = [work[q][n] EXCEPT !.alone = FALSE]
             /\ dirty' = dirty \cup {n}
    <3>1. Remnants(n)' /\ AsnKept(n)'
      BY <1>1, <2>3, <2>5, DisturbedAt, NothingBehind, NodeStays DEF NodeKept
    <3>2. \A q \in Req : Busy(q, n)' => ~work'[q][n].alone
      BY <2>5, DisturbedAt
    <3> QED BY <2>5, <3>1, <3>2, Disturbed
  <2> QED BY <2>2, <2>4, <2>5
<1> QED BY <1>2, <1>3 DEF DeleteRow

\* The setup begins, or the handler ends without it.
LEMMA GenerateEnvironmentKept ==
  ASSUME TypeOK, RequestsKept, NEW r \in Req, NEW n \in Node, NodeKept(n),
         GenerateEnvironment(r, n)
  PROVE  NodeKept(n)'
<1> DEFINE w == work[r][n]
           next == [w EXCEPT !.at = "start"]
<1>1. /\ UNCHANGED <<rows, node, orphaned, struck, confirmed>>
      /\ w.at = "env" /\ w \in Handler
  BY DEF GenerateEnvironment, At, TypeOK
<1>2. ~At(r, n, "delVeth") /\ ~Busy(r, n) /\ ~Disables(r)
  BY <1>1, BusyAt DEF At, RequestsKept, OptionsValid, OptionsOf
<1>3. CASE Enter(r, n, next)
  <2>1. next \in Handler /\ next.at = "start"
    <3>1. "start" \in StepName
      BY DEF StepName, SetupStep
    <3>2. next \in Handler
      BY <1>1, <3>1, HandlerChanges
    <3> QED BY <1>1, <3>2 DEF Handler
  <2> HIDE DEF next
  <2>2. /\ work'[r][n].at = "start"
        /\ \/ /\ \A q \in Req : q # r => ~Busy(q, n) /\ work'[q][n] = work[q][n]
              /\ n \in rows /\ dirty' = dirty
           \/ /\ ~work'[r][n].alone
              /\ \A q \in Req : q # r =>
                   \/ ~Busy(q, n) /\ work'[q][n] = work[q][n]
                   \/ Busy(q, n) /\ work'[q][n] = [work[q][n] EXCEPT !.alone = FALSE]
              /\ dirty' = dirty \cup {n}
    BY <1>2, <1>3, <2>1, EnterStep
  <2>3. CASE /\ \A q \in Req : q # r => ~Busy(q, n) /\ work'[q][n] = work[q][n]
             /\ n \in rows /\ dirty' = dirty
    <3>1. Remnants(n)' /\ AsnKept(n)'
      BY <1>1, <1>2, <2>3, NothingBehind, NodeStays DEF NodeKept
    <3>2. \A q \in Req : q # r => ~Busy(q, n)'
      BY <2>3, OthersStay
    <3>3. InSetup(r, n)'
      BY <2>2 DEF InSetup, SetupStep
    <3>4. \A q \in Req : ~InTeardown(q, n)' /\ ~At(q, n, "rollback")'
      BY <3>2, <3>3, BusyAtNext
    <3>5. Exclusive(n)' /\ Rowed(n)' /\ RollbackClean(n)'
      BY <1>1, <2>3, <3>2, <3>4 DEF Exclusive, Rowed, RollbackClean
    <3>6. n \notin dirty => Base(n) \/ Full(n)
      BY <1>2, <2>3 DEF NodeKept, Rests
    <3>7. n \notin dirty => SetUp(r, n)'
      BY <1>1, <2>2, <3>6, NodeStays DEF SetUp
    <3>8. TeardownClean(n)' /\ SetupClean(n)' /\ Rests(n)'
      BY <2>3, <3>2, <3>3, <3>4, <3>7, BusyAtNext DEF TeardownClean, SetupClean, Rests
    <3> QED BY <3>1, <3>5, <3>8 DEF NodeKept
  <2>4. CASE /\ ~work'[r][n].alone
             /\ \A q \in Req : q # r =>
                  \/ ~Busy(q, n) /\ work'[q][n] = work[q][n]
                  \/ Busy(q, n) /\ work'[q][n] = [work[q][n] EXCEPT !.alone = FALSE]
             /\ dirty' = dirty \cup {n}
    <3>1. Remnants(n)' /\ AsnKept(n)'
      BY <1>1, <1>2, <2>4, DisturbedAt, NothingBehind, NodeStays DEF NodeKept
    <3>2. \A q \in Req : Busy(q, n)' => ~work'[q][n].alone
      BY <2>4, DisturbedAt
    <3> QED BY <2>4, <3>1, <3>2, Disturbed
  <2> QED BY <2>2, <2>3, <2>4
<1>4. CASE Spoil(r, n, NoWork)
  <2>1. /\ work'[r][n] = NoWork
        /\ \A q \in Req : q # r =>
             \/ ~Busy(q, n) /\ work'[q][n] = work[q][n]
             \/ Busy(q, n) /\ work'[q][n] = [work[q][n] EXCEPT !.alone = FALSE]
        /\ dirty' = dirty \cup {n}
    BY <1>4, NoWorkType, SpoilStep
  <2>2. Remnants(n)' /\ AsnKept(n)'
    BY <1>1, <1>2, <2>1, DisturbedAt, NothingBehind, NodeStays DEF NodeKept
  <2>3. ~Busy(r, n)'
    BY <2>1 DEF Busy, NoWork, SetupStep, TeardownStep
  <2>4. \A q \in Req : Busy(q, n)' => ~work'[q][n].alone
    BY <2>1, <2>3, DisturbedAt
  <2> QED BY <2>1, <2>2, <2>4, Disturbed
<1> QED BY <1>3, <1>4 DEF GenerateEnvironment

\* A failed enable gives its row back.
LEMMA RollbackKept ==
  ASSUME TypeOK, NEW r \in Req, NEW n \in Node, NodeKept(n), Rollback(r, n)
  PROVE  NodeKept(n)'
<1>1. /\ UNCHANGED <<node, orphaned, struck, confirmed>>
      /\ At(r, n, "rollback") /\ Return(r, n)
  BY DEF Rollback
<1>2. /\ work'[r][n] = NoWork
      /\ \A q \in Req : q # r => work'[q][n] = work[q][n]
  BY <1>1, ReturnStep
<1>3. Busy(r, n) /\ ~At(r, n, "delVeth")
  BY <1>1, BusyAt DEF At
<1>4. ~Busy(r, n)'
  BY <1>2 DEF Busy, NoWork, SetupStep, TeardownStep
<1>5. Remnants(n)' /\ AsnKept(n)'
  BY <1>1, <1>2, <1>3, NothingBehind, NodeStays DEF NodeKept
<1>6. CASE n \in dirty'
  <2>1. \A q \in Req : Busy(q, n)' => ~work'[q][n].alone
    BY <1>2, <1>3, <1>4, OthersStay DEF NodeKept, Exclusive
  <2> QED BY <1>5, <1>6, <2>1, Disturbed
<1>7. CASE n \notin dirty'
  <2>1. /\ n \notin dirty /\ n \notin rows'
        /\ \A q \in Req \ {r} : ~Busy(q, n)
    BY <1>7 DEF Rollback
  <2>2. n \notin confirmed /\ TornDownState(n)
    BY <1>1, <2>1 DEF NodeKept, RollbackClean
  <2>3. \A q \in Req : ~Busy(q, n)'
    BY <1>2, <1>4, <2>1, OthersStay
  <2>4. \A q \in Req : ~InSetup(q, n)' /\ ~InTeardown(q, n)' /\ ~At(q, n, "rollback")'
    BY <2>3, BusyAtNext
  <2>5. Exclusive(n)' /\ Rowed(n)' /\ RollbackClean(n)'
    BY <1>1, <2>2, <2>3, <2>4 DEF Exclusive, Rowed, RollbackClean
  <2>6. TeardownClean(n)' /\ SetupClean(n)' /\ Rests(n)'
    BY <1>1, <2>1, <2>2, <2>4, NodeStays DEF TeardownClean, SetupClean, Rests
  <2> QED BY <1>5, <2>5, <2>6 DEF NodeKept
<1> QED BY <1>6, <1>7

\* A teardown that was alone has torn everything down.
LEMMA TornDownKept ==
  ASSUME TypeOK, NEW r \in Req, NEW n \in Node, NodeKept(n), TornDown(r, n)
  PROVE  NodeKept(n)'
<1> DEFINE w == work[r][n]
<1>1. /\ UNCHANGED <<rows, node, orphaned, struck>> /\ w.at = "done" /\ w \in Handler
      /\ dirty' = IF w.alone THEN dirty \ {n} ELSE dirty \cup {n}
      /\ confirmed' = IF w.alone THEN confirmed \ {n} ELSE confirmed
  BY DEF TornDown, At, TypeOK
<1>2. /\ \A q \in Req : q # r => work'[q][n] = work[q][n]
      /\ \/ w.undo /\ work'[r][n].at = "rollback" /\ work'[r][n].alone = w.alone
         \/ ~w.undo /\ work'[r][n] = NoWork
  <2>1. CASE w.undo /\ Step(r, n, [w EXCEPT !.at = "rollback"])
    <3>1. /\ work'[r][n] = [w EXCEPT !.at = "rollback"]
          /\ \A q \in Req : q # r => work'[q][n] = work[q][n]
      BY <2>1 DEF Step, TypeOK
    <3> QED BY <1>1, <2>1, <3>1 DEF Handler
  <2>2. CASE ~w.undo /\ Return(r, n)
    BY <2>2, ReturnStep
  <2> QED BY <2>1, <2>2 DEF TornDown
<1>3. InTeardown(r, n) /\ Busy(r, n) /\ ~At(r, n, "delVeth")
  BY <1>1, BusyAt DEF InTeardown, At
<1>4. Remnants(n)' /\ AsnKept(n)'
  BY <1>1, <1>2, <1>3, NothingBehind, NodeStays DEF NodeKept
<1>5. CASE ~w.alone
  <2>1. NoWork.at = "none"
    BY DEF NoWork
  <2>2. Busy(r, n)' => ~work'[r][n].alone
    BY <1>2, <1>5, <2>1 DEF Busy, SetupStep, TeardownStep
  <2>3. \A q \in Req : Busy(q, n)' => ~work'[q][n].alone
    BY <1>2, <1>3, <2>2, OthersStay DEF NodeKept, Exclusive
  <2> QED BY <1>1, <1>4, <1>5, <2>3, Disturbed
<1>6. CASE w.alone
  <2>1. Undone(r, n) /\ \A q \in Req : q # r => ~Busy(q, n)
    BY <1>3, <1>6, UndoneSoFar
  <2>2. TornDownState(n)
    <3>1. \A b \in node[n].mapped \cap Bridge :
            b \in node[n].own \/ <<n, "mapping", b>> \in orphaned
      BY DEF NodeKept, Remnants
    <3> QED BY <1>1, <2>1, <3>1 DEF Undone, ToSwitches, TornDownState
  <2>3. Base(n)
    BY <2>2 DEF Base, TornDownState
  <2>4. n \notin dirty' /\ n \notin confirmed'
    BY <1>1, <1>6
  <2>5. \A q \in Req : q # r => ~Busy(q, n)'
    BY <1>2, <2>1, OthersStay
  <2>6. ~InSetup(r, n)' /\ ~InTeardown(r, n)'
    BY <1>2 DEF NoWork, InSetup, InTeardown, SetupStep, TeardownStep
  <2>7. \A q \in Req : ~InSetup(q, n)' /\ ~InTeardown(q, n)'
    BY <2>5, <2>6, BusyAtNext
  <2>8. Base(n)' /\ TornDownState(n)'
    BY <1>1, <2>2, <2>3, NodeStays
  <2>9. Exclusive(n)' /\ Rowed(n)' /\ RollbackClean(n)'
    BY <2>4, <2>5, <2>7, <2>8 DEF Exclusive, Rowed, RollbackClean
  <2>10. Rests(n)'
    <3> SUFFICES ASSUME ~Busy(r, n)', n \in rows
                 PROVE  \E q \in Req : At(q, n, "env")'
      BY <1>1, <2>8 DEF Rests
    <3>1. ~w.undo
      BY <1>2, BusyAtNext DEF At
    <3>2. PICK q \in Req : At(q, n, "env")
      BY <1>3, <1>6, <3>1 DEF NodeKept, Rowed
    <3>3. q # r
      BY <1>1, <3>2 DEF At
    <3> QED BY <1>2, <3>2, <3>3 DEF At
  <2>11. TeardownClean(n)' /\ SetupClean(n)'
    BY <2>7 DEF TeardownClean, SetupClean
  <2> QED BY <1>4, <2>9, <2>10, <2>11 DEF NodeKept
<1> QED BY <1>5, <1>6

\* A crash ends all handlers of its node; the devices that were being deleted are
\* orphaned.
LEMMA CrashKept ==
  ASSUME TypeOK, NEW n \in Node, NodeKept(n), Crash(n)
  PROVE  NodeKept(n)'
<1>1. /\ UNCHANGED <<rows, node, struck, confirmed>>
      /\ \A q \in Req : work'[q][n] = NoWork
      /\ dirty \subseteq dirty' /\ orphaned \subseteq orphaned'
  <2>1. work' = [q \in Req |-> [work[q] EXCEPT ![n] = NoWork]]
    BY DEF Crash
  <2>2. \A q \in Req : work[q] \in [Node -> Handler]
    BY DEF TypeOK
  <2>3. \A q \in Req : work'[q][n] = NoWork
    BY <2>1, <2>2
  <2> QED BY <2>3 DEF Crash
<1>2. \A q \in Req : At(q, n, "delVeth") =>
        \A b \in node[n].veths \cap work[q][n].left : <<n, "veth", b>> \in orphaned'
  <2> SUFFICES ASSUME NEW p \in Req, At(p, n, "delVeth"),
                      NEW b \in node[n].veths \cap work[p][n].left
               PROVE  <<n, "veth", b>> \in orphaned'
    OBVIOUS
  <2>1. b \in UNION {node[n].veths \cap work[r][n].left :
                     r \in {q \in Req : At(q, n, "delVeth")}}
    OBVIOUS
  <2> QED BY <2>1 DEF Crash
<1>3. n \notin dirty' => \A q \in Req : ~Busy(q, n) /\ ~At(q, n, "env")
  BY DEF Crash
<1>4. \A q \in Req : ~Busy(q, n)'
  BY <1>1 DEF Busy, NoWork, SetupStep, TeardownStep
<1>5. \A q \in Req : ~InSetup(q, n)' /\ ~InTeardown(q, n)' /\ ~At(q, n, "rollback")'
  BY <1>4, BusyAtNext
<1>6. Remnants(n)'
  BY <1>1, <1>2 DEF NodeKept, Remnants
<1>7. AsnKept(n)'
  BY <1>1, NodeStays DEF NodeKept
<1>8. Exclusive(n)' /\ Rowed(n)' /\ RollbackClean(n)'
  BY <1>1, <1>4, <1>5 DEF NodeKept, Exclusive, Rowed, RollbackClean
<1>9. TeardownClean(n)' /\ SetupClean(n)'
  BY <1>5 DEF TeardownClean, SetupClean
<1>10. Rests(n)'
  BY <1>1, <1>3, NodeStays DEF NodeKept, Rests
<1> QED BY <1>6, <1>7, <1>8, <1>9, <1>10 DEF NodeKept

\* A crash does nothing on other nodes.
LEMMA CrashPassive ==
  ASSUME TypeOK, NEW n \in Node, NEW m \in Node, m # n, Crash(n)
  PROVE  Passive(m)
<1>1. \A q \in Req : work'[q][m] = work[q][m]
  BY DEF Crash, TypeOK
<1>2. /\ UNCHANGED <<rows, node, struck, confirmed>>
      /\ m \in dirty' <=> m \in dirty
  BY DEF Crash
<1>3. \A k \in {"veth", "mapping"}, b \in Bridge :
        <<m, k, b>> \in orphaned' <=> <<m, k, b>> \in orphaned
  BY DEF Crash
<1> QED BY <1>1, <1>2, <1>3 DEF Passive

\* Requests do nothing on nodes themselves.
LEMMA RequestPassive ==
  ASSUME NEW n \in Node, UNCHANGED <<rows, node, work, ghosts>>
  PROVE  Passive(n)
BY DEF Passive, ghosts

\* Their steps leave the nodes alone.
LEMMA RequestLeaves ==
  ASSUME NEW r \in Req,
         \/ Issue(r) \/ RequestStep(r) \/ Cancel(r, Node)
         \/ \E n \in Node : Cancel(r, {n})
  PROVE  UNCHANGED <<rows, node, work, ghosts>>
BY DEF Issue, RequestStep, StoreFlag, StoreLink, Probe, End, Cancel

\* A step of a handler is one for its own node, ...
LEMMA HandlerKept ==
  ASSUME TypeOK, RequestsKept, NEW r \in Req, NEW n \in Node, NodeKept(n),
         HandlerStep(r, n)
  PROVE  NodeKept(n)'
<1>1. CASE Visit(r, n) \/ Lost(r, n) \/ ReadConf(r, n) \/ Check(r, n) \/ CreateRow(r, n)
  BY <1>1, ReadPassive, PassiveKept
<1>2. CASE TeardownActs(r, n)
  BY <1>2, TeardownActsKept, TornDownKept
<1> QED BY <1>1, <1>2, DeleteRowKept, GenerateEnvironmentKept, RollbackKept, SetupActsKept
        DEF HandlerStep

\* ... and passive for the others.
LEMMA HandlerPassive ==
  ASSUME TypeOK, NEW r \in Req, NEW n \in Node, NEW m \in Node, m # n, HandlerStep(r, n)
  PROVE  Passive(m)
BY HandlerLeaves, SMTT(30) DEF HandlerFrame, Untouched, Passive

---------------------------------------------------------------------------
(* The invariant and what follows from it.                                 *)

BgpInv == TypeOK /\ RequestsKept /\ \A n \in Node : NodeKept(n)

\* Every node begins with what its users made.
LEMMA InitKept == Init => \A n \in Node : NodeKept(n)
<1> SUFFICES ASSUME Init, NEW n \in Node PROVE NodeKept(n)
  OBVIOUS
<1>1. PICK maps \in SUBSET {UserMapping} : node[n] = Bare(maps)
  BY DEF Init
<1>2. /\ ~node[n].bird /\ ~node[n].router /\ node[n].table = None
      /\ node[n].bridges = UserBridge /\ node[n].tagged = {} /\ node[n].own = {}
      /\ node[n].mapped = maps /\ node[n].switches = {} /\ node[n].plan = NoPlan
      /\ node[n].veths = {} /\ node[n].ports = {} /\ node[n].conf = DefaultBird
  BY <1>1 DEF Bare
<1>3. /\ \A q \in Req : work[q][n].at = "none"
      /\ rows = {} /\ confirmed = {}
  BY DEF Init, NoWork
<1>4. \A q \in Req : ~Busy(q, n)
  BY <1>3 DEF Busy, SetupStep, TeardownStep
<1>5. \A q \in Req : ~InSetup(q, n) /\ ~InTeardown(q, n) /\ ~At(q, n, "rollback")
  BY <1>4, BusyAt
<1>6. node[n].mapped \cap Bridge = {}
  BY <1>2, InstanceAssumption DEF Bridge, Ext
<1>7. Remnants(n) /\ AsnKept(n) /\ TornDownState(n)
  BY <1>2, <1>6 DEF Remnants, AsnKept, TornDownState
<1>8. Exclusive(n) /\ Rowed(n) /\ RollbackClean(n)
  BY <1>3, <1>4, <1>5 DEF Exclusive, Rowed, RollbackClean
<1>9. TeardownClean(n) /\ SetupClean(n) /\ Rests(n)
  BY <1>3, <1>5, <1>7 DEF TeardownClean, SetupClean, Rests
<1> QED BY <1>7, <1>8, <1>9 DEF NodeKept

\* No step changes that.
LEMMA NextKept == BgpInv /\ [Next]_vars => BgpInv'
<1> SUFFICES ASSUME BgpInv, [Next]_vars PROVE BgpInv'
  OBVIOUS
<1>1. TypeOK' /\ RequestsKept'
  BY NextType, NextRequests DEF BgpInv
<1>2. ASSUME NEW m \in Node PROVE NodeKept(m)'
  <2>1. TypeOK /\ RequestsKept /\ NodeKept(m)
    BY DEF BgpInv
  <2>2. CASE UNCHANGED <<rows, node, work, ghosts>>
    BY <2>1, <2>2, RequestPassive, PassiveKept
  <2>3. ASSUME NEW r \in Req, Issue(r) \/ RequestStep(r) \/ Cancel(r, Node)
        PROVE  NodeKept(m)'
    BY <2>2, <2>3, RequestLeaves
  <2>4. ASSUME NEW r \in Req, NEW n \in Node, HandlerStep(r, n)
        PROVE  NodeKept(m)'
    <3>1. CASE m = n
      BY <2>1, <2>4, <3>1, HandlerKept
    <3>2. CASE m # n
      BY <2>1, <2>4, <3>2, HandlerPassive, PassiveKept
    <3> QED BY <3>1, <3>2
  <2>5. ASSUME NEW r \in Req, NEW n \in Node, Cancel(r, {n})
        PROVE  NodeKept(m)'
    BY <2>2, <2>5, RequestLeaves
  <2>6. ASSUME NEW n \in Node, Crash(n)
        PROVE  NodeKept(m)'
    <3>1. CASE m = n
      BY <2>1, <2>6, <3>1, CrashKept
    <3>2. CASE m # n
      BY <2>1, <2>6, <3>2, CrashPassive, PassiveKept
    <3> QED BY <3>1, <3>2
  <2>7. CASE UNCHANGED vars
    BY <2>2, <2>7 DEF vars
  <2> QED BY <2>3, <2>4, <2>5, <2>6, <2>7 DEF Next, Idle
<1> QED BY <1>1, <1>2 DEF BgpInv

\* The inductive invariant holds in every behaviour.
LEMMA Invariant == Spec => []BgpInv
<1>1. Init => BgpInv
  BY InitType, InitRequests, InitKept DEF BgpInv
<1> QED BY <1>1, NextKept, PTL DEF Spec

\* On a node without the service nothing of it is left once its handlers are
\* done, however often it was enabled, failed or disabled, unless a teardown was
\* cut off or disturbed.
THEOREM NothingIsLeft == Spec => []NothingLeft
<1>1. BgpInv => NothingLeft
  <2> SUFFICES ASSUME BgpInv, NEW n \in Node, Quiet(n), n \notin rows, n \notin dirty
               PROVE  TornDownState(n)
    BY DEF NothingLeft
  <2>1. \A q \in Req : ~Busy(q, n)
    BY DEF Quiet, Busy, SetupStep, TeardownStep
  <2> QED BY <2>1 DEF BgpInv, NodeKept, Rests
<1> QED BY <1>1, Invariant, PTL

\* On a node with the service router, netplan, devices, ports and BIRD agree once
\* its handlers are done, whatever was asked for and failed before.
THEOREM SetupsAgree == Spec => []SetupAgrees
<1>1. BgpInv => SetupAgrees
  <2> SUFFICES ASSUME BgpInv, NEW n \in Node, Quiet(n), n \in rows, n \notin dirty
               PROVE  Agrees(n)
    BY DEF SetupAgrees
  <2>1. \A q \in Req : ~Busy(q, n) /\ ~At(q, n, "env")
    BY DEF Quiet, Busy, At, SetupStep, TeardownStep
  <2>2. Full(n) \/ (Base(n) /\ node[n].bird)
    BY <2>1 DEF BgpInv, NodeKept, Rests
  <2> QED BY <2>2 DEF Full, Base, Agrees
<1> QED BY <1>1, Invariant, PTL

\* A node that was enabled keeps its row until somebody disables the service.
THEOREM ConfirmedStay == Spec => []ConfirmedStays
<1>1. BgpInv => ConfirmedStays
  BY DEF BgpInv, TypeOK, NodeKept, Rowed, ConfirmedStays
<1> QED BY <1>1, Invariant, PTL

\* Nodes whose member ids do not exceed the size of the range have different AS
\* numbers, for every range and every cluster.
THEOREM AsnsUnique == Spec => []AsnUnique
<1>1. BgpInv => AsnUnique
  <2> SUFFICES ASSUME BgpInv, \A n \in Node : MemberId[n] <= MaxAsn - MinAsn + 1,
                      NEW n \in Node, NEW m \in Node, n # m,
                      node[n].conf # DefaultBird, node[m].conf # DefaultBird
               PROVE  node[n].conf.asn # node[m].conf.asn
    BY DEF AsnUnique
  <2>1. node[n].conf.asn = Asn(n) /\ node[m].conf.asn = Asn(m)
    BY DEF BgpInv, NodeKept, AsnKept
  <2> QED BY <2>1, AsnInjective
<1> QED BY <1>1, Invariant, PTL
=============================================================================
