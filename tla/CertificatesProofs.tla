------------------------ MODULE CertificatesProofs ------------------------
(***************************************************************************)
(* The CA file and the certificates of every node follow the CA in the     *)
(* table: for every cluster, set of CAs, number of requests in flight and  *)
(* of faults.                                                              *)
(*                                                                         *)
(* The argument: a new CA makes the request that stored it owe every file  *)
(* of every node a write.  A handler keeps its debts until it has read the *)
(* CA for a file; then it either writes the CA of the table, or the CA has *)
(* changed meanwhile and the file counts as overwritten.  Every early      *)
(* return counts the files that it leaves as lapsed.                       *)
(*                                                                         *)
(* A certificate and its key are two files.  Both belong to the request    *)
(* whose handler truncated them last; until it has written the second one  *)
(* nobody else is at them, or they count as collided.                      *)
(***************************************************************************)
EXTENDS Certificates, SequenceTheorems, FiniteSetTheorems, TLAPS

---------------------------------------------------------------------------
(* Operators of the model.                                                 *)

\* The first element of a nonempty set of numbers is an element of it.
LEMMA FirstOfType ==
  ASSUME NEW S, S \subseteq Nat, S # {}
  PROVE  FirstOf(S) \in S
<1> DEFINE T == {0..x : x \in S}
<1>1. T \subseteq FiniteSubsetsOf(Nat) /\ T # {}
  <2>1. \A x \in S : IsFiniteSet(0..x) /\ 0..x \subseteq Nat
    BY FS_Interval
  <2> QED BY <2>1 DEF FiniteSubsetsOf
<1>2. PICK U \in T : \A V \in T : <<V, U>> \notin StrictSubsetOrdering(Nat)
  <2>1. IsWellFoundedOn(StrictSubsetOrdering(Nat), FiniteSubsetsOf(Nat))
    BY FS_StrictSubsetOrderingWellFounded
  <2> HIDE DEF T
  <2> QED BY <1>1, <2>1, WFMin, Zenon
<1>3. PICK x \in S : U = 0..x
  OBVIOUS
<1>4. \A y \in S : x <= y
  <2> SUFFICES ASSUME NEW y \in S, y < x PROVE FALSE
    OBVIOUS
  <2>1. 0..y \in T
    OBVIOUS
  <2>2. 0..y \subseteq 0..x /\ 0..y # 0..x
    <3>1. x \in 0..x /\ x \notin 0..y
      OBVIOUS
    <3> QED BY <3>1
  <2>3. 0..y \in SUBSET Nat /\ 0..x \in SUBSET Nat
    OBVIOUS
  <2>4. <<0..y, 0..x>> \in StrictSubsetOrdering(Nat)
    BY <2>2, <2>3, Zenon DEF StrictSubsetOrdering
  <2> QED BY <1>2, <1>3, <2>1, <2>4
<1> QED BY <1>4 DEF FirstOf

\* There is a first CA, and a first generated one.
LEMMA FirstCa == FirstOf(CA) \in CA /\ FirstOf(Generated) \in Generated
<1>1. CA \subseteq Nat /\ CA # {} /\ Generated \subseteq Nat
  BY CaAssumption DEF CA
<1> QED BY <1>1, FirstOfType, CaAssumption

\* What a service needs, what a node has and what the script looks at are
\* sequences of certificates.
LEMMA CertSequences ==
  /\ CentralCerts \in Seq(Cert)
  /\ \A svc \in {"central", "chassis", "switch"} : JoinCerts(svc) \in Seq(Cert)
  /\ \A n \in Node : enabledOvnServices(n) \in Seq(Cert) /\ enabledOvnServices(n) # <<>>
  /\ \A n \in Node : Listed(n) \in Seq(Cert)
<1>1. <<>> \in Seq(Cert) /\ <<"client">> \in Seq(Cert) /\ <<"ovn-controller">> \in Seq(Cert)
  BY DEF Cert
<1>2. CentralCerts \in Seq(Cert) /\ <<"ovn-northd", "ovnnb", "ovnsb">> \in Seq(Cert)
  BY DEF CentralCerts, Cert
<1>3. \A svc \in {"central", "chassis", "switch"} : JoinCerts(svc) \in Seq(Cert)
  BY <1>1, <1>2 DEF JoinCerts
<1>4. ASSUME NEW n \in Node
      PROVE  enabledOvnServices(n) \in Seq(Cert) /\ enabledOvnServices(n) # <<>>
  <2> DEFINE a == IF Enabled(n, "central") THEN CentralCerts ELSE <<>>
             b == IF Enabled(n, "switch") THEN <<"ovn-controller">> ELSE <<>>
  <2>1. a \in Seq(Cert) /\ b \in Seq(Cert)
    BY <1>1, <1>2
  <2> HIDE DEF a, b
  <2>2. a \o b \in Seq(Cert)
    BY <2>1, ConcatProperties
  <2>3. \A s \in Seq(Cert) : s \o <<"client">> \in Seq(Cert) /\ s \o <<"client">> # <<>>
    BY <1>1, ConcatProperties, ConcatEqualIffEmpty
  <2> QED BY <2>2, <2>3 DEF enabledOvnServices, a, b
<1>5. ASSUME NEW n \in Node PROVE Listed(n) \in Seq(Cert)
  <2> DEFINE a == IF \E svc \in Service : Enabled(n, svc) THEN <<"client">> ELSE <<>>
             b == IF Enabled(n, "chassis") THEN <<"ovn-controller">> ELSE <<>>
             c == IF Enabled(n, "central") THEN <<"ovn-northd", "ovnnb", "ovnsb">> ELSE <<>>
  <2>1. a \in Seq(Cert) /\ b \in Seq(Cert) /\ c \in Seq(Cert)
    BY <1>1, <1>2
  <2> HIDE DEF a, b, c
  <2>2. (a \o b) \in Seq(Cert)
    BY <2>1, ConcatProperties
  <2>3. (a \o b) \o c \in Seq(Cert)
    BY <2>1, <2>2, ConcatProperties
  <2> QED BY <2>3 DEF Listed, a, b, c
<1> QED BY <1>2, <1>3, <1>4, <1>5

\* The elements of a sequence are its head and those of its tail.
LEMMA HeadAndTail ==
  ASSUME NEW s \in Seq(Cert), s # <<>>
  PROVE  /\ Head(s) \in Cert /\ Tail(s) \in Seq(Cert)
         /\ SetOf(s) = {Head(s)} \cup SetOf(Tail(s))
         /\ Len(s) = 1 => SetOf(Tail(s)) = {}
         /\ Len(s) # 1 => Tail(s) # <<>>
<1>1. Head(s) \in Cert /\ Tail(s) \in Seq(Cert) /\ Len(Tail(s)) = Len(s) - 1
  BY HeadTailProperties
<1>2. Len(s) \in Nat \ {0} /\ DOMAIN s = 1..Len(s) /\ DOMAIN Tail(s) = 1..(Len(s) - 1)
  BY <1>1, EmptySeq, LenProperties
<1>3. Head(s) = s[1] /\ \A i \in 1..(Len(s) - 1) : Tail(s)[i] = s[i + 1]
  BY <1>2
<1>4. SetOf(s) = {Head(s)} \cup SetOf(Tail(s))
  <2>1. \A i \in DOMAIN s : s[i] = Head(s) \/ s[i] \in SetOf(Tail(s))
    <3> TAKE i \in DOMAIN s
    <3>1. i = 1 \/ (i - 1 \in 1..(Len(s) - 1) /\ Tail(s)[i - 1] = s[i])
      BY <1>2, <1>3
    <3> QED BY <1>2, <1>3, <3>1 DEF SetOf
  <2>2. \A i \in DOMAIN Tail(s) : Tail(s)[i] \in SetOf(s)
    <3> TAKE i \in DOMAIN Tail(s)
    <3>1. i + 1 \in DOMAIN s /\ Tail(s)[i] = s[i + 1]
      BY <1>2, <1>3
    <3> QED BY <3>1 DEF SetOf
  <2>3. Head(s) \in SetOf(s)
    BY <1>2, <1>3 DEF SetOf
  <2> QED BY <2>1, <2>2, <2>3 DEF SetOf
<1>5. Len(s) = 1 => SetOf(Tail(s)) = {}
  BY <1>2 DEF SetOf
<1>6. Len(s) # 1 => Tail(s) # <<>>
  <2>1. Len(<<>>) = 0
    OBVIOUS
  <2> HAVE Len(s) # 1
  <2>2. Len(Tail(s)) # 0
    BY <1>1, <1>2
  <2> QED BY <2>1, <2>2, Zenon
<1> QED BY <1>1, <1>4, <1>5, <1>6

\* The elements of a sequence of certificates are certificates.
LEMMA SetOfType ==
  ASSUME NEW s \in Seq(Cert)
  PROVE  SetOf(s) \subseteq Cert
BY DEF SetOf

---------------------------------------------------------------------------
(* Steps of requests and handlers, pointwise.                              *)

PcType ==
  {"idle", "store", "visit", "issue", "row", "rollback", "info", "ca", "certs"}

\* A step of one request moves only that request.
LEMMA GotoStep ==
  ASSUME TypeOK, NEW r \in Req, NEW step \in PcType, Goto(r, step)
  PROVE  /\ pc' \in [Req -> PcType]
         /\ pc'[r] = step
         /\ \A q \in Req : q # r => pc'[q] = pc[q]
BY DEF TypeOK, Goto, PcType

\* A step of one handler changes only that handler.
LEMMA WorkStep ==
  ASSUME TypeOK, NEW r \in Req, NEW n \in Node, NEW next \in Handler,
         Step(r, n, next)
  PROVE  /\ work' \in [Req -> [Node -> Handler]]
         /\ work'[r][n] = next
         /\ \A q \in Req, m \in Node : q # r \/ m # n => work'[q][m] = work[q][m]
BY DEF TypeOK, Step

\* A request that changes its own nodes leaves the others theirs.
LEMMA TodoStep ==
  ASSUME TypeOK, NEW r \in Req, NEW N \in SUBSET Node, todo' = [todo EXCEPT ![r] = N]
  PROVE  /\ todo' \in [Req -> SUBSET Node]
         /\ todo'[r] = N
         /\ \A q \in Req : q # r => todo'[q] = todo[q]
BY DEF TypeOK

\* The absence of a handler is a state of a handler.
LEMMA NoWorkType == NoWork \in Handler
BY DEF NoWork, Handler

\* A handler that returns is gone and its node is done.
LEMMA ReturnStep ==
  ASSUME TypeOK, NEW r \in Req, NEW n \in Node, Return(r, n)
  PROVE  /\ work' \in [Req -> [Node -> Handler]]
         /\ work'[r][n] = NoWork
         /\ \A q \in Req, m \in Node : q # r \/ m # n => work'[q][m] = work[q][m]
         /\ todo' \in [Req -> SUBSET Node]
         /\ todo'[r] = todo[r] \ {n}
         /\ \A q \in Req : q # r => todo'[q] = todo[q]
<1>1. Step(r, n, NoWork) /\ todo' = [todo EXCEPT ![r] = @ \ {n}]
  BY DEF Return
<1>2. todo[r] \ {n} \in SUBSET Node /\ todo' = [todo EXCEPT ![r] = todo[r] \ {n}]
  BY <1>1 DEF TypeOK
<1>3. /\ work' \in [Req -> [Node -> Handler]]
      /\ work'[r][n] = NoWork
      /\ \A q \in Req, m \in Node : q # r \/ m # n => work'[q][m] = work[q][m]
  BY <1>1, NoWorkType, WorkStep
<1>4. /\ todo' \in [Req -> SUBSET Node]
      /\ todo'[r] = todo[r] \ {n}
      /\ \A q \in Req : q # r => todo'[q] = todo[q]
  BY <1>2, TodoStep
<1> QED BY <1>3, <1>4

\* After a certificate the handler returns or comes to the next one.
LEMMA OnwardStep ==
  ASSUME TypeOK, NEW r \in Req, NEW n \in Node, work[r][n].left # <<>>, Onward(r, n)
  PROVE  /\ work' \in [Req -> [Node -> Handler]]
         /\ \/ /\ work'[r][n] = NoWork
               /\ todo'[r] = todo[r] \ {n}
               /\ SetOf(Tail(work[r][n].left)) = {}
            \/ /\ work'[r][n] = [at |-> "open", held |-> None,
                                 left |-> Tail(work[r][n].left)]
               /\ Tail(work[r][n].left) # <<>>
               /\ todo'[r] = todo[r]
         /\ \A q \in Req, m \in Node : q # r \/ m # n => work'[q][m] = work[q][m]
         /\ todo' \in [Req -> SUBSET Node]
         /\ \A q \in Req : q # r => todo'[q] = todo[q]
<1>1. work[r][n].left \in Seq(Cert)
  BY DEF TypeOK, Handler
<1>2. CASE Len(work[r][n].left) = 1
  BY <1>1, <1>2, HeadAndTail, ReturnStep DEF Onward
<1>3. CASE Len(work[r][n].left) # 1
  <2> DEFINE next == [at |-> "open", held |-> None, left |-> Tail(work[r][n].left)]
  <2>1. Tail(work[r][n].left) \in Seq(Cert) /\ Tail(work[r][n].left) # <<>>
    BY <1>1, <1>3, HeadAndTail
  <2>2. next \in Handler
    BY <2>1 DEF Handler
  <2>3. Step(r, n, next) /\ todo' = todo
    BY <1>3 DEF Onward
  <2> HIDE DEF next
  <2>4. /\ work' \in [Req -> [Node -> Handler]] /\ work'[r][n] = next
        /\ \A q \in Req, m \in Node : q # r \/ m # n => work'[q][m] = work[q][m]
    BY <2>2, <2>3, WorkStep
  <2>5. todo' \in [Req -> SUBSET Node] /\ \A q \in Req : todo'[q] = todo[q]
    BY <2>3 DEF TypeOK
  <2> QED BY <2>1, <2>4, <2>5 DEF next
<1> QED BY <1>2, <1>3

\* Parts of a handler.
LEMMA HandlerParts ==
  ASSUME TypeOK, NEW r \in Req, NEW n \in Node
  PROVE  /\ work[r][n] \in Handler
         /\ work[r][n].held \in CA \cup {None} /\ work[r][n].left \in Seq(Cert)
BY DEF TypeOK, Handler

\* A handler that goes on to another step.
LEMMA HandlerGoesOn ==
  ASSUME NEW w \in Handler,
         NEW at \in {"dumpRead", "dumpWrite", "list", "open", "sign", "writeCert",
                     "writeKey"},
         NEW held \in CA \cup {None}, NEW left \in Seq(Cert)
  PROVE  /\ [w EXCEPT !.at = at] \in Handler
         /\ [w EXCEPT !.at = at, !.held = held] \in Handler
         /\ [w EXCEPT !.at = at, !.left = left] \in Handler
         /\ [w EXCEPT !.at = at].at = at
         /\ [w EXCEPT !.at = at].held = w.held
         /\ [w EXCEPT !.at = at].left = w.left
         /\ [w EXCEPT !.at = at, !.held = held].at = at
         /\ [w EXCEPT !.at = at, !.held = held].held = held
         /\ [w EXCEPT !.at = at, !.held = held].left = w.left
         /\ [w EXCEPT !.at = at, !.left = left].at = at
         /\ [w EXCEPT !.at = at, !.left = left].left = left
BY DEF Handler

---------------------------------------------------------------------------
(* Types.                                                                  *)

\* An enable is about a service: TypeOK is inductive together with this.
Asked == \A r \in Req : ask[r].op = "enable" => ask[r].svc \in Service

\* The variables begin in their types.
LEMMA InitType == Init => TypeOK
<1> SUFFICES ASSUME Init PROVE TypeOK
  OBVIOUS
<1>1. ca \in CA /\ autoRenew \in BOOLEAN /\ used \subseteq Generated
  BY FirstCa DEF Init, CA
<1>2. services \subseteq Node \X Service /\ old \subseteq CA /\ aged \subseteq Node \X Cert
  <2>1. services \subseteq Node \X Service
    BY InstanceAssumption DEF Init
  <2>2. old \subseteq CA
    BY <1>1 DEF Init
  <2>3. CertsInUse \subseteq Cert
    <3>1. \A svc \in Service : SetOf(JoinCerts(svc)) \subseteq Cert
      BY CertSequences, SetOfType, InstanceAssumption
    <3> QED BY <3>1 DEF CertsInUse, Cert
  <2>4. aged \subseteq Node \X Cert
    BY <2>3 DEF Init
  <2> QED BY <2>1, <2>2, <2>4
<1>3. /\ caFile \in [Node -> CA \cup {None}]
      /\ signer \in [Node -> [Cert -> CA \cup {None}]]
      /\ certKey \in [Node -> [Cert -> Req \cup {NoReq}]]
      /\ keyFile \in [Node -> [Cert -> Req \cup {NoReq}]]
  BY <1>1 DEF Init
<1>4. ask \in [Req -> Ask]
  BY <1>1 DEF Init, Ask, Operation, Cert
<1>5. /\ pc \in [Req -> PcType] /\ todo \in [Req -> SUBSET Node]
      /\ script \in [Req -> Seq(Cert)] /\ alive \in [Req -> SUBSET Node]
      /\ work \in [Req -> [Node -> Handler]]
  BY NoWorkType DEF Init, PcType
<1>6. /\ lapsed \subseteq Place /\ overwritten \subseteq Place /\ collided \subseteq Place
      /\ issued \in 0..MaxIssued /\ faults \in 0..MaxFaults
  BY InstanceAssumption DEF Init
<1> QED BY <1>1, <1>2, <1>3, <1>4, <1>5, <1>6 DEF TypeOK, PcType

\* The faults stay within their bound.
LEMMA FaultType ==
  ASSUME TypeOK, NEW kind, Fault(kind)
  PROVE  faults' \in 0..MaxFaults
BY InstanceAssumption DEF TypeOK, Fault

\* Commands keep the types.
LEMMA IssueType ==
  ASSUME TypeOK, NEW r \in Req, Issue(r)
  PROVE  TypeOK'
<1>1. PICK a \in Ask :
        /\ ask' = [ask EXCEPT ![r] = a]
        /\ Goto(r, FirstStep(a.op))
        /\ todo' = [todo EXCEPT ![r] = IF FirstStep(a.op) = "issue" THEN {a.node} ELSE {}]
  BY DEF Issue
<1>2. ask' \in [Req -> Ask] /\ todo' \in [Req -> SUBSET Node]
  BY <1>1 DEF TypeOK, Ask
<1>3. pc' \in [Req -> PcType]
  <2>1. FirstStep(a.op) \in PcType
    BY DEF FirstStep, PcType
  <2> QED BY <1>1, <2>1, GotoStep
<1>4. alive' \in [Req -> SUBSET Node] /\ issued' \in 0..MaxIssued
  BY InstanceAssumption DEF Issue, TypeOK
<1> QED BY <1>2, <1>3, <1>4 DEF Issue, TypeOK, PcType, table, files, ghosts

\* The timer keeps the types.
LEMMA RenewType ==
  ASSUME TypeOK, NEW r \in Req, NEW n \in Node, Renew(r, n)
  PROVE  TypeOK'
<1>1. ask' \in [Req -> Ask]
  BY FirstCa DEF Renew, TypeOK, Ask, Operation, Cert
<1>2. pc' \in [Req -> PcType]
  BY GotoStep DEF Renew, PcType
<1>3. alive' \in [Req -> SUBSET Node]
  BY DEF Renew, TypeOK
<1> QED BY <1>1, <1>2, <1>3 DEF Renew, TypeOK, PcType, table, files, ghosts

\* The script keeps the types.
LEMMA ScriptType ==
  ASSUME TypeOK, NEW r \in Req, ScriptInfo(r) \/ ScriptCa(r) \/ ScriptCert(r)
  PROVE  TypeOK'
<1>1. CASE ScriptInfo(r)
  <2>1. ask[r].node \in Node
    BY DEF TypeOK, Ask
  <2>2. Listed(ask[r].node) \in Seq(Cert)
    BY <2>1, CertSequences
  <2>3. script' \in [Req -> Seq(Cert)]
    BY <1>1, <2>2 DEF ScriptInfo, TypeOK
  <2>4. pc' \in [Req -> PcType]
    BY <1>1, GotoStep DEF ScriptInfo, PcType
  <2> QED BY <1>1, <2>3, <2>4 DEF ScriptInfo, TypeOK, PcType, table, files, ghosts
<1>2. CASE ScriptCa(r)
  <2>1. pc' \in [Req -> PcType]
    BY <1>2 DEF ScriptCa, Goto, TypeOK, PcType
  <2> QED BY <1>2, <2>1 DEF ScriptCa, TypeOK, PcType, table, files, ghosts
<1>3. CASE ScriptCert(r)
  <2>1. ask[r].node \in Node /\ script[r] \in Seq(Cert)
    BY DEF TypeOK, Ask
  <2>2. pc' \in [Req -> PcType]
    BY <1>3 DEF ScriptCert, Goto, TypeOK, PcType
  <2>3. script[r] # <<>> => Head(script[r]) \in Cert /\ Tail(script[r]) \in Seq(Cert)
    BY <2>1, HeadAndTail
  <2>4. script' \in [Req -> Seq(Cert)]
    BY <1>3, <2>3 DEF ScriptCert, TypeOK
  <2>5. ask' \in [Req -> Ask]
    <3>1. CASE UNCHANGED ask
      BY <3>1 DEF TypeOK
    <3>2. CASE script[r] # <<>> /\ ask' = [ask EXCEPT ![r] = [@ EXCEPT !.cert = Head(script[r])]]
      <4>1. [ask[r] EXCEPT !.cert = Head(script[r])] \in Ask
        <5>1. \A a \in Ask, c \in Cert : [a EXCEPT !.cert = c] \in Ask
          BY DEF Ask
        <5>2. ask[r] \in Ask
          BY DEF TypeOK
        <5> QED BY <2>3, <3>2, <5>1, <5>2
      <4> QED BY <3>2, <4>1 DEF TypeOK
    <3> QED BY <1>3, <3>1, <3>2 DEF ScriptCert
  <2>6. todo' \in [Req -> SUBSET Node] /\ alive' \in [Req -> SUBSET Node]
    <3>1. {ask[r].node} \in SUBSET Node /\ Node \in SUBSET Node
      BY <2>1
    <3>2. todo' = todo \/ todo' = [todo EXCEPT ![r] = {ask[r].node}]
      BY <1>3 DEF ScriptCert
    <3>3. alive' = alive \/ alive' = [alive EXCEPT ![r] = Node]
      BY <1>3 DEF ScriptCert
    <3>4. todo \in [Req -> SUBSET Node] /\ alive \in [Req -> SUBSET Node]
      BY DEF TypeOK
    <3>5. todo' \in [Req -> SUBSET Node]
      BY <3>1, <3>2, <3>4
    <3>6. alive' \in [Req -> SUBSET Node]
      BY <3>1, <3>3, <3>4
    <3> QED BY <3>5, <3>6
  <2> QED BY <1>3, <2>2, <2>4, <2>5, <2>6 DEF ScriptCert, TypeOK, PcType, table, files, ghosts
<1> QED BY <1>1, <1>2, <1>3

\* A new CA is a CA.
LEMMA NewCaType ==
  ASSUME TypeOK, NEW r \in Req
  PROVE  NewCA(r) \subseteq CA /\ (ask[r].op # "set" => NewCA(r) \subseteq Generated)
BY DEF TypeOK, Ask, NewCA, CA

\* Changes of the CA and of services keep the types.
LEMMA CommandType ==
  ASSUME TypeOK, Asked, NEW r \in Req,
         StoreCa(r) \/ ServiceRow(r) \/ Rollback(r) \/ End(r)
  PROVE  TypeOK'
<1>1. ask[r] \in Ask /\ ask[r].node \in Node
  BY DEF TypeOK, Ask
<1>2. CASE StoreCa(r)
  <2>1. pc' \in [Req -> PcType]
    BY <1>2 DEF StoreCa, Goto, TypeOK, PcType
  <2>2. todo' \in [Req -> SUBSET Node]
    <3>1. Notified(r) \in SUBSET Node
      BY <1>1 DEF Notified
    <3>2. todo' = todo \/ todo' = [todo EXCEPT ![r] = Notified(r)]
      BY <1>2 DEF StoreCa
    <3>3. todo \in [Req -> SUBSET Node]
      BY DEF TypeOK
    <3> QED BY <3>1, <3>2, <3>3
  <2>3. ca' \in CA /\ autoRenew' \in BOOLEAN /\ used' \subseteq Generated
    <3>1. CASE UNCHANGED <<ca, autoRenew, used>>
      BY <3>1 DEF TypeOK
    <3>2. CASE \E c \in NewCA(r) :
                 /\ \/ ca' = c /\ autoRenew' = ~(ask[r].op = "set")
                    \/ UNCHANGED <<ca, autoRenew>>
                 /\ used' = IF ask[r].op = "set" THEN used ELSE used \cup {c}
      BY <3>2, NewCaType DEF TypeOK
    <3> QED BY <1>2, <3>1, <3>2 DEF StoreCa
  <2> QED BY <1>2, <2>1, <2>2, <2>3 DEF StoreCa, TypeOK, PcType, table, files, ghosts
<1>3. CASE ServiceRow(r)
  <2>1. pc' \in [Req -> PcType]
    BY <1>3 DEF ServiceRow, Goto, TypeOK, PcType
  <2>2. todo' \in [Req -> SUBSET Node]
    <3>1. {} \in SUBSET Node /\ {ask[r].node} \in SUBSET Node
      BY <1>1
    <3>2. todo' = todo \/ todo' = [todo EXCEPT ![r] = {}]
            \/ todo' = [todo EXCEPT ![r] = {ask[r].node}]
      BY <1>3 DEF ServiceRow
    <3>3. todo \in [Req -> SUBSET Node]
      BY DEF TypeOK
    <3> QED BY <3>1, <3>2, <3>3
  <2>3. services' \subseteq Node \X Service
    <3>1. CASE services' \subseteq services
      BY <3>1 DEF TypeOK
    <3>2. CASE ask[r].svc \in Service /\ services' = services \cup {<<ask[r].node, ask[r].svc>>}
      BY <1>1, <3>2 DEF TypeOK
    <3>3. services' \subseteq services \/ (ask[r].op = "enable"
            /\ services' = services \cup {<<ask[r].node, ask[r].svc>>})
      BY <1>3 DEF ServiceRow
    <3> QED BY <3>1, <3>2, <3>3 DEF Asked
  <2> QED BY <1>3, <2>1, <2>2, <2>3 DEF ServiceRow, TypeOK, PcType, files, ghosts
<1>4. CASE Rollback(r)
  <2>1. pc' \in [Req -> PcType]
    BY <1>4 DEF Rollback, Goto, TypeOK, PcType
  <2>2. services' \subseteq Node \X Service
    BY <1>4 DEF Rollback, TypeOK
  <2> QED BY <1>4, <2>1, <2>2 DEF Rollback, TypeOK, PcType, files, ghosts
<1>5. CASE End(r)
  <2>1. pc' \in [Req -> PcType]
    BY <1>5 DEF End, After, Goto, TypeOK, PcType
  <2> QED BY <1>5, <2>1 DEF End, TypeOK, PcType, table, files, ghosts
<1> QED BY <1>2, <1>3, <1>4, <1>5

\* A handler keeps the types before it issues certificates,
LEMMA VisitType ==
  ASSUME TypeOK, Asked, NEW r \in Req, NEW n \in Node,
         Visit(r, n) \/ Lost(r, n) \/ DumpRead(r, n) \/ DumpWrite(r, n) \/ List(r, n)
  PROVE  TypeOK'
<1> DEFINE w == work[r][n]
<1>1. ask[r] \in Ask /\ w \in Handler /\ NoWork \in Handler /\ w.held \in CA \cup {None}
  BY HandlerParts, NoWorkType DEF TypeOK
<1>2. Files(n) \subseteq Place
  BY DEF Files, Place
<1>3. CASE Visit(r, n)
  <2>1. [NoWork EXCEPT !.at = "dumpRead"] \in Handler
        /\ [NoWork EXCEPT !.at = "list"] \in Handler
    BY NoWorkType DEF Handler
  <2>2. ask[r].op = "enable" => JoinCerts(ask[r].svc) \in Seq(Cert)
    BY CertSequences, InstanceAssumption DEF Asked
  <2>3. ask[r].op = "enable" =>
          [NoWork EXCEPT !.at = "open", !.left = JoinCerts(ask[r].svc)] \in Handler
    BY <2>2, NoWorkType DEF Handler
  <2>4. work' \in [Req -> [Node -> Handler]]
    <3>1. PICK next \in Handler : Step(r, n, next)
      BY <1>3, <2>1, <2>3 DEF Visit
    <3> QED BY <3>1, WorkStep
  <2> QED BY <1>3, <2>4 DEF Visit, TypeOK, table, files, ghosts, flow
<1>4. CASE Lost(r, n)
  <2>1. todo' \in [Req -> SUBSET Node]
    BY <1>4 DEF Lost, TypeOK
  <2>2. lapsed' \subseteq Place
    BY <1>2, <1>4 DEF Lost, TypeOK
  <2>3. faults' \in 0..MaxFaults
    BY <1>4, FaultType DEF Lost, TypeOK
  <2> QED BY <1>4, <2>1, <2>2, <2>3 DEF Lost, TypeOK, table, files
<1>5. CASE DumpRead(r, n)
  <2>1. lapsed' \subseteq Place
    BY <1>2, <1>5 DEF DumpRead, TypeOK
  <2>2. work' \in [Req -> [Node -> Handler]] /\ todo' \in [Req -> SUBSET Node]
    <3>1. CASE Step(r, n, [w EXCEPT !.at = "dumpWrite", !.held = ca]) /\ todo' = todo
      <4>1. ca \in CA \cup {None} /\ <<>> \in Seq(Cert)
        BY DEF TypeOK
      <4>2. [w EXCEPT !.at = "dumpWrite", !.held = ca] \in Handler
        BY <1>1, <4>1 DEF Handler
      <4> HIDE DEF w
      <4> QED BY <3>1, <4>2, WorkStep DEF TypeOK
    <3>2. CASE Return(r, n)
      BY <3>2, ReturnStep
    <3> QED BY <1>5, <3>1, <3>2 DEF DumpRead
  <2> QED BY <1>5, <2>1, <2>2 DEF DumpRead, TypeOK, table, files
<1>6. CASE DumpWrite(r, n)
  <2>1. caFile' \in [Node -> CA \cup {None}]
    BY <1>1, <1>6 DEF DumpWrite, TypeOK
  <2>2. lapsed' \subseteq Place /\ overwritten' \subseteq Place
    BY <1>6 DEF DumpWrite, Written, TypeOK, Place, File
  <2>3. [w EXCEPT !.at = "list", !.held = None] \in Handler
    BY <1>1 DEF Handler
  <2>4. work' \in [Req -> [Node -> Handler]]
    BY <1>6, <2>3, WorkStep DEF DumpWrite
  <2> QED BY <1>6, <2>1, <2>2, <2>4 DEF DumpWrite, TypeOK, table, flow
<1>7. CASE List(r, n)
  <2>1. lapsed' \subseteq Place
    <3>1. {n} \X (UsedFiles(n) \ (SetOf(enabledOvnServices(n)) \cup {"ca"})) \subseteq Place
      BY DEF UsedFiles, Place, File, Cert, SetOf, CentralCerts
    <3> QED BY <1>2, <1>7, <3>1 DEF List, TypeOK
  <2>2. script' \in [Req -> Seq(Cert)]
    <3>1. script' = [script EXCEPT ![r] = <<>>] \/ script' = script
      BY <1>7 DEF List
    <3>2. <<>> \in Seq(Cert) /\ script \in [Req -> Seq(Cert)]
      BY DEF TypeOK
    <3> QED BY <3>1, <3>2
  <2>3. work' \in [Req -> [Node -> Handler]] /\ todo' \in [Req -> SUBSET Node]
    <3>1. CASE Return(r, n)
      BY <3>1, ReturnStep
    <3>2. CASE \E certs \in {<<ask[r].cert>>, enabledOvnServices(n)} :
                 Step(r, n, [w EXCEPT !.at = "open", !.left = certs]) /\ todo' = todo
      <4>1. <<ask[r].cert>> \in Seq(Cert) /\ enabledOvnServices(n) \in Seq(Cert)
        BY <1>1, CertSequences DEF Ask
      <4>2. PICK certs \in Seq(Cert) :
              Step(r, n, [w EXCEPT !.at = "open", !.left = certs]) /\ todo' = todo
        BY <3>2, <4>1
      <4>3. [w EXCEPT !.at = "open", !.left = certs] \in Handler
        BY <1>1 DEF Handler
      <4> QED BY <4>2, <4>3, WorkStep DEF TypeOK
    <3> QED BY <1>7, <3>1, <3>2 DEF List
  <2> QED BY <1>7, <2>1, <2>2, <2>3 DEF List, TypeOK, table, files
<1> QED BY <1>3, <1>4, <1>5, <1>6, <1>7

\* and while it issues them.
LEMMA CertType ==
  ASSUME TypeOK, HandlersConsistent, NEW r \in Req, NEW n \in Node,
         Open(r, n) \/ Sign(r, n) \/ WriteCert(r, n) \/ WriteKey(r, n)
  PROVE  TypeOK'
<1> DEFINE w == work[r][n]
           c == Head(w.left)
<1>1. w \in Handler /\ w.held \in CA \cup {None} /\ w.left \in Seq(Cert)
  BY HandlerParts
<1>2. w.left # <<>>
  BY DEF HandlersConsistent, At, Open, Sign, WriteCert, WriteKey
<1>3. c \in Cert /\ SetOf(w.left) \subseteq Cert
  BY <1>1, <1>2, HeadAndTail, SetOfType
<1>4. CASE Open(r, n)
  <2>1. [w EXCEPT !.at = "sign"] \in Handler
    BY <1>1 DEF Handler
  <2>2. work' \in [Req -> [Node -> Handler]]
    BY <1>4, <2>1, WorkStep DEF Open
  <2>3. signer' \in [Node -> [Cert -> CA \cup {None}]]
    BY <1>4 DEF Open, TypeOK
  <2>4. keyFile' \in [Node -> [Cert -> Req \cup {NoReq}]]
        /\ certKey' \in [Node -> [Cert -> Req \cup {NoReq}]]
    BY <1>4 DEF Open, TypeOK
  <2>5. collided' \subseteq Place
    BY <1>3, <1>4 DEF Open, TypeOK, Place, File
  <2> QED BY <1>4, <2>2, <2>3, <2>4, <2>5 DEF Open, TypeOK, table, flow
<1>5. CASE Sign(r, n)
  <2>1. lapsed' \subseteq Place
    BY <1>3, <1>5 DEF Sign, TypeOK, Place, File
  <2>2. faults' \in 0..MaxFaults
    BY <1>5, FaultType DEF Sign, TypeOK
  <2>3. pc' \in [Req -> PcType]
    BY <1>5, GotoStep DEF Sign, PcType, TypeOK
  <2>4. work' \in [Req -> [Node -> Handler]] /\ todo' \in [Req -> SUBSET Node]
    <3>1. CASE GetCA(r, n) /\ todo' = todo
      <4>1. [w EXCEPT !.at = "writeCert", !.held = ca] \in Handler
        BY <1>1 DEF Handler, TypeOK
      <4> QED BY <3>1, <4>1, WorkStep DEF GetCA, TypeOK
    <3>2. CASE Return(r, n)
      BY <3>2, ReturnStep
    <3>3. CASE Onward(r, n)
      BY <1>2, <3>3, OnwardStep
    <3> QED BY <1>5, <3>1, <3>2, <3>3 DEF Sign
  <2> QED BY <1>5, <2>1, <2>2, <2>3, <2>4 DEF Sign, TypeOK, PcType, table, files
<1>6. CASE WriteCert(r, n)
  <2>1. [w EXCEPT !.at = "writeKey", !.held = None] \in Handler
    BY <1>1 DEF Handler
  <2>2. work' \in [Req -> [Node -> Handler]]
    BY <1>6, <2>1, WorkStep DEF WriteCert
  <2>3. signer' \in [Node -> [Cert -> CA \cup {None}]]
    BY <1>1, <1>6 DEF WriteCert, TypeOK
  <2>4. certKey' \in [Node -> [Cert -> Req \cup {NoReq}]]
    BY <1>6 DEF WriteCert, TypeOK
  <2>5. lapsed' \subseteq Place /\ overwritten' \subseteq Place
    BY <1>3, <1>6 DEF WriteCert, Written, TypeOK, Place, File
  <2>6. aged' \subseteq Node \X Cert
    BY <1>6 DEF WriteCert, TypeOK
  <2> QED BY <1>6, <2>2, <2>3, <2>4, <2>5, <2>6 DEF WriteCert, TypeOK, table, flow
<1>7. CASE WriteKey(r, n)
  <2>1. keyFile' \in [Node -> [Cert -> Req \cup {NoReq}]]
    BY <1>7 DEF WriteKey, TypeOK
  <2>2. work' \in [Req -> [Node -> Handler]] /\ todo' \in [Req -> SUBSET Node]
    BY <1>2, <1>7, OnwardStep DEF WriteKey
  <2> QED BY <1>7, <2>1, <2>2 DEF WriteKey, TypeOK, table, ghosts
<1> QED BY <1>4, <1>5, <1>6, <1>7

\* Cancelled contexts and crashes keep the types.
LEMMA FailureType ==
  ASSUME TypeOK
  PROVE  /\ \A r \in Req, N \in SUBSET Node : Cancel(r, N) => TypeOK'
         /\ \A n \in Node : Crash(n) => TypeOK'
<1>1. ASSUME NEW r \in Req, NEW N \in SUBSET Node, Cancel(r, N) PROVE TypeOK'
  <2>1. alive' \in [Req -> SUBSET Node]
    BY <1>1 DEF Cancel, TypeOK
  <2>2. faults' \in 0..MaxFaults
    BY <1>1, FaultType DEF Cancel
  <2> QED BY <1>1, <2>1, <2>2 DEF Cancel, TypeOK, table, files, ghosts
<1>2. ASSUME NEW n \in Node, Crash(n) PROVE TypeOK'
  <2>1. todo' \in [Req -> SUBSET Node] /\ alive' \in [Req -> SUBSET Node]
    BY <1>2 DEF Crash, TypeOK
  <2>2. work' \in [Req -> [Node -> Handler]]
    BY <1>2, NoWorkType DEF Crash, TypeOK
  <2>3. pc' \in [Req -> PcType]
    BY <1>2 DEF Crash, TypeOK, PcType
  <2>4. lapsed' \subseteq Place
    BY <1>2 DEF Crash, TypeOK, Files, Place
  <2>5. faults' \in 0..MaxFaults
    BY <1>2, FaultType DEF Crash
  <2> QED BY <1>2, <2>1, <2>2, <2>3, <2>4, <2>5 DEF Crash, TypeOK, PcType, table, files
<1> QED BY <1>1, <1>2

---------------------------------------------------------------------------
(* Where requests and their handlers may be.                               *)

\* A request that issues certificates does so on one node, and only those
\* handlers that issue a list of certificates belong to an enable.
ShapeOf(r) ==
  /\ pc[r] = "issue" => todo[r] \subseteq {ask[r].node}
  /\ pc[r] \in {"store", "visit", "info", "ca", "certs"} => ask[r].op # "enable"
  /\ pc[r] = "issue" /\ ask[r].op = "enable" /\ todo[r] # {} =>
       JoinCerts(ask[r].svc) # <<>>
  /\ ask[r].op = "enable" => ask[r].svc \in Service

Shape == \A r \in Req : ShapeOf(r)

\* HandlersConsistent for one handler.
HandlerOf(r, n) ==
  /\ ~At(r, n, "none") => n \in todo[r] /\ pc[r] \in {"visit", "issue"}
  /\ work[r][n].at \in {"open", "sign", "writeCert", "writeKey"} =>
       work[r][n].left # <<>>

\* Nothing but the handler of r on n, or its end, changes in the flow of requests.
Moves(r, n) ==
  /\ ca' = ca /\ ask' = ask /\ UNCHANGED services
  /\ todo' \in [Req -> SUBSET Node]
  /\ \A q \in Req : pc'[q] = pc[q]
  /\ \A q \in Req, m \in Node :
       q # r \/ m # n => /\ work'[q][m] = work[q][m]
                         /\ m \in todo[q] <=> m \in todo'[q]
  /\ n \in todo'[r] => n \in todo[r]

\* HandlersConsistent, one handler at a time.
LEMMA HandlersPointwise ==
  HandlersConsistent <=> \A r \in Req, n \in Node : HandlerOf(r, n)
BY DEF HandlersConsistent, HandlerOf

\* A request that is not at its nodes has no handler and owes nothing.
LEMMA NoDebt ==
  ASSUME HandlersConsistent, NEW r \in Req,
         pc[r] \notin {"visit", "issue"} \/ todo[r] = {}
  PROVE  \A n \in Node : At(r, n, "none") /\ \A f : ~Owes(r, n, f)
<1> SUFFICES ASSUME NEW n \in Node PROVE At(r, n, "none") /\ \A f : ~Owes(r, n, f)
  OBVIOUS
<1>1. work[r][n].at = "none"
  BY DEF HandlersConsistent, At
<1> QED BY <1>1 DEF Owes, At

\* A debt is kept while nothing about its handler changes.
LEMMA DebtKept ==
  ASSUME ca' = ca, NEW q \in Req, NEW m \in Node, NEW f, Owes(q, m, f),
         ask'[q] = ask[q], pc'[q] = pc[q], work'[q][m] = work[q][m],
         m \in todo[q] => m \in todo'[q]
  PROVE  Owes(q, m, f)'
BY DEF Owes

\* The shape of a request is kept while it stays where it is.
LEMMA ShapeKept ==
  ASSUME NEW q \in Req, ShapeOf(q), ask'[q] = ask[q], pc'[q] = pc[q],
         todo'[q] \subseteq todo[q]
  PROVE  ShapeOf(q)'
BY DEF ShapeOf

\* A handler that moves disturbs no other one.
LEMMA MovesConsistent ==
  ASSUME TypeOK, HandlersConsistent, Shape, NEW r \in Req, NEW n \in Node, Moves(r, n),
         n \in todo[r], pc[r] \in {"visit", "issue"},
         work'[r][n].at # "none" => n \in todo'[r],
         work'[r][n].at \in {"open", "sign", "writeCert", "writeKey"} =>
           work'[r][n].left # <<>>
  PROVE  HandlersConsistent' /\ Shape'
<1>1. \A q \in Req, m \in Node : HandlerOf(q, m)'
  <2> SUFFICES ASSUME NEW q \in Req, NEW m \in Node PROVE HandlerOf(q, m)'
    OBVIOUS
  <2>1. HandlerOf(q, m)
    BY HandlersPointwise
  <2>2. CASE q = r /\ m = n
    BY <2>2 DEF HandlerOf, At, Moves
  <2>3. CASE q # r \/ m # n
    BY <2>1, <2>3 DEF HandlerOf, At, Moves
  <2> QED BY <2>2, <2>3
<1>2. HandlersConsistent'
  BY <1>1 DEF HandlersConsistent, HandlerOf
<1>3. ASSUME NEW q \in Req PROVE ShapeOf(q)'
  <2>1. todo'[q] \subseteq Node /\ todo[q] \subseteq Node
    BY DEF Moves, TypeOK
  <2>2. \A m \in Node : m \in todo'[q] => m \in todo[q]
    BY DEF Moves
  <2>3. ask'[q] = ask[q] /\ pc'[q] = pc[q]
    BY DEF Moves
  <2> QED BY <2>1, <2>2, <2>3, ShapeKept DEF Shape
<1> QED BY <1>2, <1>3 DEF Shape

---------------------------------------------------------------------------
(* What a step does to the files.                                          *)

\* A file that must hold the CA of the table.
Safe(p) == Used(p) /\ ~GivenUp(p) /\ ~Owed(p)

\* The file p stays, and does not become safe.
Kept(p) == ca' = ca /\ Content(p)' = Content(p) /\ (Safe(p)' => Safe(p))

\* A new CA that is owed to every place; the write of one place, which holds the
\* CA of the table if it is safe; or neither.
FilesFollow ==
  \/ \A p \in Place : Content(p)' = Content(p) /\ ~Safe(p)'
  \/ \E w \in Place : /\ ca' = ca
                      /\ Safe(w)' => Content(w)' = ca
                      /\ \A p \in Place \ {w} : Kept(p)
  \/ ca' = ca /\ \A p \in Place : Kept(p)

\* A place is a node and a file.
LEMMA PlaceParts ==
  ASSUME NEW p \in Place
  PROVE  p[1] \in Node /\ p[2] \in File /\ p = <<p[1], p[2]>>
BY DEF Place

\* Files that only fewer services use.
LEMMA UsedShrinks ==
  ASSUME services' \subseteq services, NEW p, Used(p)'
  PROVE  Used(p)
BY DEF Used, UsedFiles, Enabled, SetOf, CentralCerts

\* A handler that moves keeps every file that it still owes, or gives it up.
LEMMA MovesKeep ==
  ASSUME NEW r \in Req, NEW n \in Node, Moves(r, n), NEW p \in Place,
         Content(p)' = Content(p), GivenUp(p) => GivenUp(p)',
         p[1] = n /\ Used(p) /\ Owes(r, n, p[2]) => Owes(r, n, p[2])' \/ GivenUp(p)'
  PROVE  Kept(p)
<1>1. ca' = ca
  BY DEF Moves
<1>2. ASSUME Safe(p)' PROVE Safe(p)
  <2>1. Used(p) /\ ~GivenUp(p)
    BY <1>2, UsedShrinks DEF Safe, Moves
  <2>2. ASSUME NEW q \in Req, Owes(q, p[1], p[2]) PROVE FALSE
    <3>1. p[1] \in Node
      BY PlaceParts
    <3>2. ~Owes(q, p[1], p[2])' /\ ~GivenUp(p)'
      BY <1>2 DEF Safe, Owed
    <3>3. CASE q = r /\ p[1] = n
      BY <2>1, <2>2, <3>2, <3>3
    <3>4. CASE q # r \/ p[1] # n
      <4>1. /\ work'[q][p[1]] = work[q][p[1]] /\ (p[1] \in todo[q] => p[1] \in todo'[q])
            /\ pc'[q] = pc[q] /\ ask'[q] = ask[q]
        BY <3>1, <3>4 DEF Moves
      <4> QED BY <1>1, <2>2, <3>1, <3>2, <4>1, DebtKept
    <3> QED BY <3>3, <3>4
  <2> QED BY <2>1, <2>2 DEF Safe, Owed
<1> QED BY <1>1, <1>2 DEF Kept

\* A request without a handler that goes to another step, or takes a row away.
LEMMA RequestKeeps ==
  ASSUME HandlersConsistent, NEW r \in Req,
         pc[r] \notin {"visit", "issue"} \/ todo[r] = {},
         ca' = ca, work' = work, services' \subseteq services,
         UNCHANGED <<caFile, signer, lapsed, overwritten>>,
         \A q \in Req : q # r =>
           pc'[q] = pc[q] /\ todo'[q] = todo[q] /\ ask'[q] = ask[q]
  PROVE  FilesFollow /\ HandlersConsistent'
<1>1. \A n \in Node : At(r, n, "none") /\ \A f : ~Owes(r, n, f)
  BY NoDebt
<1>2. HandlersConsistent'
  <2> SUFFICES ASSUME NEW q \in Req, NEW n \in Node PROVE HandlerOf(q, n)'
    BY DEF HandlersConsistent, HandlerOf
  <2>1. HandlerOf(q, n)
    BY HandlersPointwise
  <2>2. CASE q = r
    BY <1>1, <2>2 DEF HandlerOf, At
  <2>3. CASE q # r
    BY <2>1, <2>3 DEF HandlerOf, At
  <2> QED BY <2>2, <2>3
<1>3. ASSUME NEW p \in Place PROVE Kept(p)
  <2>1. Content(p)' = Content(p) /\ (GivenUp(p)' <=> GivenUp(p))
    BY DEF Content, GivenUp
  <2>2. ASSUME Safe(p)' PROVE Safe(p)
    <3>1. Used(p) /\ ~GivenUp(p)
      BY <2>1, <2>2, UsedShrinks DEF Safe
    <3>2. ASSUME NEW q \in Req, Owes(q, p[1], p[2]) PROVE FALSE
      <4>1. p[1] \in Node
        BY PlaceParts
      <4>2. q # r
        BY <1>1, <3>2, <4>1
      <4>3. Owes(q, p[1], p[2])'
        BY <3>2, <4>1, <4>2, DebtKept
      <4> QED BY <2>2, <4>3 DEF Safe, Owed
    <3> QED BY <3>1, <3>2 DEF Safe, Owed
  <2> QED BY <2>1, <2>2 DEF Kept
<1> QED BY <1>2, <1>3 DEF FilesFollow

---------------------------------------------------------------------------
(* Requests.                                                               *)

\* Shape, one request at a time.
LEMMA ShapeOthers ==
  ASSUME Shape, NEW r \in Req, ShapeOf(r)',
         \A q \in Req : q # r =>
           pc'[q] = pc[q] /\ todo'[q] = todo[q] /\ ask'[q] = ask[q]
  PROVE  Shape'
BY ShapeKept DEF Shape

\* A request that begins owes nothing yet.
LEMMA IssueFollows ==
  ASSUME TypeOK, HandlersConsistent, Shape, NEW r \in Req, Issue(r)
  PROVE  FilesFollow /\ HandlersConsistent' /\ Shape'
<1>1. PICK a \in Ask :
        /\ a.op \in Op \ {"renew"}
        /\ a.op \in {"enable", "disable"} <=> a.svc # "none"
        /\ ask' = [ask EXCEPT ![r] = a]
        /\ Goto(r, FirstStep(a.op))
        /\ todo' = [todo EXCEPT ![r] = IF FirstStep(a.op) = "issue" THEN {a.node} ELSE {}]
  BY DEF Issue
<1>2. /\ ask'[r] = a /\ pc'[r] = FirstStep(a.op)
      /\ todo'[r] = IF FirstStep(a.op) = "issue" THEN {a.node} ELSE {}
      /\ \A q \in Req : q # r =>
           pc'[q] = pc[q] /\ todo'[q] = todo[q] /\ ask'[q] = ask[q]
  BY <1>1 DEF TypeOK, Goto
<1>3. FilesFollow /\ HandlersConsistent'
  <2>1. /\ ca' = ca /\ work' = work /\ services' \subseteq services
        /\ UNCHANGED <<caFile, signer, lapsed, overwritten>> /\ pc[r] = "idle"
    BY DEF Issue, table, files, ghosts
  <2> QED BY <1>2, <2>1, RequestKeeps
<1>4. ShapeOf(r)'
  <2>1. a.op = "enable" => a.svc \in Service
    BY <1>1 DEF Ask
  <2>2. a.op = "enable" => FirstStep(a.op) = "row"
    BY DEF FirstStep
  <2>3. a.op \in Operation
    BY DEF Ask
  <2>4. FirstStep(a.op) = "issue" => a.op # "enable"
    BY <2>2
  <2> QED BY <1>2, <2>1, <2>2, <2>4 DEF ShapeOf
<1> QED BY <1>2, <1>3, <1>4, ShapeOthers

\* The timer and the script look at files and write none.
LEMMA ScriptFollows ==
  ASSUME TypeOK, HandlersConsistent, Shape, NEW r \in Req,
         \/ \E n \in Node : Renew(r, n)
         \/ ScriptInfo(r) \/ ScriptCa(r) \/ ScriptCert(r)
  PROVE  FilesFollow /\ HandlersConsistent' /\ Shape'
<1>1. \A q \in Req : q # r => pc'[q] = pc[q] /\ todo'[q] = todo[q] /\ ask'[q] = ask[q]
  BY DEF Renew, ScriptInfo, ScriptCa, ScriptCert, Goto, TypeOK
<1>2. FilesFollow /\ HandlersConsistent'
  <2>1. /\ ca' = ca /\ work' = work /\ services' \subseteq services
        /\ UNCHANGED <<caFile, signer, lapsed, overwritten>>
        /\ pc[r] \in {"idle", "info", "ca", "certs"}
    BY DEF Renew, ScriptInfo, ScriptCa, ScriptCert, table, files, ghosts
  <2> QED BY <1>1, <2>1, RequestKeeps
<1>3. ShapeOf(r)'
  <2>1. ShapeOf(r)
    BY DEF Shape
  <2>2. CASE \E n \in Node : Renew(r, n)
    <3>1. ask'[r].op = "renew" /\ pc'[r] = "info"
      BY <2>2 DEF Renew, Goto, TypeOK
    <3> QED BY <3>1 DEF ShapeOf
  <2>3. CASE ScriptInfo(r)
    <3>1. ask'[r] = ask[r] /\ pc'[r] \in {"ca", "certs", "idle"} /\ pc[r] = "info"
      BY <2>3 DEF ScriptInfo, Goto, TypeOK
    <3> QED BY <2>1, <3>1 DEF ShapeOf
  <2>4. CASE ScriptCa(r)
    <3>1. ask'[r] = ask[r] /\ pc'[r] \in {"store", "certs"} /\ pc[r] = "ca"
      BY <2>4 DEF ScriptCa, Goto, TypeOK
    <3> QED BY <2>1, <3>1 DEF ShapeOf
  <2>5. CASE ScriptCert(r)
    <3>1. /\ pc[r] = "certs" /\ ask'[r].op = ask[r].op /\ ask'[r].node = ask[r].node
          /\ \/ pc'[r] \in {"idle", "certs"}
             \/ pc'[r] = "issue" /\ todo'[r] = {ask[r].node}
      <4>1. CASE UNCHANGED ask
        BY <2>5, <4>1 DEF ScriptCert, Goto, TypeOK
      <4>2. CASE /\ Goto(r, "issue")
                 /\ ask' = [ask EXCEPT ![r] = [@ EXCEPT !.cert = Head(script[r])]]
                 /\ todo' = [todo EXCEPT ![r] = {ask[r].node}]
        <5>1. /\ ask'[r] = [ask[r] EXCEPT !.cert = Head(script[r])]
              /\ pc'[r] = "issue" /\ todo'[r] = {ask[r].node}
          BY <4>2 DEF Goto, TypeOK
        <5>2. ask[r] \in Ask
          BY DEF TypeOK
        <5>3. ask'[r].op = ask[r].op /\ ask'[r].node = ask[r].node
          BY <5>1, <5>2 DEF Ask
        <5> QED BY <2>5, <5>1, <5>3 DEF ScriptCert
      <4> QED BY <2>5, <4>1, <4>2 DEF ScriptCert
    <3> QED BY <2>1, <3>1 DEF ShapeOf
  <2> QED BY <2>2, <2>3, <2>4, <2>5
<1> QED BY <1>1, <1>2, <1>3, ShapeOthers

\* The end of a request, and a rollback, leave no debt behind.
LEMMA RollbackFollows ==
  ASSUME TypeOK, HandlersConsistent, Shape, NEW r \in Req, Rollback(r) \/ End(r)
  PROVE  FilesFollow /\ HandlersConsistent' /\ Shape'
<1>1. \A q \in Req : q # r => pc'[q] = pc[q] /\ todo'[q] = todo[q] /\ ask'[q] = ask[q]
  BY DEF Rollback, End, Goto, TypeOK
<1>2. FilesFollow /\ HandlersConsistent'
  <2>1. /\ ca' = ca /\ work' = work /\ services' \subseteq services
        /\ UNCHANGED <<caFile, signer, lapsed, overwritten>>
        /\ pc[r] = "rollback" \/ todo[r] = {}
    BY DEF Rollback, End, table, files, ghosts
  <2> QED BY <1>1, <2>1, RequestKeeps
<1>3. ShapeOf(r)'
  <2>1. ShapeOf(r)
    BY DEF Shape
  <2>2. ask'[r] = ask[r] /\ (pc'[r] = "idle" \/ (pc'[r] = "certs" /\ ask[r].op = "renew"))
    BY DEF Rollback, End, After, Goto, TypeOK
  <2> QED BY <2>1, <2>2 DEF ShapeOf
<1> QED BY <1>1, <1>2, <1>3, ShapeOthers

\* A new CA: the request that stored it owes every file.
LEMMA StoreFollows ==
  ASSUME TypeOK, HandlersConsistent, Shape, NEW r \in Req, StoreCa(r)
  PROVE  FilesFollow /\ HandlersConsistent' /\ Shape'
<1>1. /\ \A q \in Req : q # r => pc'[q] = pc[q] /\ todo'[q] = todo[q] /\ ask'[q] = ask[q]
      /\ UNCHANGED <<work, services, caFile, signer, lapsed, overwritten, ask>>
      /\ pc[r] = "store"
  BY DEF StoreCa, Goto, TypeOK, files, ghosts
<1>2. ShapeOf(r)
  BY DEF Shape
<1>3. CASE ca' = ca /\ todo' = todo /\ Goto(r, "idle")
  <2>1. pc'[r] = "idle"
    BY <1>3 DEF Goto, TypeOK
  <2>2. ShapeOf(r)'
    BY <1>1, <1>2, <2>1 DEF ShapeOf
  <2>3. FilesFollow /\ HandlersConsistent'
    BY <1>1, <1>3, RequestKeeps
  <2> QED BY <1>1, <2>2, <2>3, ShapeOthers
<1>4. CASE Goto(r, "visit") /\ todo' = [todo EXCEPT ![r] = Notified(r)]
  <2>1. pc'[r] = "visit" /\ todo'[r] = Node
    BY <1>4 DEF Goto, TypeOK, Notified, Ask
  <2>2. ShapeOf(r)'
    BY <1>1, <1>2, <2>1 DEF ShapeOf
  <2>3. \A n \in Node : work[r][n].at = "none"
    BY <1>1, NoDebt DEF At
  <2>4. \A p \in Place : Content(p)' = Content(p) /\ ~Safe(p)'
    <3> TAKE p \in Place
    <3>1. p[1] \in Node
      BY PlaceParts
    <3>2. Owes(r, p[1], p[2])'
      BY <1>1, <2>1, <2>3, <3>1 DEF Owes
    <3> QED BY <1>1, <3>2 DEF Content, Safe, Owed
  <2>5. HandlersConsistent'
    <3> SUFFICES ASSUME NEW q \in Req, NEW n \in Node PROVE HandlerOf(q, n)'
      BY DEF HandlersConsistent, HandlerOf
    <3>1. HandlerOf(q, n)
      BY HandlersPointwise
    <3>2. CASE q = r
      BY <1>1, <2>3, <3>2 DEF HandlerOf, At
    <3>3. CASE q # r
      BY <1>1, <3>1, <3>3 DEF HandlerOf, At
    <3> QED BY <3>2, <3>3
  <2> QED BY <1>1, <2>2, <2>4, <2>5, ShapeOthers DEF FilesFollow
<1> QED BY <1>3, <1>4 DEF StoreCa

\* Certificates that a service starts to use are those that its enable issues.
LEMMA UsedGrows ==
  ASSUME NEW n \in Node, NEW svc \in Service,
         services' = services \cup {<<n, svc>>}, NEW p \in Place, Used(p)'
  PROVE  Used(p) \/ (p[1] = n /\ p[2] \in SetOf(JoinCerts(svc)))
<1>1. p[1] \in Node
  BY PlaceParts
<1>2. \A s : Enabled(p[1], s)' => Enabled(p[1], s) \/ (p[1] = n /\ s = svc)
  BY DEF Enabled
<1>3. CASE p[2] \in {"ca", "client"}
  BY <1>3 DEF Used, UsedFiles
<1>4. CASE p[2] \in SetOf(CentralCerts) /\ Enabled(p[1], "central")'
  <2>1. CASE Enabled(p[1], "central")
    BY <1>4, <2>1 DEF Used, UsedFiles
  <2>2. CASE p[1] = n /\ svc = "central"
    BY <1>4, <2>2 DEF JoinCerts
  <2> QED BY <1>2, <1>4, <2>1, <2>2
<1>5. CASE p[2] = "ovn-controller" /\ Enabled(p[1], "chassis")'
  <2>1. CASE Enabled(p[1], "chassis")
    BY <1>5, <2>1 DEF Used, UsedFiles
  <2>2. CASE p[1] = n /\ svc = "chassis"
    BY <1>5, <2>2 DEF JoinCerts, SetOf
  <2> QED BY <1>2, <1>5, <2>1, <2>2
<1>6. UsedFiles(p[1])' = {"ca", "client"}
        \cup (IF Enabled(p[1], "central")' THEN SetOf(CentralCerts) ELSE {})
        \cup (IF Enabled(p[1], "chassis")' THEN {"ovn-controller"} ELSE {})
  BY DEF UsedFiles
<1> QED BY <1>3, <1>4, <1>5, <1>6 DEF Used

\* The files a new service uses are owed by the request that made its row.
LEMMA ServiceRowFollows ==
  ASSUME TypeOK, HandlersConsistent, Shape, NEW r \in Req, ServiceRow(r)
  PROVE  FilesFollow /\ HandlersConsistent' /\ Shape'
<1> DEFINE n == ask[r].node
           svc == ask[r].svc
<1>1. /\ \A q \in Req : q # r => pc'[q] = pc[q] /\ todo'[q] = todo[q] /\ ask'[q] = ask[q]
      /\ UNCHANGED <<work, ca, caFile, signer, lapsed, overwritten, ask>>
      /\ pc[r] = "row"
  BY DEF ServiceRow, Goto, TypeOK, files, ghosts
<1>2. ShapeOf(r) /\ n \in Node
  BY DEF Shape, TypeOK, Ask
<1>3. CASE services' \subseteq services /\ Goto(r, "idle")
  <2>1. pc'[r] = "idle"
    BY <1>3 DEF Goto, TypeOK
  <2>2. ShapeOf(r)'
    BY <1>1, <1>2, <2>1 DEF ShapeOf
  <2>3. FilesFollow /\ HandlersConsistent'
    BY <1>1, <1>3, RequestKeeps
  <2> QED BY <1>1, <2>2, <2>3, ShapeOthers
<1>4. CASE /\ ask[r].op = "enable" /\ services' = services \cup {<<n, svc>>}
           /\ Goto(r, "issue")
           /\ todo' = [todo EXCEPT ![r] = IF JoinCerts(svc) = <<>> THEN {} ELSE {n}]
  <2>1. /\ pc'[r] = "issue" /\ todo'[r] = IF JoinCerts(svc) = <<>> THEN {} ELSE {n}
        /\ svc \in Service
    BY <1>2, <1>4 DEF Goto, TypeOK, ShapeOf
  <2>2. ShapeOf(r)'
    BY <1>1, <1>2, <2>1 DEF ShapeOf
  <2>3. \A m \in Node : work[r][m].at = "none" /\ \A f : ~Owes(r, m, f)
    BY <1>1, NoDebt DEF At
  <2>4. HandlersConsistent'
    <3> SUFFICES ASSUME NEW q \in Req, NEW m \in Node PROVE HandlerOf(q, m)'
      BY DEF HandlersConsistent, HandlerOf
    <3>1. HandlerOf(q, m)
      BY HandlersPointwise
    <3>2. CASE q = r
      BY <1>1, <2>3, <3>2 DEF HandlerOf, At
    <3>3. CASE q # r
      BY <1>1, <3>1, <3>3 DEF HandlerOf, At
    <3> QED BY <3>2, <3>3
  <2>5. ASSUME NEW p \in Place PROVE Kept(p)
    <3>1. Content(p)' = Content(p) /\ (GivenUp(p)' <=> GivenUp(p)) /\ p[1] \in Node
      BY <1>1, PlaceParts DEF Content, GivenUp
    <3>2. ASSUME Safe(p)' PROVE Safe(p)
      <4>1. ASSUME p[1] = n, p[2] \in SetOf(JoinCerts(svc)) PROVE FALSE
        <5>1. JoinCerts(svc) # <<>>
          BY <4>1 DEF SetOf
        <5>2. Owes(r, p[1], p[2])'
          BY <1>1, <1>2, <1>4, <2>1, <2>3, <4>1, <5>1 DEF Owes
        <5> QED BY <3>2, <5>2 DEF Safe, Owed
      <4>2. Used(p)
        BY <1>2, <1>4, <2>1, <3>2, <4>1, UsedGrows DEF Safe
      <4>3. ASSUME NEW q \in Req, Owes(q, p[1], p[2]) PROVE FALSE
        <5>1. q # r
          BY <2>3, <3>1, <4>3
        <5>2. Owes(q, p[1], p[2])'
          BY <1>1, <3>1, <4>3, <5>1, DebtKept
        <5> QED BY <3>2, <5>2 DEF Safe, Owed
      <4> QED BY <3>1, <3>2, <4>2, <4>3 DEF Safe, Owed
    <3> QED BY <1>1, <3>1, <3>2 DEF Kept
  <2> QED BY <1>1, <2>2, <2>4, <2>5, ShapeOthers DEF FilesFollow
<1> QED BY <1>3, <1>4 DEF ServiceRow

---------------------------------------------------------------------------
(* Handlers.                                                               *)

\* A handler at work belongs to a request that waits for the node.
LEMMA HandlerRuns ==
  ASSUME HandlersConsistent, NEW r \in Req, NEW n \in Node, ~At(r, n, "none")
  PROVE  n \in todo[r] /\ pc[r] \in {"visit", "issue"}
BY DEF HandlersConsistent

\* The files of n are given up with its place in the list.
LEMMA GivesUpFiles ==
  ASSUME NEW n \in Node, lapsed' = lapsed \cup Files(n), UNCHANGED overwritten,
         NEW p \in Place
  PROVE  /\ GivenUp(p) => GivenUp(p)'
         /\ p[1] = n => GivenUp(p)'
BY PlaceParts DEF GivenUp, Files

\* Handler r on n does next; nothing else moves.
LEMMA StepMoves ==
  ASSUME TypeOK, NEW r \in Req, NEW n \in Node, NEW next \in Handler, Step(r, n, next),
         UNCHANGED <<ca, ask, services, pc, todo>>
  PROVE  Moves(r, n) /\ work'[r][n] = next /\ todo'[r] = todo[r]
<1>1. /\ work'[r][n] = next
      /\ \A q \in Req, m \in Node : q # r \/ m # n => work'[q][m] = work[q][m]
  BY WorkStep
<1>2. todo' \in [Req -> SUBSET Node]
  BY DEF TypeOK
<1> QED BY <1>1, <1>2 DEF Moves

\* A handler that returns moves.
LEMMA ReturnMoves ==
  ASSUME TypeOK, NEW r \in Req, NEW n \in Node, Return(r, n),
         UNCHANGED <<ca, ask, services, pc>>
  PROVE  Moves(r, n) /\ work'[r][n] = NoWork
<1>1. /\ work'[r][n] = NoWork
      /\ \A q \in Req, m \in Node : q # r \/ m # n => work'[q][m] = work[q][m]
      /\ todo' \in [Req -> SUBSET Node]
      /\ todo'[r] = todo[r] \ {n}
      /\ \A q \in Req : q # r => todo'[q] = todo[q]
  BY ReturnStep
<1> QED BY <1>1 DEF Moves

\* A handler that goes on to the next certificate moves.
LEMMA OnwardMoves ==
  ASSUME TypeOK, NEW r \in Req, NEW n \in Node, work[r][n].left # <<>>, Onward(r, n),
         UNCHANGED <<ca, ask, services, pc>>
  PROVE  /\ Moves(r, n)
         /\ \/ work'[r][n] = NoWork /\ SetOf(Tail(work[r][n].left)) = {}
            \/ /\ work'[r][n] = [at |-> "open", held |-> None,
                                 left |-> Tail(work[r][n].left)]
               /\ Tail(work[r][n].left) # <<>>
               /\ todo'[r] = todo[r]
<1>1. /\ \/ work'[r][n] = NoWork /\ todo'[r] = todo[r] \ {n}
            /\ SetOf(Tail(work[r][n].left)) = {}
         \/ /\ work'[r][n] = [at |-> "open", held |-> None,
                              left |-> Tail(work[r][n].left)]
            /\ Tail(work[r][n].left) # <<>>
            /\ todo'[r] = todo[r]
      /\ \A q \in Req, m \in Node : q # r \/ m # n => work'[q][m] = work[q][m]
      /\ todo' \in [Req -> SUBSET Node]
      /\ \A q \in Req : q # r => todo'[q] = todo[q]
  BY OnwardStep
<1>2. Moves(r, n)
  BY <1>1 DEF Moves
<1> QED BY <1>1, <1>2

\* A handler that begins owes what its request owed the node.
LEMMA VisitFollows ==
  ASSUME TypeOK, HandlersConsistent, Shape, NEW r \in Req, NEW n \in Node, Visit(r, n)
  PROVE  FilesFollow /\ HandlersConsistent' /\ Shape'
<1>1. /\ pc[r] \in {"visit", "issue"} /\ n \in todo[r] /\ work[r][n].at = "none"
      /\ UNCHANGED <<ca, ask, services, pc, todo, caFile, signer, lapsed, overwritten>>
  BY DEF Visit, MayVisit, At, table, files, ghosts, flow
<1>2. ShapeOf(r)
  BY DEF Shape
<1>3. PICK next \in Handler :
        /\ Step(r, n, next)
        /\ next.at \in {"dumpRead", "list", "open"}
        /\ pc[r] = "visit" => next.at = "dumpRead"
        /\ pc[r] = "issue" /\ ask[r].op = "enable" =>
             next.at = "open" /\ next.left = JoinCerts(ask[r].svc)
        /\ next.at = "open" => next.left # <<>>
  <2>1. CASE pc[r] = "visit"
    <3>1. [NoWork EXCEPT !.at = "dumpRead"] \in Handler
          /\ [NoWork EXCEPT !.at = "dumpRead"].at = "dumpRead"
      BY NoWorkType DEF Handler
    <3> QED BY <2>1, <3>1 DEF Visit
  <2>2. CASE pc[r] # "visit" /\ ask[r].op = "enable"
    <3> DEFINE j == JoinCerts(ask[r].svc)
    <3>1. j \in Seq(Cert) /\ j # <<>>
      BY <1>1, <1>2, <2>2, CertSequences, InstanceAssumption DEF ShapeOf
    <3> HIDE DEF j
    <3>2. /\ [NoWork EXCEPT !.at = "open", !.left = j] \in Handler
          /\ [NoWork EXCEPT !.at = "open", !.left = j].at = "open"
          /\ [NoWork EXCEPT !.at = "open", !.left = j].left = j
      BY <3>1, NoWorkType DEF Handler
    <3>3. Step(r, n, [NoWork EXCEPT !.at = "open", !.left = j])
      BY <2>2 DEF Visit, j
    <3> QED BY <2>2, <3>1, <3>2, <3>3 DEF j
  <2>3. CASE pc[r] # "visit" /\ ask[r].op # "enable"
    <3>1. [NoWork EXCEPT !.at = "list"] \in Handler
          /\ [NoWork EXCEPT !.at = "list"].at = "list"
      BY NoWorkType DEF Handler
    <3> QED BY <2>3, <3>1 DEF Visit
  <2> QED BY <2>1, <2>2, <2>3
<1>4. Moves(r, n) /\ work'[r][n] = next /\ todo'[r] = todo[r]
  BY <1>1, <1>3, StepMoves
<1>5. HandlersConsistent' /\ Shape'
  BY <1>1, <1>3, <1>4, MovesConsistent
<1>6. ASSUME NEW p \in Place PROVE Kept(p)
  <2>1. Content(p)' = Content(p) /\ (GivenUp(p) => GivenUp(p)')
    BY <1>1 DEF Content, GivenUp
  <2>2. ASSUME Owes(r, n, p[2]) PROVE Owes(r, n, p[2])'
    BY <1>1, <1>3, <1>4, <2>2 DEF Owes
  <2> QED BY <1>4, <2>1, <2>2, MovesKeep
<1> QED BY <1>5, <1>6, <1>1 DEF FilesFollow

\* A node that is not reached is given up.
LEMMA LostFollows ==
  ASSUME TypeOK, HandlersConsistent, Shape, NEW r \in Req, NEW n \in Node, Lost(r, n)
  PROVE  FilesFollow /\ HandlersConsistent' /\ Shape'
<1>1. /\ pc[r] \in {"visit", "issue"} /\ n \in todo[r] /\ work[r][n].at = "none"
      /\ UNCHANGED <<ca, ask, services, pc, work, caFile, signer, overwritten>>
      /\ lapsed' = lapsed \cup Files(n)
      /\ todo' = [todo EXCEPT ![r] = @ \ {n}]
  BY DEF Lost, MayVisit, At, table, files
<1>2. Moves(r, n)
  BY <1>1 DEF Moves, TypeOK
<1>3. HandlersConsistent' /\ Shape'
  BY <1>1, <1>2, MovesConsistent
<1>4. ASSUME NEW p \in Place PROVE Kept(p)
  BY <1>1, <1>2, GivesUpFiles, MovesKeep DEF Content
<1> QED BY <1>1, <1>3, <1>4 DEF FilesFollow

\* The CA that is read is the one that is owed.
LEMMA DumpReadFollows ==
  ASSUME TypeOK, HandlersConsistent, Shape, NEW r \in Req, NEW n \in Node, DumpRead(r, n)
  PROVE  FilesFollow /\ HandlersConsistent' /\ Shape'
<1>1. /\ work[r][n].at = "dumpRead" /\ pc[r] \in {"visit", "issue"} /\ n \in todo[r]
      /\ UNCHANGED <<ca, ask, services, pc, caFile, signer, overwritten>>
  BY HandlerRuns DEF DumpRead, At, table, files
<1>2. CASE Return(r, n) /\ lapsed' = lapsed \cup Files(n)
  <2>1. Moves(r, n) /\ work'[r][n] = NoWork
    BY <1>1, <1>2, ReturnMoves
  <2>2. HandlersConsistent' /\ Shape'
    BY <1>1, <2>1, MovesConsistent DEF NoWork
  <2>3. ASSUME NEW p \in Place PROVE Kept(p)
    BY <1>1, <1>2, <2>1, GivesUpFiles, MovesKeep DEF Content
  <2> QED BY <1>1, <2>2, <2>3 DEF FilesFollow
<1>3. CASE /\ Step(r, n, [work[r][n] EXCEPT !.at = "dumpWrite", !.held = ca])
           /\ UNCHANGED <<todo, lapsed>>
  <2> DEFINE next == [work[r][n] EXCEPT !.at = "dumpWrite", !.held = ca]
  <2>1. next \in Handler /\ next.at = "dumpWrite" /\ next.held = ca
    <3>1. ca \in CA \cup {None}
      BY DEF TypeOK
    <3> QED BY <3>1, HandlerParts DEF Handler
  <2> HIDE DEF next
  <2>2. Moves(r, n) /\ work'[r][n] = next /\ todo'[r] = todo[r]
    BY <1>1, <1>3, <2>1, StepMoves DEF next
  <2>3. HandlersConsistent' /\ Shape'
    BY <1>1, <2>1, <2>2, MovesConsistent
  <2>4. ASSUME NEW p \in Place PROVE Kept(p)
    <3>1. Content(p)' = Content(p) /\ (GivenUp(p) => GivenUp(p)')
      BY <1>1, <1>3 DEF Content, GivenUp
    <3>2. ASSUME Owes(r, n, p[2]) PROVE Owes(r, n, p[2])'
      BY <1>1, <2>1, <2>2, <3>2 DEF Owes
    <3> QED BY <2>2, <3>1, <3>2, MovesKeep
  <2> QED BY <1>1, <2>3, <2>4 DEF FilesFollow
<1> QED BY <1>2, <1>3 DEF DumpRead

\* The CA file of n is written with what the handler holds.
LEMMA DumpWriteFollows ==
  ASSUME TypeOK, HandlersConsistent, Shape, NEW r \in Req, NEW n \in Node, DumpWrite(r, n)
  PROVE  FilesFollow /\ HandlersConsistent' /\ Shape'
<1> DEFINE h == work[r][n].held
           next == [work[r][n] EXCEPT !.at = "list", !.held = None]
           t == <<n, "ca">>
<1>1. /\ work[r][n].at = "dumpWrite" /\ pc[r] \in {"visit", "issue"} /\ n \in todo[r]
      /\ UNCHANGED <<ca, ask, services, pc, todo, signer>>
      /\ caFile' = [caFile EXCEPT ![n] = h] /\ Written(t, h) /\ Step(r, n, next)
  BY HandlerRuns DEF DumpWrite, At, table, flow
<1>2. next \in Handler /\ next.at = "list" /\ t \in Place
  BY HandlerParts DEF Handler, Place, File
<1>3. /\ Content(t)' = h
      /\ h # ca => t \in overwritten'
      /\ \A p \in Place : p # t => /\ Content(p)' = Content(p)
                                   /\ GivenUp(p) => GivenUp(p)'
  <2>1. Content(t)' = h
    BY <1>1 DEF Content, TypeOK
  <2>2. ASSUME NEW p \in Place, p # t PROVE Content(p)' = Content(p)
    BY <1>1, <2>2, PlaceParts DEF Content, TypeOK
  <2>3. ASSUME NEW p \in Place, p # t PROVE GivenUp(p) => GivenUp(p)'
    BY <1>1, <2>3 DEF GivenUp, Written
  <2> QED BY <1>1, <2>1, <2>2, <2>3 DEF Written
<1> HIDE DEF next
<1>4. Moves(r, n) /\ work'[r][n] = next /\ todo'[r] = todo[r]
  BY <1>1, <1>2, StepMoves
<1>5. HandlersConsistent' /\ Shape'
  BY <1>1, <1>2, <1>4, MovesConsistent
<1>6. ASSUME NEW p \in Place \ {t} PROVE Kept(p)
  <2>1. p \in Place /\ p # t /\ (p[1] = n => p[2] # "ca")
    BY <1>6, PlaceParts
  <2>2. ASSUME p[1] = n, Owes(r, n, p[2]) PROVE Owes(r, n, p[2])'
    BY <1>1, <1>2, <1>4, <2>1, <2>2 DEF Owes
  <2> QED BY <1>3, <1>4, <2>1, <2>2, MovesKeep
<1>7. Safe(t)' => Content(t)' = ca
  BY <1>3 DEF Safe, GivenUp
<1> QED BY <1>1, <1>2, <1>5, <1>6, <1>7 DEF FilesFollow

\* The list of a regeneration has every file in use that it does not give up.
LEMMA ListFollows ==
  ASSUME TypeOK, HandlersConsistent, Shape, NEW r \in Req, NEW n \in Node, List(r, n)
  PROVE  FilesFollow /\ HandlersConsistent' /\ Shape'
<1> DEFINE all == enabledOvnServices(n)
<1>1. /\ work[r][n].at = "list" /\ pc[r] \in {"visit", "issue"} /\ n \in todo[r]
      /\ UNCHANGED <<ca, ask, services, pc, caFile, signer, overwritten>>
  BY HandlerRuns DEF List, At, table, files
<1>2. lapsed \subseteq lapsed'
  BY DEF List
<1>3. ASSUME NEW p \in Place
      PROVE  Content(p)' = Content(p) /\ (GivenUp(p) => GivenUp(p)')
  BY <1>1, <1>2 DEF Content, GivenUp
<1>4. CASE Return(r, n) /\ (pc[r] = "visit" => lapsed' = lapsed \cup Files(n))
  <2>1. Moves(r, n) /\ work'[r][n] = NoWork
    BY <1>1, <1>4, ReturnMoves
  <2>2. HandlersConsistent' /\ Shape'
    BY <1>1, <2>1, MovesConsistent DEF NoWork
  <2>3. ASSUME NEW p \in Place PROVE Kept(p)
    <3>1. ASSUME p[1] = n, Owes(r, n, p[2]) PROVE GivenUp(p)'
      <4>1. pc[r] = "visit"
        BY <1>1, <3>1 DEF Owes
      <4> QED BY <1>1, <1>4, <3>1, <4>1, GivesUpFiles
    <3> QED BY <1>3, <2>1, <3>1, MovesKeep
  <2> QED BY <1>1, <2>2, <2>3 DEF FilesFollow
<1>5. CASE \E certs \in {<<ask[r].cert>>, all} :
             /\ Step(r, n, [work[r][n] EXCEPT !.at = "open", !.left = certs])
             /\ UNCHANGED todo
             /\ pc[r] = "visit" =>
                  /\ certs = all
                  /\ lapsed' = lapsed \cup
                       ({n} \X (UsedFiles(n) \ (SetOf(all) \cup {"ca"})))
  <2>1. ask[r].cert \in Cert
    BY DEF TypeOK, Ask
  <2>2. /\ <<ask[r].cert>> \in Seq(Cert) /\ <<ask[r].cert>> # <<>>
        /\ all \in Seq(Cert) /\ all # <<>>
    BY <2>1, CertSequences
  <2>3. PICK certs \in Seq(Cert) :
          /\ certs # <<>>
          /\ Step(r, n, [work[r][n] EXCEPT !.at = "open", !.left = certs])
          /\ UNCHANGED todo
          /\ pc[r] = "visit" =>
               /\ certs = all
               /\ lapsed' = lapsed \cup
                    ({n} \X (UsedFiles(n) \ (SetOf(all) \cup {"ca"})))
    BY <1>5, <2>2
  <2> DEFINE next == [work[r][n] EXCEPT !.at = "open", !.left = certs]
  <2>4. next \in Handler /\ next.at = "open" /\ next.left = certs
    BY HandlerParts DEF Handler
  <2> HIDE DEF next
  <2>5. Moves(r, n) /\ work'[r][n] = next /\ todo'[r] = todo[r]
    BY <1>1, <2>3, <2>4, StepMoves DEF next
  <2>6. HandlersConsistent' /\ Shape'
    BY <1>1, <2>3, <2>4, <2>5, MovesConsistent
  <2>7. ASSUME NEW p \in Place PROVE Kept(p)
    <3>1. ASSUME p[1] = n, Used(p), Owes(r, n, p[2])
          PROVE  Owes(r, n, p[2])' \/ GivenUp(p)'
      <4>1. pc[r] = "visit" /\ p[2] # "ca"
        BY <1>1, <3>1 DEF Owes
      <4>2. CASE p[2] \in SetOf(certs)
        <5>1. Owes(r, n, p[2])'
          BY <2>4, <2>5, <4>2 DEF Owes
        <5> QED BY <5>1
      <4>3. CASE p[2] \notin SetOf(certs)
        <5>1. p = <<n, p[2]>> /\ p[2] \in UsedFiles(n)
          BY <3>1, PlaceParts DEF Used
        <5>2. p \in lapsed'
          BY <2>3, <4>1, <4>3, <5>1
        <5> QED BY <5>2 DEF GivenUp
      <4> QED BY <4>2, <4>3
    <3> QED BY <1>3, <2>5, <3>1, MovesKeep
  <2> QED BY <1>1, <2>6, <2>7 DEF FilesFollow
<1>6. (~Alive(r, n) \/ (ask[r].op # "reissueAll" /\ pc[r] = "issue"
                        /\ ask[r].cert \notin SetOf(all)))
      \/ \E certs \in {<<ask[r].cert>>, all} :
             /\ Step(r, n, [work[r][n] EXCEPT !.at = "open", !.left = certs])
             /\ UNCHANGED todo
             /\ pc[r] = "visit" =>
                  /\ certs = all
                  /\ lapsed' = lapsed \cup
                       ({n} \X (UsedFiles(n) \ (SetOf(all) \cup {"ca"})))
  BY DEF List
<1>7. (~Alive(r, n) \/ (ask[r].op # "reissueAll" /\ pc[r] = "issue"
                        /\ ask[r].cert \notin SetOf(all)))
      => Return(r, n) /\ (pc[r] = "visit" => lapsed' = lapsed \cup Files(n))
  BY DEF List
<1> QED BY <1>4, <1>5, <1>6, <1>7

\* Facts about a handler that issues certificates.
LEMMA IssuesCerts ==
  ASSUME TypeOK, HandlersConsistent, NEW r \in Req, NEW n \in Node,
         work[r][n].at \in {"open", "sign", "writeCert", "writeKey"}
  PROVE  /\ pc[r] \in {"visit", "issue"} /\ n \in todo[r]
         /\ work[r][n].left \in Seq(Cert) /\ work[r][n].left # <<>>
         /\ Head(work[r][n].left) \in Cert
         /\ SetOf(work[r][n].left) =
              {Head(work[r][n].left)} \cup SetOf(Tail(work[r][n].left))
<1>1. work[r][n].left \in Seq(Cert) /\ work[r][n].left # <<>>
  BY HandlerParts DEF HandlersConsistent
<1>2. pc[r] \in {"visit", "issue"} /\ n \in todo[r]
  BY HandlerRuns DEF At
<1> QED BY <1>1, <1>2, HeadAndTail

\* A truncated certificate is owed.
LEMMA OpenFollows ==
  ASSUME TypeOK, HandlersConsistent, Shape, NEW r \in Req, NEW n \in Node, Open(r, n)
  PROVE  FilesFollow /\ HandlersConsistent' /\ Shape'
<1> DEFINE left == work[r][n].left
           next == [work[r][n] EXCEPT !.at = "sign"]
<1>0. PICK c \in Cert : c = Head(left)
  BY IssuesCerts DEF Open, At
<1> DEFINE t == <<n, c>>
<1>1. /\ work[r][n].at = "open"
      /\ UNCHANGED <<ca, ask, services, pc, todo, caFile, lapsed, overwritten>>
      /\ signer' = [signer EXCEPT ![n][c] = None] /\ Step(r, n, next)
  BY <1>0 DEF Open, At, table, flow
<1>2. /\ pc[r] \in {"visit", "issue"} /\ n \in todo[r] /\ left # <<>>
      /\ SetOf(left) = {c} \cup SetOf(Tail(left))
  BY <1>0, <1>1, IssuesCerts
<1>3. next \in Handler /\ next.at = "sign" /\ next.left = left
  BY HandlerParts DEF Handler
<1>4. t \in Place
  BY <1>2 DEF Place, File
<1>5. ASSUME NEW p \in Place, p # t
      PROVE  Content(p)' = Content(p) /\ (GivenUp(p) => GivenUp(p)')
  <2>1. p[1] \in Node /\ p[2] \in File /\ (p[1] # n \/ p[2] # c)
    BY <1>5, PlaceParts
  <2>2. CASE p[2] = "ca"
    BY <1>1, <2>2 DEF Content, GivenUp
  <2>3. CASE p[2] # "ca"
    <3>1. signer'[p[1]][p[2]] = signer[p[1]][p[2]]
      BY <1>1, <2>1, <2>3 DEF TypeOK, File
    <3> QED BY <1>1, <2>3, <3>1 DEF Content, GivenUp
  <2> QED BY <2>2, <2>3
<1> HIDE DEF next
<1>6. Moves(r, n) /\ work'[r][n] = next /\ todo'[r] = todo[r]
  BY <1>1, <1>3, StepMoves
<1>7. HandlersConsistent' /\ Shape'
  BY <1>1, <1>2, <1>3, <1>6, MovesConsistent
<1>8. \A f \in SetOf(left) : Owes(r, n, f)'
  BY <1>3, <1>6 DEF Owes
<1>9. ASSUME NEW p \in Place \ {t} PROVE Kept(p)
  <2>1. ASSUME Owes(r, n, p[2]) PROVE Owes(r, n, p[2])'
    BY <1>1, <1>8, <2>1 DEF Owes
  <2> QED BY <1>5, <1>6, <2>1, MovesKeep
<1>10. ~Safe(t)'
  <2>1. Owes(r, n, c)'
    BY <1>2, <1>8
  <2> QED BY <2>1 DEF Safe, Owed
<1> QED BY <1>1, <1>4, <1>7, <1>9, <1>10 DEF FilesFollow

\* A certificate that was written holds the CA that its handler has read.
LEMMA WriteCertFollows ==
  ASSUME TypeOK, HandlersConsistent, Shape, NEW r \in Req, NEW n \in Node, WriteCert(r, n)
  PROVE  FilesFollow /\ HandlersConsistent' /\ Shape'
<1> DEFINE left == work[r][n].left
           h == work[r][n].held
           next == [work[r][n] EXCEPT !.at = "writeKey", !.held = None]
<1>0. PICK c \in Cert : c = Head(left)
  BY IssuesCerts DEF WriteCert, At
<1> DEFINE t == <<n, c>>
<1>1. /\ work[r][n].at = "writeCert"
      /\ UNCHANGED <<ca, ask, services, pc, todo, caFile>>
      /\ signer' = [signer EXCEPT ![n][c] = h] /\ Written(t, h) /\ Step(r, n, next)
  BY <1>0 DEF WriteCert, At, table, flow
<1>2. /\ pc[r] \in {"visit", "issue"} /\ n \in todo[r] /\ left # <<>>
      /\ SetOf(left) = {c} \cup SetOf(Tail(left))
  BY <1>0, <1>1, IssuesCerts
<1>3. next \in Handler /\ next.at = "writeKey" /\ next.left = left
  BY HandlerParts DEF Handler
<1>4. t \in Place /\ c # "ca"
  BY DEF Place, File, Cert
<1>5. /\ Content(t)' = h
      /\ h # ca => t \in overwritten'
      /\ \A p \in Place : p # t => /\ Content(p)' = Content(p)
                                   /\ GivenUp(p) => GivenUp(p)'
  <2>1. Content(t)' = h
    BY <1>1, <1>4 DEF Content, TypeOK
  <2>2. ASSUME NEW p \in Place, p # t PROVE Content(p)' = Content(p)
    <3>1. p[1] \in Node /\ p[2] \in File /\ (p[1] # n \/ p[2] # c)
      BY <2>2, PlaceParts
    <3>2. CASE p[2] = "ca"
      BY <1>1, <3>2 DEF Content
    <3>3. CASE p[2] # "ca"
      <4>1. signer'[p[1]][p[2]] = signer[p[1]][p[2]]
        BY <1>1, <3>1, <3>3 DEF TypeOK, File
      <4> QED BY <3>3, <4>1 DEF Content
    <3> QED BY <3>2, <3>3
  <2>3. ASSUME NEW p \in Place, p # t PROVE GivenUp(p) => GivenUp(p)'
    BY <1>1, <2>3 DEF GivenUp, Written
  <2> QED BY <1>1, <2>1, <2>2, <2>3 DEF Written
<1> HIDE DEF next
<1>6. Moves(r, n) /\ work'[r][n] = next /\ todo'[r] = todo[r]
  BY <1>1, <1>3, StepMoves
<1>7. HandlersConsistent' /\ Shape'
  BY <1>1, <1>2, <1>3, <1>6, MovesConsistent
<1>8. ASSUME NEW p \in Place \ {t} PROVE Kept(p)
  <2>1. p \in Place /\ p # t /\ (p[1] = n => p[2] # c)
    BY <1>8, PlaceParts
  <2>2. ASSUME p[1] = n, Owes(r, n, p[2]) PROVE Owes(r, n, p[2])'
    <3>1. p[2] \in SetOf(Tail(left))
      BY <1>0, <1>1, <2>1, <2>2 DEF Owes
    <3> QED BY <1>3, <1>6, <3>1 DEF Owes
  <2> QED BY <1>5, <1>6, <2>1, <2>2, MovesKeep
<1>9. Safe(t)' => Content(t)' = ca
  BY <1>5 DEF Safe, GivenUp
<1> QED BY <1>1, <1>4, <1>7, <1>8, <1>9 DEF FilesFollow

\* The key changes no certificate.
LEMMA WriteKeyFollows ==
  ASSUME TypeOK, HandlersConsistent, Shape, NEW r \in Req, NEW n \in Node, WriteKey(r, n)
  PROVE  FilesFollow /\ HandlersConsistent' /\ Shape'
<1> DEFINE left == work[r][n].left
<1>1. /\ work[r][n].at = "writeKey" /\ Onward(r, n)
      /\ UNCHANGED <<ca, ask, services, pc, caFile, signer, lapsed, overwritten>>
  BY DEF WriteKey, At, table, ghosts
<1>2. /\ pc[r] \in {"visit", "issue"} /\ n \in todo[r] /\ left # <<>>
  BY <1>1, IssuesCerts
<1>3. /\ Moves(r, n)
      /\ \/ work'[r][n] = NoWork /\ SetOf(Tail(left)) = {}
         \/ /\ work'[r][n] = [at |-> "open", held |-> None, left |-> Tail(left)]
            /\ Tail(left) # <<>>
            /\ todo'[r] = todo[r]
  BY <1>1, <1>2, OnwardMoves
<1>4. HandlersConsistent' /\ Shape'
  BY <1>2, <1>3, MovesConsistent DEF NoWork
<1>5. ASSUME NEW p \in Place PROVE Kept(p)
  <2>1. Content(p)' = Content(p) /\ (GivenUp(p) => GivenUp(p)')
    BY <1>1 DEF Content, GivenUp
  <2>2. ASSUME Owes(r, n, p[2]) PROVE Owes(r, n, p[2])'
    <3>1. p[2] \in SetOf(Tail(left))
      BY <1>1, <2>2 DEF Owes
    <3>2. work'[r][n] = [at |-> "open", held |-> None, left |-> Tail(left)]
      BY <1>3, <3>1
    <3>3. PICK rest : rest = Tail(left)
      OBVIOUS
    <3>4. work'[r][n].at = "open" /\ work'[r][n].left = rest
      BY <3>2, <3>3
    <3>5. p[2] \in SetOf(work'[r][n].left)
      BY <3>1, <3>3, <3>4
    <3> QED BY <3>4, <3>5 DEF Owes
  <2> QED BY <1>3, <2>1, <2>2, MovesKeep
<1> QED BY <1>1, <1>4, <1>5 DEF FilesFollow

\* A certificate that cannot be signed is given up, and with it those that the
\* enable of a service has not come to.
LEMMA SignFollows ==
  ASSUME TypeOK, HandlersConsistent, Shape, NEW r \in Req, NEW n \in Node, Sign(r, n)
  PROVE  FilesFollow /\ HandlersConsistent' /\ Shape'
<1> DEFINE left == work[r][n].left
           failed == lapsed' = lapsed \cup ({n} \X SetOf(left))
<1>1. /\ work[r][n].at = "sign"
      /\ UNCHANGED <<ca, ask, services, caFile, signer, overwritten>>
  BY DEF Sign, At, table, files
<1>2. /\ pc[r] \in {"visit", "issue"} /\ n \in todo[r]
      /\ left \in Seq(Cert) /\ left # <<>>
      /\ SetOf(left) = {Head(left)} \cup SetOf(Tail(left))
  BY <1>1, IssuesCerts
<1>3. \A f : Owes(r, n, f) => f \in SetOf(left)
  BY <1>1 DEF Owes
<1>4. ASSUME failed, NEW p \in Place
      PROVE  /\ Content(p)' = Content(p) /\ (GivenUp(p) => GivenUp(p)')
             /\ p[1] = n /\ Owes(r, n, p[2]) => GivenUp(p)'
  <2>1. Content(p)' = Content(p) /\ (GivenUp(p) => GivenUp(p)')
    BY <1>1, <1>4 DEF Content, GivenUp
  <2>2. ASSUME p[1] = n, Owes(r, n, p[2]) PROVE p \in lapsed'
    <3>1. p[2] \in SetOf(left) /\ p = <<n, p[2]>>
      BY <1>3, <2>2, PlaceParts
    <3> QED BY <1>4, <3>1
  <2> QED BY <2>1, <2>2 DEF GivenUp
<1>5. CASE GetCA(r, n) /\ UNCHANGED <<pc, todo, lapsed>>
  <2> DEFINE next == [work[r][n] EXCEPT !.at = "writeCert", !.held = ca]
  <2>1. ca \in CA \cup {None}
    BY DEF TypeOK
  <2>2. /\ next \in Handler /\ next.at = "writeCert" /\ next.held = ca
        /\ next.left = left
    BY <2>1, HandlerParts DEF Handler
  <2> HIDE DEF next
  <2>3. Step(r, n, next)
    BY <1>5 DEF GetCA, next
  <2>4. Moves(r, n) /\ work'[r][n] = next /\ todo'[r] = todo[r]
    BY <1>1, <1>5, <2>2, <2>3, StepMoves
  <2>5. HandlersConsistent' /\ Shape'
    BY <1>2, <2>2, <2>4, MovesConsistent
  <2>6. ASSUME NEW p \in Place PROVE Kept(p)
    <3>1. Content(p)' = Content(p) /\ (GivenUp(p) => GivenUp(p)')
      BY <1>1, <1>5 DEF Content, GivenUp
    <3>2. ASSUME Owes(r, n, p[2]) PROVE Owes(r, n, p[2])'
      BY <1>1, <1>2, <1>3, <2>2, <2>4, <3>2 DEF Owes
    <3> QED BY <2>4, <3>1, <3>2, MovesKeep
  <2> QED BY <1>1, <2>5, <2>6 DEF FilesFollow
<1>6. CASE failed /\ Onward(r, n) /\ UNCHANGED pc
  <2>1. /\ Moves(r, n)
        /\ \/ work'[r][n] = NoWork
           \/ /\ work'[r][n] = [at |-> "open", held |-> None, left |-> Tail(left)]
              /\ Tail(left) # <<>>
              /\ todo'[r] = todo[r]
    BY <1>1, <1>2, <1>6, OnwardMoves
  <2>2. HandlersConsistent' /\ Shape'
    BY <1>2, <2>1, MovesConsistent DEF NoWork
  <2>3. ASSUME NEW p \in Place PROVE Kept(p)
    BY <1>4, <1>6, <2>1, MovesKeep
  <2> QED BY <1>1, <2>2, <2>3 DEF FilesFollow
<1>7. CASE failed /\ ask[r].op = "enable" /\ Return(r, n) /\ Goto(r, "rollback")
  <2>1. /\ work'[r][n] = NoWork
        /\ \A q \in Req, m \in Node : q # r \/ m # n => work'[q][m] = work[q][m]
        /\ todo'[r] = todo[r] \ {n}
        /\ \A q \in Req : q # r => todo'[q] = todo[q]
    BY <1>7, ReturnStep
  <2>2. pc'[r] = "rollback" /\ \A q \in Req : q # r => pc'[q] = pc[q]
    BY <1>7, GotoStep DEF PcType
  <2>3. \A m \in Node : m # n => work[r][m].at = "none" /\ m \notin todo[r]
    <3>1. ShapeOf(r)
      BY DEF Shape
    <3>2. pc[r] = "issue" /\ todo[r] \subseteq {n}
      BY <1>2, <1>7, <3>1 DEF ShapeOf
    <3> QED BY <3>2, HandlerRuns DEF At
  <2>4. \A m \in Node : work'[r][m].at = "none"
    BY <2>1, <2>3 DEF NoWork
  <2>5. HandlersConsistent'
    <3> SUFFICES ASSUME NEW q \in Req, NEW m \in Node PROVE HandlerOf(q, m)'
      BY DEF HandlersConsistent, HandlerOf
    <3>1. HandlerOf(q, m)
      BY HandlersPointwise
    <3>2. CASE q = r
      BY <2>4, <3>2 DEF HandlerOf, At
    <3>3. CASE q # r
      BY <2>1, <2>2, <3>1, <3>3 DEF HandlerOf, At
    <3> QED BY <3>2, <3>3
  <2>6. Shape'
    <3>1. ShapeOf(r)'
      BY <1>1, <2>2 DEF Shape, ShapeOf
    <3> QED BY <1>1, <2>1, <2>2, <3>1, ShapeOthers
  <2>7. ASSUME NEW p \in Place PROVE Kept(p)
    <3>1. /\ Content(p)' = Content(p) /\ (GivenUp(p) => GivenUp(p)')
          /\ p[1] = n /\ Owes(r, n, p[2]) => GivenUp(p)'
      BY <1>4, <1>7
    <3>2. ASSUME Safe(p)' PROVE Safe(p)
      <4>1. Used(p) /\ ~GivenUp(p) /\ p[1] \in Node
        BY <1>1, <3>1, <3>2, UsedShrinks, PlaceParts DEF Safe
      <4>2. ASSUME NEW q \in Req, Owes(q, p[1], p[2]) PROVE FALSE
        <5>1. CASE q = r /\ p[1] = n
          BY <3>1, <3>2, <4>2, <5>1 DEF Safe
        <5>2. CASE q = r /\ p[1] # n
          BY <2>3, <4>1, <4>2, <5>2 DEF Owes
        <5>3. CASE q # r
          <6>1. Owes(q, p[1], p[2])'
            BY <1>1, <2>1, <2>2, <4>1, <4>2, <5>3, DebtKept
          <6> QED BY <3>2, <6>1 DEF Safe, Owed
        <5> QED BY <5>1, <5>2, <5>3
      <4> QED BY <4>1, <4>2 DEF Safe, Owed
    <3> QED BY <1>1, <3>1, <3>2 DEF Kept
  <2> QED BY <1>1, <2>5, <2>6, <2>7 DEF FilesFollow
<1> QED BY <1>5, <1>6, <1>7 DEF Sign

---------------------------------------------------------------------------
(* Failures, and the whole.                                                *)

\* Nothing but contexts of requests changes.
LEMMA CancelFollows ==
  ASSUME TypeOK, HandlersConsistent, Shape,
         UNCHANGED <<ca, services, caFile, signer, ask, pc, todo, work, lapsed,
                     overwritten>>
  PROVE  FilesFollow /\ HandlersConsistent' /\ Shape'
<1>1. HandlersConsistent' /\ Shape'
  BY DEF HandlersConsistent, At, Shape, ShapeOf
<1>2. ASSUME NEW p \in Place PROVE Kept(p)
  BY DEF Kept, Content, Safe, Used, UsedFiles, Enabled, GivenUp, Owed, Owes
<1> QED BY <1>1, <1>2 DEF FilesFollow

\* A crash gives the files of the node up, unless no request was at them.
LEMMA CrashFollows ==
  ASSUME TypeOK, HandlersConsistent, Shape, NEW n \in Node, Crash(n)
  PROVE  FilesFollow /\ HandlersConsistent' /\ Shape'
<1> DEFINE cut(r) == n \in todo[r] /\ (~At(r, n, "none") \/ ask[r].node = n)
<1>1. /\ UNCHANGED <<ca, services, caFile, signer, ask, overwritten>>
      /\ lapsed' = IF \E r \in Req : cut(r) THEN lapsed \cup Files(n) ELSE lapsed
  BY DEF Crash, table, files
<1>2. ASSUME NEW r \in Req
      PROVE  /\ todo'[r] = IF cut(r) THEN todo[r] \ {n} ELSE todo[r]
             /\ work'[r][n] = NoWork
             /\ \A m \in Node : m # n => work'[r][m] = work[r][m]
             /\ pc'[r] = IF ask[r].node = n /\ pc[r] # "visit" THEN "idle" ELSE pc[r]
  BY DEF Crash, TypeOK
<1>3. ASSUME NEW r \in Req, NEW m \in Node, m # n, ~At(r, m, "none") \/ pc[r] = "visit"
                                                  \/ (pc[r] = "issue" /\ m \in todo[r])
      PROVE  pc'[r] = pc[r] /\ (m \in todo'[r] <=> m \in todo[r])
  <2>1. ShapeOf(r) /\ HandlerOf(r, m)
    BY HandlersPointwise DEF Shape
  <2>2. m \in todo'[r] <=> m \in todo[r]
    BY <1>2, <1>3
  <2>3. pc[r] = "visit" \/ (pc[r] = "issue" /\ m \in todo[r])
    BY <1>3, <2>1 DEF HandlerOf
  <2>4. pc[r] = "visit" \/ ask[r].node # n
    BY <1>3, <2>1, <2>3 DEF ShapeOf
  <2> QED BY <1>2, <2>2, <2>4
<1>4. HandlersConsistent'
  <2> SUFFICES ASSUME NEW r \in Req, NEW m \in Node PROVE HandlerOf(r, m)'
    BY DEF HandlersConsistent, HandlerOf
  <2>1. HandlerOf(r, m)
    BY HandlersPointwise
  <2>2. CASE m = n
    <3>1. work'[r][m] = NoWork
      BY <1>2, <2>2
    <3> QED BY <3>1 DEF HandlerOf, At, NoWork
  <2>3. CASE m # n
    <3>1. work'[r][m] = work[r][m]
      BY <1>2, <2>3
    <3>2. CASE At(r, m, "none")
      BY <3>1, <3>2 DEF HandlerOf, At
    <3>3. CASE ~At(r, m, "none")
      <4>1. pc'[r] = pc[r] /\ (m \in todo'[r] <=> m \in todo[r])
        BY <1>3, <2>3, <3>3
      <4> QED BY <2>1, <3>1, <3>3, <4>1 DEF HandlerOf, At
    <3> QED BY <3>2, <3>3
  <2> QED BY <2>2, <2>3
<1>5. Shape'
  <2> SUFFICES ASSUME NEW r \in Req PROVE ShapeOf(r)'
    BY DEF Shape
  <2>1. ShapeOf(r) /\ todo'[r] \subseteq todo[r] /\ ask'[r] = ask[r]
        /\ pc'[r] \in {pc[r], "idle"}
    BY <1>1, <1>2 DEF Shape
  <2> QED BY <2>1 DEF ShapeOf
<1>6. ASSUME NEW p \in Place PROVE Kept(p)
  <2>1. Content(p)' = Content(p) /\ (GivenUp(p) => GivenUp(p)') /\ p[1] \in Node
    BY <1>1, PlaceParts DEF Content, GivenUp
  <2>2. ASSUME Safe(p)' PROVE Safe(p)
    <3>1. Used(p) /\ ~GivenUp(p) /\ ~GivenUp(p)'
      BY <1>1, <2>1, <2>2, UsedShrinks DEF Safe
    <3>2. ASSUME NEW r \in Req, Owes(r, p[1], p[2]) PROVE FALSE
      <4>1. ~Owes(r, p[1], p[2])'
        BY <2>2 DEF Safe, Owed
      <4>2. CASE p[1] # n
        <5>1. ~At(r, p[1], "none") \/ pc[r] = "visit"
                \/ (pc[r] = "issue" /\ p[1] \in todo[r])
          BY <3>2 DEF Owes, At
        <5>2. pc'[r] = pc[r] /\ (p[1] \in todo'[r] <=> p[1] \in todo[r])
          BY <1>3, <2>1, <4>2, <5>1
        <5> QED BY <1>1, <1>2, <2>1, <3>2, <4>1, <4>2, <5>2, DebtKept
      <4>3. CASE p[1] = n /\ cut(r)
        <5>1. lapsed' = lapsed \cup Files(n)
          BY <1>1, <4>3
        <5> QED BY <1>1, <3>1, <4>3, <5>1, GivesUpFiles
      <4>4. CASE p[1] = n /\ ~cut(r)
        <5>1. HandlerOf(r, n) /\ ShapeOf(r)
          BY HandlersPointwise DEF Shape
        <5>2. work[r][n].at = "none"
          BY <4>4, <5>1 DEF HandlerOf, At
        <5>3. n \in todo[r] /\ pc[r] \in {"visit", "issue"}
          BY <3>2, <4>4, <5>2 DEF Owes
        <5>4. ask[r].node # n
          BY <4>4, <5>3
        <5>5. pc[r] = "visit"
          BY <5>1, <5>3, <5>4 DEF ShapeOf
        <5>6. work'[r][n] = NoWork
          BY <1>2
        <5>7. work'[r][n].at = "none"
          BY <5>6 DEF NoWork
        <5>8. ~cut(r)
          BY <4>4
        <5> HIDE DEF cut
        <5>9. todo'[r] = todo[r]
          BY <1>2, <5>8
        <5>10. pc'[r] = "visit"
          BY <1>2, <5>5
        <5> QED BY <4>1, <4>4, <5>3, <5>7, <5>9, <5>10 DEF Owes
      <4> QED BY <4>2, <4>3, <4>4
    <3> QED BY <3>1, <3>2 DEF Safe, Owed
  <2> QED BY <1>1, <2>1, <2>2 DEF Kept
<1> QED BY <1>1, <1>4, <1>5, <1>6 DEF FilesFollow

\* The inductive invariant but for the contents of the files.
Wellformed == TypeOK /\ HandlersConsistent /\ Shape

\* The invariant holds in a settled cluster.
LEMMA InitWellformed == Init => Wellformed /\ CertInductive
<1> SUFFICES ASSUME Init PROVE Wellformed /\ CertInductive
  OBVIOUS
<1>1. HandlersConsistent
  BY DEF Init, HandlersConsistent, At, NoWork
<1>2. Shape
  BY DEF Init, Shape, ShapeOf
<1>3. \A p \in Place : Content(p) = ca
  BY PlaceParts DEF Init, Content, File
<1> QED BY <1>1, <1>2, <1>3, InitType DEF Wellformed, CertInductive

\* Every step leaves the invariant alone and moves the files as Replication does.
LEMMA NextFollows ==
  ASSUME Wellformed, [Next]_vars
  PROVE  FilesFollow /\ Wellformed'
<1>0. TypeOK /\ HandlersConsistent /\ Shape /\ Asked
  BY DEF Wellformed, Shape, ShapeOf, Asked
<1>1. ASSUME NEW r \in Req, Issue(r) PROVE FilesFollow /\ Wellformed'
  BY <1>0, <1>1, IssueFollows, IssueType DEF Wellformed
<1>2. ASSUME NEW r \in Req, RequestStep(r) PROVE FilesFollow /\ Wellformed'
  <2>1. CASE ScriptInfo(r) \/ ScriptCa(r) \/ ScriptCert(r)
    BY <1>0, <2>1, ScriptFollows, ScriptType DEF Wellformed
  <2>2. CASE StoreCa(r)
    BY <1>0, <2>2, StoreFollows, CommandType DEF Wellformed
  <2>3. CASE ServiceRow(r)
    BY <1>0, <2>3, ServiceRowFollows, CommandType DEF Wellformed
  <2>4. CASE Rollback(r) \/ End(r)
    BY <1>0, <2>4, RollbackFollows, CommandType DEF Wellformed
  <2> QED BY <1>2, <2>1, <2>2, <2>3, <2>4 DEF RequestStep
<1>3. ASSUME NEW r \in Req, NEW n \in Node, Renew(r, n) PROVE FilesFollow /\ Wellformed'
  BY <1>0, <1>3, ScriptFollows, RenewType DEF Wellformed
<1>4. ASSUME NEW r \in Req, NEW n \in Node,
             Visit(r, n) \/ Lost(r, n) \/ DumpRead(r, n) \/ DumpWrite(r, n) \/ List(r, n)
      PROVE  FilesFollow /\ Wellformed'
  <2>1. TypeOK'
    BY <1>0, <1>4, VisitType
  <2>2. FilesFollow /\ HandlersConsistent' /\ Shape'
    BY <1>0, <1>4, VisitFollows, LostFollows, DumpReadFollows, DumpWriteFollows,
       ListFollows
  <2> QED BY <2>1, <2>2 DEF Wellformed
<1>5. ASSUME NEW r \in Req, NEW n \in Node,
             Open(r, n) \/ Sign(r, n) \/ WriteCert(r, n) \/ WriteKey(r, n)
      PROVE  FilesFollow /\ Wellformed'
  <2>1. TypeOK'
    BY <1>0, <1>5, CertType
  <2>2. FilesFollow /\ HandlersConsistent' /\ Shape'
    BY <1>0, <1>5, OpenFollows, SignFollows, WriteCertFollows, WriteKeyFollows
  <2> QED BY <2>1, <2>2 DEF Wellformed
<1>6. ASSUME NEW r \in Req, NEW N \in SUBSET Node, Cancel(r, N)
      PROVE  FilesFollow /\ Wellformed'
  <2>1. TypeOK'
    BY <1>0, <1>6, FailureType
  <2>2. UNCHANGED <<ca, services, caFile, signer, ask, pc, todo, work, lapsed, overwritten>>
    BY <1>6 DEF Cancel, table, files, ghosts
  <2> QED BY <1>0, <2>1, <2>2, CancelFollows DEF Wellformed
<1>7. ASSUME NEW n \in Node, Crash(n) PROVE FilesFollow /\ Wellformed'
  BY <1>0, <1>7, FailureType, CrashFollows DEF Wellformed
<1>8. CASE UNCHANGED vars
  <2>1. TypeOK'
    BY <1>0, <1>8 DEF TypeOK, vars, table, files, ghosts, flow
  <2>2. UNCHANGED <<ca, services, caFile, signer, ask, pc, todo, work, lapsed, overwritten>>
    BY <1>8 DEF vars, table, files, ghosts, flow
  <2> QED BY <1>0, <2>1, <2>2, CancelFollows DEF Wellformed
<1>9. CASE \E r \in Req, n \in Node : HandlerStep(r, n)
  BY <1>4, <1>5, <1>9 DEF HandlerStep
<1> QED BY <1>1, <1>2, <1>3, <1>4, <1>6, <1>7, <1>8, <1>9 DEF Next, Settled

\* Files that follow keep the invariant about their contents.
LEMMA FollowingKeeps ==
  ASSUME CertInductive, FilesFollow, Wellformed'
  PROVE  CertInductive'
<1>1. ASSUME NEW p \in Place, Safe(p)' PROVE Content(p)' = ca'
  BY <1>1 DEF FilesFollow, Kept, CertInductive, Safe
<1> QED BY <1>1 DEF CertInductive, Wellformed, Safe

---------------------------------------------------------------------------
(* The invariants.                                                         *)

\* Every variable keeps its type, for every cluster, set of CAs, number of
\* requests in flight and of faults.
THEOREM CertTypeOK == Spec => []TypeOK
<1>1. Init => Wellformed
  BY InitWellformed
<1>2. Wellformed /\ [Next]_vars => Wellformed'
  BY NextFollows
<1>3. Wellformed => TypeOK
  BY DEF Wellformed
<1> QED BY <1>1, <1>2, <1>3, PTL DEF Spec

\* At every moment a file in use that differs from the table is owed a write or
\* was given up: no interleaving of a change of the CA, of reissues and of
\* enables loses a file silently.
THEOREM CertInductiveAlways == Spec => [](Wellformed /\ CertInductive)
<1>1. Init => Wellformed /\ CertInductive
  BY InitWellformed
<1>2. Wellformed /\ CertInductive /\ [Next]_vars => (Wellformed /\ CertInductive)'
  BY NextFollows, FollowingKeeps
<1> QED BY <1>1, <1>2, PTL DEF Spec

\* Nobody owes a file anything once no request is in flight, so that after the
\* last request every file in use follows the CA or was given up.
THEOREM CertFollows == Spec => []CertificatesFollowCa
<1>1. CertInductive => CertificatesFollowCa
  <2> SUFFICES ASSUME CertInductive, Quiet, NEW p \in Place, Used(p)
               PROVE  GivenUp(p) \/ Content(p) = ca
    BY DEF CertificatesFollowCa
  <2>1. ASSUME NEW r \in Req PROVE ~Owes(r, p[1], p[2])
    <3>1. pc[r] \notin {"visit", "issue"}
      BY DEF Quiet
    <3> QED BY <3>1, NoDebt, PlaceParts DEF CertInductive
  <2>2. ~Owed(p)
    BY <2>1 DEF Owed
  <2> QED BY <2>2 DEF CertInductive
<1> QED BY <1>1, CertInductiveAlways, PTL

---------------------------------------------------------------------------
(* Certificates and their keys.                                            *)

\* The handler of r on n writes the two files of certificate c.
Writes(r, n, c) ==
  /\ work[r][n].at \in {"sign", "writeCert", "writeKey"}
  /\ Head(work[r][n].left) = c

\* Unless two requests wrote the files of c at once, one handler does: what it
\* has written is its own, and what it leaves belongs together or was given up.
KeyKept(n, c) ==
  \/ <<n, c>> \in collided
  \/ /\ \A q, r \in Req : Writes(q, n, c) /\ Writes(r, n, c) => q = r
     /\ \A r \in Req : Writes(r, n, c) /\ At(r, n, "writeKey") => certKey[n][c] = r
     /\ (\A r \in Req : ~Writes(r, n, c)) =>
          \/ <<n, c>> \in lapsed \/ signer[n][c] = None
          \/ certKey[n][c] = keyFile[n][c]

\* At every moment, whatever requests do and whichever step of one of them fails,
\* certificate and key on a node are of one request or it is known why not.
KeysKept == \A n \in Node, c \in Cert : KeyKept(n, c)

\* A step that leaves the files of c alone, and gives them up if it ends their
\* handler.
LEMMA KeyUndisturbed ==
  ASSUME NEW n, NEW c, KeyKept(n, c),
         \A r \in Req : Writes(r, n, c)' =>
           Writes(r, n, c) /\ (At(r, n, "writeKey")' => At(r, n, "writeKey")),
         \A r \in Req : Writes(r, n, c) => Writes(r, n, c)' \/ <<n, c>> \in lapsed',
         <<n, c>> \in lapsed => <<n, c>> \in lapsed',
         <<n, c>> \in collided => <<n, c>> \in collided',
         signer'[n][c] = signer[n][c], certKey'[n][c] = certKey[n][c],
         keyFile'[n][c] = keyFile[n][c]
  PROVE  KeyKept(n, c)'
<1>1. CASE <<n, c>> \in collided
  BY <1>1 DEF KeyKept
<1>2. CASE <<n, c>> \notin collided
  <2>1. \A q, r \in Req : Writes(q, n, c)' /\ Writes(r, n, c)' => q = r
    BY <1>2 DEF KeyKept
  <2>2. \A r \in Req : Writes(r, n, c)' /\ At(r, n, "writeKey")' => certKey'[n][c] = r
    BY <1>2 DEF KeyKept
  <2>3. ASSUME \A r \in Req : ~Writes(r, n, c)'
        PROVE  \/ <<n, c>> \in lapsed' \/ signer'[n][c] = None
               \/ certKey'[n][c] = keyFile'[n][c]
    BY <1>2, <2>3 DEF KeyKept
  <2> QED BY <2>1, <2>2, <2>3 DEF KeyKept
<1> QED BY <1>1, <1>2

\* A step of the handler of r on n that writes no file of a certificate.
LEMMA HandlerKeeps ==
  ASSUME KeysKept, NEW r \in Req, NEW n \in Node,
         \A q \in Req, m \in Node : q # r \/ m # n => work'[q][m] = work[q][m],
         \A c \in Cert : Writes(r, n, c)' =>
           Writes(r, n, c) /\ (At(r, n, "writeKey")' => At(r, n, "writeKey")),
         \A c \in Cert : Writes(r, n, c) => Writes(r, n, c)' \/ <<n, c>> \in lapsed',
         \A m \in Node, c \in Cert : <<m, c>> \in lapsed => <<m, c>> \in lapsed',
         UNCHANGED <<collided, signer, certKey, keyFile>>
  PROVE  KeysKept'
<1> SUFFICES ASSUME NEW m \in Node, NEW c \in Cert PROVE KeyKept(m, c)'
  BY DEF KeysKept
<1>1. ASSUME NEW q \in Req
      PROVE  /\ Writes(q, m, c)' =>
                  Writes(q, m, c) /\ (At(q, m, "writeKey")' => At(q, m, "writeKey"))
             /\ Writes(q, m, c) => Writes(q, m, c)' \/ <<m, c>> \in lapsed'
  <2>1. CASE q = r /\ m = n
    BY <2>1
  <2>2. CASE q # r \/ m # n
    <3>1. work'[q][m] = work[q][m]
      BY <2>2
    <3> QED BY <3>1 DEF Writes, At
  <2> QED BY <2>1, <2>2
<1>2. KeyKept(m, c)
  BY DEF KeysKept
<1> QED BY <1>1, <1>2, KeyUndisturbed

\* A step that reaches no handler, and gives files up at most.
LEMMA RequestKeepsKeys ==
  ASSUME KeysKept, UNCHANGED <<work, collided, signer, certKey, keyFile>>,
         lapsed \subseteq lapsed'
  PROVE  KeysKept'
<1> SUFFICES ASSUME NEW n \in Node, NEW c \in Cert PROVE KeyKept(n, c)'
  BY DEF KeysKept
<1>1. KeyKept(n, c) /\ \A r \in Req : /\ Writes(r, n, c)' <=> Writes(r, n, c)
                                      /\ At(r, n, "writeKey")' <=> At(r, n, "writeKey")
  BY DEF KeysKept, Writes, At
<1> QED BY <1>1, KeyUndisturbed

\* Before certificates are issued no handler is at their files; when one is not
\* signed they are given up.
LEMMA VisitKeepsKeys ==
  ASSUME TypeOK, HandlersConsistent, KeysKept, NEW r \in Req, NEW n \in Node, Asked,
         Visit(r, n) \/ DumpRead(r, n) \/ DumpWrite(r, n) \/ List(r, n)
  PROVE  KeysKept'
<1>1. ask[r] \in Ask /\ work[r][n] \in Handler /\ NoWork \in Handler /\ ca \in CA
  BY HandlerParts, NoWorkType DEF TypeOK
<1>2. \A c : ~Writes(r, n, c)
  BY DEF Visit, MayVisit, DumpRead, DumpWrite, List, At, Writes
<1>3. UNCHANGED <<collided, signer, certKey, keyFile>>
  BY DEF Visit, DumpRead, DumpWrite, List, files, ghosts
<1>4. \A m \in Node, c \in Cert : <<m, c>> \in lapsed => <<m, c>> \in lapsed'
  <2>1. CASE Visit(r, n) \/ DumpRead(r, n) \/ List(r, n)
    BY <2>1 DEF Visit, DumpRead, List, ghosts
  <2>2. CASE DumpWrite(r, n)
    <3>1. lapsed \ {<<n, "ca">>} \subseteq lapsed'
      BY <2>2 DEF DumpWrite, Written
    <3>2. "ca" \notin Cert
      BY DEF Cert
    <3> QED BY <3>1, <3>2
  <2> QED BY <2>1, <2>2
<1>5. ASSUME NEW next \in Handler, Step(r, n, next),
             next.at \notin {"sign", "writeCert", "writeKey"}
      PROVE  KeysKept'
  <2>1. /\ work'[r][n] = next
        /\ \A q \in Req, m \in Node : q # r \/ m # n => work'[q][m] = work[q][m]
    BY <1>5, WorkStep
  <2>2. \A c : ~Writes(r, n, c)'
    BY <1>5, <2>1 DEF Writes
  <2> QED BY <1>2, <1>3, <1>4, <2>1, <2>2, HandlerKeeps
<1>6. CASE Visit(r, n)
  <2>1. [NoWork EXCEPT !.at = "dumpRead"] \in Handler
        /\ [NoWork EXCEPT !.at = "list"] \in Handler
        /\ [NoWork EXCEPT !.at = "dumpRead"].at = "dumpRead"
        /\ [NoWork EXCEPT !.at = "list"].at = "list"
    BY NoWorkType DEF Handler
  <2>2. CASE ask[r].op = "enable"
    <3>1. JoinCerts(ask[r].svc) \in Seq(Cert)
      BY <2>2, CertSequences, InstanceAssumption DEF Asked
    <3> DEFINE next == [NoWork EXCEPT !.at = "open", !.left = JoinCerts(ask[r].svc)]
    <3>2. next \in Handler /\ next.at = "open"
      BY <3>1, NoWorkType DEF Handler
    <3>3. Step(r, n, next) \/ Step(r, n, [NoWork EXCEPT !.at = "dumpRead"])
      BY <1>6, <2>2 DEF Visit
    <3> HIDE DEF next
    <3> QED BY <1>5, <2>1, <3>2, <3>3
  <2>3. CASE ask[r].op # "enable"
    <3>1. Step(r, n, [NoWork EXCEPT !.at = "dumpRead"])
          \/ Step(r, n, [NoWork EXCEPT !.at = "list"])
      BY <1>6, <2>3 DEF Visit
    <3> QED BY <1>5, <2>1, <3>1
  <2> QED BY <2>2, <2>3
<1>7. CASE Return(r, n)
  <2>1. Step(r, n, NoWork) /\ NoWork.at = "none"
    BY <1>7 DEF Return, NoWork
  <2> QED BY <1>1, <1>5, <2>1
<1>8. CASE DumpRead(r, n)
  <2> DEFINE next == [work[r][n] EXCEPT !.at = "dumpWrite", !.held = ca]
  <2>1. next \in Handler /\ next.at = "dumpWrite"
    BY <1>1 DEF Handler
  <2>2. Step(r, n, next) \/ Return(r, n)
    BY <1>8 DEF DumpRead
  <2> HIDE DEF next
  <2> QED BY <1>5, <1>7, <2>1, <2>2
<1>9. CASE DumpWrite(r, n)
  <2> DEFINE next == [work[r][n] EXCEPT !.at = "list", !.held = None]
  <2>1. next \in Handler /\ next.at = "list"
    BY <1>1 DEF Handler
  <2>2. Step(r, n, next)
    BY <1>9 DEF DumpWrite
  <2> HIDE DEF next
  <2> QED BY <1>5, <2>1, <2>2
<1>10. CASE List(r, n)
  <2>1. <<ask[r].cert>> \in Seq(Cert) /\ enabledOvnServices(n) \in Seq(Cert)
    BY <1>1, CertSequences DEF Ask
  <2> DEFINE certs == IF ask[r].op # "reissueAll" /\ pc[r] = "issue"
                      THEN <<ask[r].cert>> ELSE enabledOvnServices(n)
         next == [work[r][n] EXCEPT !.at = "open", !.left = certs]
  <2>2. Return(r, n) \/ Step(r, n, next)
    BY <1>10 DEF List
  <2>3. certs \in Seq(Cert)
    BY <2>1
  <2> HIDE DEF certs
  <2>4. next \in Handler /\ next.at = "open"
    BY <1>1, <2>3 DEF Handler
  <2> HIDE DEF next
  <2> QED BY <1>5, <1>7, <2>2, <2>4
<1> QED BY <1>6, <1>8, <1>9, <1>10

\* Both files are truncated: they belong to r, unless somebody is at them.
LEMMA OpenKeepsKeys ==
  ASSUME TypeOK, HandlersConsistent, KeysKept, NEW r \in Req, NEW n \in Node, Open(r, n)
  PROVE  KeysKept'
<1> DEFINE d == Head(work[r][n].left)
           next == [work[r][n] EXCEPT !.at = "sign"]
<1>1. next \in Handler /\ next.at = "sign" /\ next.left = work[r][n].left
  BY HandlerParts DEF Handler
<1>2. /\ work'[r][n] = next
      /\ \A q \in Req, m \in Node : q # r \/ m # n => work'[q][m] = work[q][m]
  <2>1. Step(r, n, next)
    BY DEF Open
  <2> HIDE DEF next
  <2> QED BY <1>1, <2>1, WorkStep
<1>3. d \in Cert
  BY HandlerParts, HeadAndTail DEF HandlersConsistent, Open, At
<1> SUFFICES ASSUME NEW m \in Node, NEW c \in Cert PROVE KeyKept(m, c)'
  BY DEF KeysKept
<1>4. CASE m = n /\ c = d
  <2>1. \A q \in Req : Writes(q, n, c)' <=> q = r \/ Writes(q, n, c)
    <3>1. Writes(r, n, c)'
      BY <1>1, <1>2, <1>4 DEF Writes
    <3>2. \A q \in Req : q # r => (Writes(q, n, c)' <=> Writes(q, n, c))
      BY <1>2 DEF Writes
    <3> QED BY <3>1, <3>2
  <2>2. CASE \E q \in Req \ {r} : Writes(q, n, c)
    <3>1. <<n, c>> \in collided'
      BY <1>4, <2>2 DEF Open, Writes
    <3> QED BY <1>4, <3>1 DEF KeyKept
  <2>3. CASE \A q \in Req \ {r} : ~Writes(q, n, c)
    <3>1. \A q \in Req : Writes(q, n, c)' <=> q = r
      BY <2>1, <2>3
    <3>2. ~At(r, n, "writeKey")'
      BY <1>1, <1>2 DEF At
    <3> QED BY <1>4, <3>1, <3>2 DEF KeyKept
  <2> QED BY <2>2, <2>3
<1>5. CASE m # n \/ c # d
  <2>1. KeyKept(m, c)
    BY DEF KeysKept
  <2>2. ASSUME NEW q \in Req
        PROVE  /\ Writes(q, m, c)' <=> Writes(q, m, c)
               /\ Writes(q, m, c)' /\ At(q, m, "writeKey")' => At(q, m, "writeKey")
    <3>1. CASE q = r /\ m = n
      <4>1. ~Writes(r, n, c)
        BY DEF Open, At, Writes
      <4>2. ~Writes(r, n, c)'
        BY <1>1, <1>2, <1>5, <3>1 DEF Writes
      <4> QED BY <3>1, <4>1, <4>2
    <3>2. CASE q # r \/ m # n
      <4>1. work'[q][m] = work[q][m]
        BY <1>2, <3>2
      <4> QED BY <4>1 DEF Writes, At
    <3> QED BY <3>1, <3>2
  <2>3. /\ signer'[m][c] = signer[m][c] /\ certKey'[m][c] = certKey[m][c]
        /\ keyFile'[m][c] = keyFile[m][c] /\ lapsed' = lapsed
        /\ <<m, c>> \in collided => <<m, c>> \in collided'
    BY <1>5 DEF Open, TypeOK
  <2> QED BY <2>1, <2>2, <2>3, KeyUndisturbed
<1> QED BY <1>4, <1>5

\* A certificate is signed, or given up.
LEMMA SignKeepsKeys ==
  ASSUME TypeOK, HandlersConsistent, KeysKept, NEW r \in Req, NEW n \in Node, Sign(r, n)
  PROVE  KeysKept'
<1> DEFINE w == work[r][n]
<1>1. w.at = "sign" /\ w.left \in Seq(Cert) /\ w.left # <<>> /\ ca \in CA
  BY HandlerParts DEF Sign, At, HandlersConsistent, TypeOK
<1>2. UNCHANGED <<collided, signer, certKey, keyFile>> /\ lapsed \subseteq lapsed'
  BY DEF Sign, files
<1>3. CASE GetCA(r, n)
  <2> DEFINE next == [w EXCEPT !.at = "writeCert", !.held = ca]
  <2>1. next \in Handler /\ next.at = "writeCert" /\ next.left = w.left
    BY <1>1, HandlerParts DEF Handler
  <2>2. Step(r, n, next)
    BY <1>3 DEF GetCA
  <2> HIDE DEF next
  <2>3. /\ work'[r][n] = next
        /\ \A q \in Req, m \in Node : q # r \/ m # n => work'[q][m] = work[q][m]
    BY <2>1, <2>2, WorkStep
  <2>4. ~At(r, n, "writeKey")' /\ \A c : Writes(r, n, c)' <=> Writes(r, n, c)
    BY <1>1, <2>1, <2>3 DEF Writes, At
  <2> QED BY <1>2, <2>3, <2>4, HandlerKeeps
<1>4. CASE lapsed' = lapsed \cup ({n} \X SetOf(w.left)) /\ (Return(r, n) \/ Onward(r, n))
  <2>1. /\ \A q \in Req, m \in Node : q # r \/ m # n => work'[q][m] = work[q][m]
        /\ work'[r][n].at \in {"none", "open"}
    <3>1. CASE Return(r, n)
      <4>1. /\ work'[r][n] = NoWork
            /\ \A q \in Req, m \in Node : q # r \/ m # n => work'[q][m] = work[q][m]
        BY <3>1, ReturnStep
      <4> QED BY <4>1 DEF NoWork
    <3>2. CASE Onward(r, n)
      <4>1. /\ \/ work'[r][n] = NoWork
               \/ work'[r][n] = [at |-> "open", held |-> None, left |-> Tail(w.left)]
            /\ \A q \in Req, m \in Node : q # r \/ m # n => work'[q][m] = work[q][m]
        BY <1>1, <3>2, OnwardStep
      <4> QED BY <4>1 DEF NoWork
    <3> QED BY <1>4, <3>1, <3>2
  <2>2. \A c : ~Writes(r, n, c)'
    BY <2>1 DEF Writes
  <2>3. \A c : Writes(r, n, c) => <<n, c>> \in lapsed'
    <3>1. Head(w.left) \in SetOf(w.left)
      BY <1>1, HeadAndTail
    <3> QED BY <1>4, <3>1 DEF Writes
  <2> QED BY <1>2, <2>1, <2>2, <2>3, HandlerKeeps
<1> QED BY <1>3, <1>4 DEF Sign

\* The certificate is written: its key is the one of r.
LEMMA WriteCertKeepsKeys ==
  ASSUME TypeOK, HandlersConsistent, KeysKept, NEW r \in Req, NEW n \in Node,
         WriteCert(r, n)
  PROVE  KeysKept'
<1> DEFINE d == Head(work[r][n].left)
           next == [work[r][n] EXCEPT !.at = "writeKey", !.held = None]
<1>1. next \in Handler /\ next.at = "writeKey" /\ next.left = work[r][n].left
  BY HandlerParts DEF Handler
<1>2. /\ work'[r][n] = next
      /\ \A q \in Req, m \in Node : q # r \/ m # n => work'[q][m] = work[q][m]
  <2>1. Step(r, n, next)
    BY DEF WriteCert
  <2> HIDE DEF next
  <2> QED BY <1>1, <2>1, WorkStep
<1>3. d \in Cert
  BY HandlerParts, HeadAndTail DEF HandlersConsistent, WriteCert, At
<1>4. \A q \in Req, m \in Node, c \in Cert : Writes(q, m, c)' <=> Writes(q, m, c)
  <2> SUFFICES ASSUME NEW q \in Req, NEW m \in Node, NEW c \in Cert
               PROVE  Writes(q, m, c)' <=> Writes(q, m, c)
    OBVIOUS
  <2>1. CASE q = r /\ m = n
    BY <1>1, <1>2, <2>1 DEF Writes, WriteCert, At
  <2>2. CASE q # r \/ m # n
    <3>1. work'[q][m] = work[q][m]
      BY <1>2, <2>2
    <3> QED BY <3>1 DEF Writes
  <2> QED BY <2>1, <2>2
<1> SUFFICES ASSUME NEW m \in Node, NEW c \in Cert PROVE KeyKept(m, c)'
  BY DEF KeysKept
<1>5. KeyKept(m, c) /\ collided' = collided
  BY DEF KeysKept, WriteCert
<1>6. CASE m = n /\ c = d
  <2>1. Writes(r, n, d) /\ certKey'[n][d] = r
    BY <1>3 DEF Writes, WriteCert, At, TypeOK
  <2> QED BY <1>4, <1>5, <1>6, <2>1 DEF KeyKept
<1>7. CASE m # n \/ c # d
  <2>1. \A q \in Req : Writes(q, m, c)' /\ At(q, m, "writeKey")' => At(q, m, "writeKey")
    <3> SUFFICES ASSUME NEW q \in Req, Writes(q, m, c)', At(q, m, "writeKey")'
                 PROVE  At(q, m, "writeKey")
      OBVIOUS
    <3>1. q # r \/ m # n
      BY <1>1, <1>2, <1>7 DEF Writes
    <3>2. work'[q][m] = work[q][m]
      BY <1>2, <3>1
    <3> QED BY <3>2 DEF At
  <2>2. /\ signer'[m][c] = signer[m][c] /\ certKey'[m][c] = certKey[m][c]
        /\ keyFile' = keyFile
    BY <1>7 DEF WriteCert, TypeOK
  <2>3. <<m, c>> \in lapsed => <<m, c>> \in lapsed'
    BY <1>7 DEF WriteCert, Written
  <2> QED BY <1>4, <1>5, <2>1, <2>2, <2>3, KeyUndisturbed
<1> QED BY <1>6, <1>7

\* The key is written: the two files belong together.
LEMMA WriteKeyKeepsKeys ==
  ASSUME TypeOK, HandlersConsistent, KeysKept, NEW r \in Req, NEW n \in Node,
         WriteKey(r, n)
  PROVE  KeysKept'
<1> DEFINE d == Head(work[r][n].left)
<1>1. work[r][n].at = "writeKey" /\ work[r][n].left # <<>>
  BY DEF HandlersConsistent, WriteKey, At
<1>2. /\ work'[r][n].at \in {"none", "open"}
      /\ \A q \in Req, m \in Node : q # r \/ m # n => work'[q][m] = work[q][m]
  <2>1. Onward(r, n)
    BY DEF WriteKey
  <2>2. /\ \/ work'[r][n] = NoWork
           \/ work'[r][n] = [at |-> "open", held |-> None,
                             left |-> Tail(work[r][n].left)]
        /\ \A q \in Req, m \in Node : q # r \/ m # n => work'[q][m] = work[q][m]
    BY <1>1, <2>1, OnwardStep
  <2> QED BY <2>2 DEF NoWork
<1>3. d \in Cert
  BY <1>1, HandlerParts, HeadAndTail
<1>4. ASSUME NEW q \in Req, NEW m \in Node, NEW c \in Cert
      PROVE  /\ Writes(q, m, c)' => Writes(q, m, c) /\ (q # r \/ m # n)
             /\ Writes(q, m, c)' /\ At(q, m, "writeKey")' => At(q, m, "writeKey")
             /\ Writes(q, m, c) => Writes(q, m, c)' \/ (q = r /\ m = n /\ c = d)
  <2>1. CASE q = r /\ m = n
    BY <1>2, <2>1 DEF Writes
  <2>2. CASE q # r \/ m # n
    <3>1. work'[q][m] = work[q][m]
      BY <1>2, <2>2
    <3> QED BY <2>2, <3>1 DEF Writes, At
  <2> QED BY <2>1, <2>2
<1> SUFFICES ASSUME NEW m \in Node, NEW c \in Cert PROVE KeyKept(m, c)'
  BY DEF KeysKept
<1>5. KeyKept(m, c) /\ UNCHANGED <<collided, signer, certKey, lapsed>>
  BY DEF KeysKept, WriteKey, ghosts
<1>6. CASE m = n /\ c = d
  <2>1. Writes(r, n, c) /\ At(r, n, "writeKey")
    BY <1>1, <1>6 DEF Writes, At
  <2>2. keyFile'[n][c] = r
    BY <1>6 DEF WriteKey, TypeOK
  <2>3. CASE <<n, c>> \in collided
    BY <1>5, <1>6, <2>3 DEF KeyKept
  <2>4. CASE <<n, c>> \notin collided
    <3>1. certKey[n][c] = r /\ \A q \in Req : Writes(q, n, c) => q = r
      BY <1>5, <1>6, <2>1, <2>4 DEF KeyKept
    <3>2. \A q \in Req : ~Writes(q, n, c)'
      BY <1>4, <3>1
    <3>3. certKey'[n][c] = keyFile'[n][c]
      BY <1>5, <2>2, <3>1
    <3> QED BY <1>6, <3>2, <3>3 DEF KeyKept
  <2> QED BY <2>3, <2>4
<1>7. CASE m # n \/ c # d
  <2>1. keyFile'[m][c] = keyFile[m][c]
    BY <1>7 DEF WriteKey, TypeOK
  <2> QED BY <1>4, <1>5, <1>7, <2>1, KeyUndisturbed
<1> QED BY <1>6, <1>7

\* A crash gives up the files that a handler was writing.
LEMMA CrashKeepsKeys ==
  ASSUME TypeOK, HandlersConsistent, KeysKept, NEW n \in Node, Crash(n)
  PROVE  KeysKept'
<1> SUFFICES ASSUME NEW m \in Node, NEW c \in Cert PROVE KeyKept(m, c)'
  BY DEF KeysKept
<1>1. /\ KeyKept(m, c) /\ lapsed \subseteq lapsed'
      /\ UNCHANGED <<collided, signer, certKey, keyFile>>
  BY DEF KeysKept, Crash, files
<1>2. \A r \in Req : work'[r][m] = IF m = n THEN NoWork ELSE work[r][m]
  BY DEF Crash, TypeOK
<1>3. \A r \in Req : /\ Writes(r, m, c)' => Writes(r, m, c) /\ m # n
                     /\ m # n => (At(r, m, "writeKey")' => At(r, m, "writeKey"))
                     /\ Writes(r, m, c) /\ m # n => Writes(r, m, c)'
  BY <1>2 DEF Writes, At, NoWork
<1>4. ASSUME NEW r \in Req, Writes(r, m, c), m = n PROVE <<m, c>> \in lapsed'
  <2>1. ~At(r, n, "none") /\ n \in todo[r]
    BY <1>4 DEF Writes, At, HandlersConsistent
  <2>2. lapsed' = lapsed \cup Files(n)
    BY <2>1 DEF Crash
  <2> QED BY <1>4, <2>2 DEF Files, File
<1> QED BY <1>1, <1>3, <1>4, KeyUndisturbed

\* Every step keeps certificates with their keys.
LEMMA NextKeepsKeys ==
  ASSUME Wellformed, KeysKept, [Next]_vars
  PROVE  KeysKept'
<1>0. TypeOK /\ HandlersConsistent /\ Asked
  BY DEF Wellformed, Shape, ShapeOf, Asked
<1>1. ASSUME NEW r \in Req, Issue(r) \/ RequestStep(r) PROVE KeysKept'
  <2>1. UNCHANGED <<work, collided, signer, certKey, keyFile, lapsed>>
    BY <1>1 DEF Issue, RequestStep, ScriptInfo, ScriptCa, ScriptCert, StoreCa, ServiceRow,
       Rollback, End, files, ghosts
  <2> QED BY <2>1, RequestKeepsKeys
<1>2. ASSUME NEW r \in Req, NEW N, Cancel(r, N) PROVE KeysKept'
  <2>1. UNCHANGED <<work, collided, signer, certKey, keyFile, lapsed>>
    BY <1>2 DEF Cancel, files, ghosts
  <2> QED BY <2>1, RequestKeepsKeys
<1>3. ASSUME NEW r \in Req, NEW n \in Node, Renew(r, n) \/ Lost(r, n) PROVE KeysKept'
  <2>1. UNCHANGED <<work, collided, signer, certKey, keyFile>> /\ lapsed \subseteq lapsed'
    BY <1>3 DEF Renew, Lost, files, ghosts
  <2> QED BY <2>1, RequestKeepsKeys
<1>4. ASSUME NEW r \in Req, NEW n \in Node, HandlerStep(r, n) PROVE KeysKept'
  BY <1>0, <1>4, VisitKeepsKeys, OpenKeepsKeys, SignKeepsKeys, WriteCertKeepsKeys,
     WriteKeyKeepsKeys DEF HandlerStep
<1>5. ASSUME NEW n \in Node, Crash(n) PROVE KeysKept'
  BY <1>0, <1>5, CrashKeepsKeys
<1>6. CASE UNCHANGED vars
  <2>1. UNCHANGED <<work, collided, signer, certKey, keyFile, lapsed>>
    BY <1>6 DEF vars, files, ghosts
  <2> QED BY <2>1, RequestKeepsKeys
<1> QED BY <1>1, <1>2, <1>3, <1>4, <1>5, <1>6 DEF Next, Settled

\* Once no request is in flight, the key next to a certificate is its own, unless
\* two requests wrote the two files at once or one was cut off between them: the
\* order of the two writes, reissues one after the other and failures to sign
\* mix nothing.
THEOREM CertKeysMatch == Spec => []KeysMatch
<1>1. Init => Wellformed /\ KeysKept
  <2>1. Init => KeysKept
    BY DEF Init, KeysKept, KeyKept, Writes, NoWork
  <2> QED BY <2>1, InitWellformed
<1>2. Wellformed /\ KeysKept /\ [Next]_vars => (Wellformed /\ KeysKept)'
  BY NextFollows, NextKeepsKeys
<1>3. Wellformed /\ KeysKept => KeysMatch
  <2> SUFFICES ASSUME Wellformed, KeysKept, Quiet, NEW n \in Node, NEW c \in Cert,
                      signer[n][c] # None, certKey[n][c] # keyFile[n][c]
               PROVE  <<n, c>> \in collided \cup lapsed
    BY DEF KeysMatch
  <2>1. \A r \in Req : ~Writes(r, n, c)
    BY DEF Wellformed, HandlersConsistent, Quiet, At, Writes
  <2> QED BY <2>1 DEF KeysKept, KeyKept
<1> QED BY <1>1, <1>2, <1>3, PTL DEF Spec

---------------------------------------------------------------------------
(* The refinement of Replication.                                          *)

Copies == [p \in Place |-> Content(p)]
SafePlaces == {p \in Place : Used(p) /\ ~GivenUp(p) /\ ~Owed(p)}

\* A step of the abstract specification or a stutter.
CertRefined == [CertReplication!Next]_(CertReplication!vars)

\* A settled cluster is an initial state of Replication.
LEMMA InitRefines == Init => CertReplication!Init
<1> SUFFICES ASSUME Init PROVE CertReplication!Init
  OBVIOUS
<1>1. \A p \in Place : Content(p) = ca
  BY PlaceParts DEF Init, Content, File
<1>2. ca \in CA
  BY InitType DEF TypeOK
<1>3. Copies = [p \in Place |-> ca]
  BY <1>1 DEF Copies
<1>4. SafePlaces \in SUBSET Place
  BY DEF SafePlaces
<1> QED BY <1>2, <1>3, <1>4 DEF CertReplication!Init, Copies, SafePlaces

\* The three ways a step may move the files are those of Replication.
LEMMA FollowingRefines ==
  ASSUME FilesFollow, TypeOK'
  PROVE  CertRefined
<1>1. ca' \in CA \cup {None} /\ \A p \in Place : Content(p)' \in CA \cup {None}
  <2>2. ca' \in CA
    BY DEF TypeOK
  <2>3. ASSUME NEW p \in Place PROVE Content(p)' \in CA \cup {None}
    <3>1. p[1] \in Node /\ p[2] \in File
      BY PlaceParts
    <3> QED BY <3>1 DEF TypeOK, Content, File
  <2> QED BY <2>2, <2>3
<1>2. CASE \A p \in Place : Content(p)' = Content(p) /\ ~Safe(p)'
  <2>1. Copies' = Copies
    BY <1>2 DEF Copies
  <2>2. SafePlaces' = {}
    BY <1>2 DEF SafePlaces, Safe
  <2> QED BY <1>1, <2>1, <2>2
          DEF CertRefined, CertReplication!Next, CertReplication!Change, Copies, SafePlaces
<1>3. ASSUME NEW w \in Place, ca' = ca, Safe(w)' => Content(w)' = ca,
             \A p \in Place \ {w} : Kept(p)
      PROVE  CertRefined
  <2>1. PICK c \in CA \cup {None} : c = Content(w)'
    BY <1>1
  <2>2. \A p \in Place \ {w} : Content(p)' = Content(p) /\ (Safe(p)' => Safe(p))
    BY <1>3 DEF Kept
  <2>3. Copies' = [Copies EXCEPT ![w] = c]
    BY <2>1, <2>2 DEF Copies
  <2>4. SafePlaces' \subseteq SafePlaces \cup {w}
    BY <2>2 DEF SafePlaces, Safe
  <2>5. c # ca => w \notin SafePlaces'
    BY <1>3, <2>1 DEF SafePlaces, Safe
  <2>6. CASE c = ca
    BY <1>3, <2>3, <2>4, <2>6
       DEF CertRefined, CertReplication!Next, CertReplication!Deliver, Copies, SafePlaces
  <2>7. CASE c # ca
    <3>1. SafePlaces' \in SUBSET (SafePlaces \ {w})
      BY <2>4, <2>5, <2>7
    <3> QED BY <1>3, <2>1, <2>3, <3>1
            DEF CertRefined, CertReplication!Next, CertReplication!Overwrite, Copies,
                SafePlaces
  <2> QED BY <2>6, <2>7
<1>4. CASE ca' = ca /\ \A p \in Place : Kept(p)
  <2>1. Copies' = Copies
    BY <1>4 DEF Copies, Kept
  <2>2. SafePlaces' \in SUBSET SafePlaces
    BY <1>4 DEF SafePlaces, Safe, Kept
  <2> QED BY <1>4, <2>1, <2>2
          DEF CertRefined, CertReplication!Next, CertReplication!Unsettle, Copies,
              SafePlaces
<1> QED BY <1>2, <1>3, <1>4 DEF FilesFollow

\* Certificates implements Replication: a file in use that nobody owes a write
\* and that was not given up always holds the CA of the table, as in a replica
\* that is settled only together with the value of the moment.
THEOREM CertImplements == Spec => CertReplicates
<1>1. Init => CertReplication!Init
  BY InitRefines
<1>2. Wellformed /\ [Next]_vars => [CertReplication!Next]_(CertReplication!vars)
  BY NextFollows, FollowingRefines DEF Wellformed, CertRefined
<1>3. Init => Wellformed
  BY InitWellformed
<1>4. Wellformed /\ [Next]_vars => Wellformed'
  BY NextFollows
<1> QED BY <1>1, <1>2, <1>3, <1>4, PTL
        DEF Spec, CertReplicates, CertReplication!Spec
===========================================================================
