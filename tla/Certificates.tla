---------------------------- MODULE Certificates ---------------------------
(***************************************************************************)
(* The certificate authority in the dqlite table `config` and the files    *)
(* that every node derives from it.                                        *)
(*                                                                         *)
(* A request is one command `microovn certificates ...`, one enable of a   *)
(* service, or one run of the script refresh-expiring-certs.  A change of  *)
(* the CA is stored and then every member, the node that received the      *)
(* request last, copies the CA to its file and reissues its certificates:  *)
(* it truncates the two files of a certificate, reads the CA and writes    *)
(* them.  No lock orders two requests on a node.                           *)
(*                                                                         *)
(* lapsed and overwritten are history variables, as in Environment: files  *)
(* some change of the CA was never carried to, and files an outdated CA    *)
(* was written to.  collided names those two requests wrote at once.       *)
(***************************************************************************)
EXTENDS Integers, FiniteSets, Sequences

CONSTANTS
  Node,        \* cluster members
  Service,     \* MicroOVN services that are enabled and disabled
  Start,       \* tables of services the cluster may begin with
  Generated,   \* CAs that MicroOVN generates
  Custom,      \* CAs that users provide
  Req, NoReq,  \* slots for requests in flight
  Op,          \* operations of this instance
  FaultKind,   \* faults of this instance: "lost", "cancel", "error", "crash"
  MaxIssued,   \* bound on requests of users
  MaxFaults    \* bound on faults

CA == Generated \cup Custom
None == 0
Operation ==
  {"regenerate", "set", "reissue", "reissueAll", "enable", "disable", "renew"}

ASSUME CaAssumption == CA \subseteq Nat \ {None} /\ Generated # {}
ASSUME MemberAssumption == Node # {}
ASSUME SlotAssumption == NoReq \notin Req
ASSUME InstanceAssumption ==
  /\ Service \subseteq {"central", "chassis", "switch"}
  /\ Start \subseteq SUBSET (Node \X Service)
  /\ Op \subseteq Operation
  /\ MaxIssued \in Nat /\ MaxFaults \in Nat

VARIABLES
  ca,          \* the CA in the table
  autoRenew,   \* its flag: MicroOVN may replace it
  used,        \* CAs generated so far
  services,    \* rows of the table services: pairs <<member, service>>
  caFile,      \* caFile[n]: the CA in the CA file of n
  signer,      \* signer[n][c]: the CA that signed certificate c of n
  certKey,     \* certKey[n][c]: the request whose key the certificate is for
  keyFile,     \* keyFile[n][c]: the request that made the key in the key file
  old,         \* CAs about to expire
  aged,        \* pairs <<n, c>>: certificates about to expire
  ask,         \* ask[r]: what request r asks for
  pc,          \* pc[r]: where request r is
  todo,        \* todo[r]: nodes whose files r still has to write
  script,      \* script[r]: certificates the script r still has to look at
  alive,       \* alive[r]: nodes on which the context of r is not cancelled
  work,        \* work[r][n]: the handler of r on node n
  lapsed, overwritten, collided,
  issued, faults

table == <<ca, autoRenew, used, services>>
files == <<caFile, signer, certKey, keyFile, aged>>
ghosts == <<lapsed, overwritten, collided>>
flow == <<pc, todo, script, alive>>
vars == <<table, files, old, ask, flow, work, ghosts, issued, faults>>

Cert == {"ovnnb", "ovnsb", "ovn-northd", "ovn-controller", "client"}
File == {"ca"} \cup Cert
Place == Node \X File

Enabled(n, svc) == <<n, svc>> \in services

\* Certificates of the services enabled on n, in the order they are issued.
CentralCerts == <<"ovnnb", "ovnsb", "ovn-northd">>

enabledOvnServices_NoClient(n) ==
  (IF Enabled(n, "central") THEN CentralCerts ELSE <<>>)
  \o (IF Enabled(n, "switch") THEN <<"ovn-controller">> ELSE <<>>)

enabledOvnServices(n) ==
  (IF Enabled(n, "central") THEN CentralCerts ELSE <<>>)
  \o (IF Enabled(n, "switch") THEN <<"ovn-controller">> ELSE <<>>)
  \o <<"client">>

\* Certificates that joinCentral and joinChassis issue.
JoinCerts_Named(svc) == <<svc>>

JoinCerts(svc) ==
  CASE svc = "central" -> CentralCerts
    [] svc = "chassis" -> <<"ovn-controller">>
    [] OTHER           -> <<>>

\* Certificates that `certificates list` shows, in the script's order.
Listed(n) ==
  (IF \E svc \in Service : Enabled(n, svc) THEN <<"client">> ELSE <<>>)
  \o (IF Enabled(n, "chassis") THEN <<"ovn-controller">> ELSE <<>>)
  \o (IF Enabled(n, "central") THEN <<"ovn-northd", "ovnnb", "ovnsb">> ELSE <<>>)

SetOf(seq) == {seq[i] : i \in DOMAIN seq}

\* Files that the services enabled on n use.
UsedFiles(n) ==
  {"ca", "client"}
  \cup (IF Enabled(n, "central") THEN SetOf(CentralCerts) ELSE {})
  \cup (IF Enabled(n, "chassis") THEN {"ovn-controller"} ELSE {})

\* Certificates that somebody uses in this instance.
CertsInUse ==
  {"client"} \cup UNION {SetOf(JoinCerts(svc)) : svc \in Service}

NoWork == [at |-> "none", held |-> None, left |-> <<>>]
Handler ==
  [at   : {"none", "dumpRead", "dumpWrite", "list", "open", "sign",
           "writeCert", "writeKey"},
   held : CA \cup {None},
   left : Seq(Cert)]

Ask ==
  [op : Operation, node : Node, ca : CA, cert : Cert, svc : Service \cup {"none"}]

TypeOK ==
  /\ ca \in CA /\ autoRenew \in BOOLEAN /\ used \subseteq Generated
  /\ services \subseteq Node \X Service
  /\ caFile \in [Node -> CA \cup {None}]
  /\ signer \in [Node -> [Cert -> CA \cup {None}]]
  /\ certKey \in [Node -> [Cert -> Req \cup {NoReq}]]
  /\ keyFile \in [Node -> [Cert -> Req \cup {NoReq}]]
  /\ old \subseteq CA /\ aged \subseteq Node \X Cert
  /\ ask \in [Req -> Ask]
  /\ pc \in [Req -> {"idle", "store", "visit", "issue", "row", "rollback", "info", "ca",
                     "certs"}]
  /\ todo \in [Req -> SUBSET Node]
  /\ script \in [Req -> Seq(Cert)]
  /\ alive \in [Req -> SUBSET Node]
  /\ work \in [Req -> [Node -> Handler]]
  /\ lapsed \subseteq Place /\ overwritten \subseteq Place
  /\ collided \subseteq Place
  /\ issued \in 0..MaxIssued /\ faults \in 0..MaxFaults

FirstOf(S) == CHOOSE c \in S : \A d \in S : c <= d

\* A settled cluster: every file carries the CA of the table, which is about to
\* expire or not, and so is each certificate.
Init ==
  /\ ca \in {FirstOf(Generated)} \cup Custom
  /\ autoRenew = (ca \in Generated)
  /\ used = {FirstOf(Generated)}
  /\ services \in Start
  /\ caFile = [n \in Node |-> ca]
  /\ signer = [n \in Node |-> [c \in Cert |-> ca]]
  /\ certKey = [n \in Node |-> [c \in Cert |-> NoReq]]
  /\ keyFile = [n \in Node |-> [c \in Cert |-> NoReq]]
  /\ old \in IF "renew" \in Op THEN {{}, {ca}} ELSE {{}}
  /\ \E A \in IF "renew" \in Op THEN {{}, CertsInUse} ELSE {{}} : aged = Node \X A
  /\ \E n \in Node :
       ask = [r \in Req |-> [op |-> "reissueAll", node |-> n, ca |-> ca,
                             cert |-> "client", svc |-> "none"]]
  /\ pc = [r \in Req |-> "idle"]
  /\ todo = [r \in Req |-> {}]
  /\ script = [r \in Req |-> <<>>]
  /\ alive = [r \in Req |-> {}]
  /\ work = [r \in Req |-> [n \in Node |-> NoWork]]
  /\ lapsed = {} /\ overwritten = {} /\ collided = {}
  /\ issued = 0 /\ faults = 0

Quiet == \A r \in Req : pc[r] = "idle"
At(r, n, step) == work[r][n].at = step
Goto(r, step) == pc' = [pc EXCEPT ![r] = step]
Step(r, n, next) == work' = [work EXCEPT ![r][n] = next]
Alive(r, n) == n \in alive[r]
Fault(kind) ==
  kind \in FaultKind /\ faults < MaxFaults /\ faults' = faults + 1
Files(n) == {n} \X File

---------------------------------------------------------------------------
(* Commands and the timer.                                                 *)

\* Where a command starts, and the nodes whose files it writes.
FirstStep(op) ==
  CASE op \in {"regenerate", "set"}   -> "store"
    [] op \in {"enable", "disable"}   -> "row"
    [] op = "renew"                   -> "info"
    [] OTHER                          -> "issue"

\* systemd runs one instance of the script on a node.
ScriptRuns(n) ==
  \E r \in Req : pc[r] # "idle" /\ ask[r].op = "renew" /\ ask[r].node = n

Issue(r) ==
  /\ pc[r] = "idle"
  /\ issued < MaxIssued
  /\ issued' = issued + 1
  /\ \E a \in Ask :
       /\ a.op \in Op \ {"renew"}
       /\ IF a.op = "set" THEN a.ca \in Custom ELSE a.ca = FirstOf(CA)
       /\ a.cert \in IF a.op = "reissue" THEN CertsInUse ELSE {"client"}
       /\ a.op \in {"enable", "disable"} <=> a.svc # "none"
       /\ ask' = [ask EXCEPT ![r] = a]
       /\ Goto(r, FirstStep(a.op))
       /\ todo' = [todo EXCEPT ![r] =
                     IF FirstStep(a.op) = "issue" THEN {a.node} ELSE {}]
  /\ alive' = [alive EXCEPT ![r] = Node]
  /\ UNCHANGED <<table, files, old, script, work, ghosts, faults>>

\* The timer, once a day, and the start of the daemon run the script.
Renew(r, n) ==
  /\ pc[r] = "idle"
  /\ "renew" \in Op
  /\ ~ScriptRuns(n)
  /\ ask' = [ask EXCEPT ![r] = [op |-> "renew", node |-> n, ca |-> FirstOf(CA),
                                cert |-> "client", svc |-> "none"]]
  /\ Goto(r, "info")
  /\ alive' = [alive EXCEPT ![r] = Node]
  /\ UNCHANGED <<table, files, old, todo, script, work, ghosts, issued, faults>>

IsCaRenewable == autoRenew

\* `certificates list`: the renewal flag and the services are read; a CA file
\* that does not parse ends the script.
ScriptInfo(r) ==
  LET n == ask[r].node IN
  /\ pc[r] = "info"
  /\ IF Alive(r, n) /\ caFile[n] # None
     THEN /\ script' = [script EXCEPT ![r] = Listed(n)]
          /\ Goto(r, IF IsCaRenewable THEN "ca" ELSE "certs")
     ELSE Goto(r, "idle") /\ UNCHANGED script
  /\ UNCHANGED <<table, files, old, ask, todo, alive, work, ghosts, issued,
                 faults>>

\* refresh_ca looks at the node's own copy of the CA.
CaExpires_InTable(r) == ca \in old

CaExpires(r) == caFile[ask[r].node] \in old

ScriptCa(r) ==
  /\ pc[r] = "ca"
  /\ Goto(r, IF CaExpires(r) THEN "store" ELSE "certs")
  /\ UNCHANGED <<table, files, old, ask, todo, script, alive, work, ghosts,
                 issued, faults>>

\* refresh_service_cert: a file that does not parse counts as expiring.
CertExpires_Missing(n, c) == signer[n][c] = None

CertExpires(n, c) == <<n, c>> \in aged \/ signer[n][c] = None

ScriptCert(r) ==
  LET n == ask[r].node IN
  /\ pc[r] = "certs"
  /\ IF script[r] = <<>>
     THEN Goto(r, "idle") /\ UNCHANGED <<ask, todo, script, alive>>
     ELSE /\ script' = [script EXCEPT ![r] = Tail(@)]
          /\ IF CertExpires(n, Head(script[r]))
             THEN /\ ask' = [ask EXCEPT ![r] = [@ EXCEPT !.cert = Head(script[r])]]
                  /\ Goto(r, "issue")
                  /\ todo' = [todo EXCEPT ![r] = {n}]
                  /\ alive' = [alive EXCEPT ![r] = Node]
             ELSE UNCHANGED <<ask, pc, todo, alive>>
  /\ UNCHANGED <<table, files, old, work, ghosts, issued, faults>>

---------------------------------------------------------------------------
(* A new CA.                                                               *)

\* GenerateNewCACertificate and SetNewCACertificate, storeCA: certificate, key
\* and flag change in one transaction.  An unchanged CA ends the command.
Updates(r, c, renewable) == c # ca \/ renewable # autoRenew

\* The CA a request brings: a new one, or the user's.
NewCA(r) ==
  IF ask[r].op = "set" THEN {ask[r].ca}
  ELSE {c \in Generated \ used : \A d \in Generated \ used : c <= d}

\* updateOvnClusterCertificates asks the other members and does its own part.
Notified_Others(r) == Node \ {ask[r].node}

Notified(r) == (Node \ {ask[r].node}) \cup {ask[r].node}

StoreCa(r) ==
  LET custom == ask[r].op = "set" IN
  /\ pc[r] = "store"
  /\ \/ /\ Alive(r, ask[r].node)
        /\ \E c \in NewCA(r) :
             /\ IF Updates(r, c, ~custom)
                THEN /\ ca' = c /\ autoRenew' = ~custom
                     /\ Goto(r, "visit")
                     /\ todo' = [todo EXCEPT ![r] = Notified(r)]
                ELSE UNCHANGED <<ca, autoRenew, todo>> /\ Goto(r, "idle")
             /\ used' = IF custom THEN used ELSE used \cup {c}
     \/ /\ ~Alive(r, ask[r].node)
        /\ Goto(r, "idle")
        /\ UNCHANGED <<ca, autoRenew, used, todo>>
  /\ UNCHANGED <<services, files, old, ask, script, alive, work, ghosts, issued,
                 faults>>

---------------------------------------------------------------------------
(* Enabling and disabling a service, as far as certificates go.            *)

\* The row comes first, the certificates are issued after it.
ServiceRow(r) ==
  LET a == ask[r] IN
  /\ pc[r] = "row"
  /\ \/ /\ Alive(r, a.node) /\ a.op = "enable" /\ ~Enabled(a.node, a.svc)
        /\ services' = services \cup {<<a.node, a.svc>>}
        /\ Goto(r, "issue")
        /\ todo' = [todo EXCEPT ![r] = IF JoinCerts(a.svc) = <<>> THEN {}
                                                            ELSE {a.node}]
     \/ /\ Alive(r, a.node) /\ a.op = "disable" /\ Enabled(a.node, a.svc)
        /\ services' = services \ {<<a.node, a.svc>>}
        /\ Goto(r, "idle")
        /\ UNCHANGED todo
     \/ /\ ~Alive(r, a.node) \/ (Enabled(a.node, a.svc) <=> a.op = "enable")
        /\ Goto(r, "idle")
        /\ UNCHANGED <<services, todo>>
  /\ UNCHANGED <<ca, autoRenew, used, files, old, ask, script, alive, work,
                 ghosts, issued, faults>>

\* EnableService deletes the row when the certificates could not be issued.
Rollback(r) ==
  LET a == ask[r] IN
  /\ pc[r] = "rollback"
  /\ services' = IF Alive(r, a.node) THEN services \ {<<a.node, a.svc>>}
                                     ELSE services
  /\ Goto(r, "idle")
  /\ UNCHANGED <<ca, autoRenew, used, files, old, ask, todo, script, alive, work,
                 ghosts, issued, faults>>

---------------------------------------------------------------------------
(* The handler of a request on a node.                                     *)

\* The members are asked concurrently, the node that was asked comes last.
MayVisit(r, n) ==
  /\ pc[r] \in {"visit", "issue"}
  /\ n \in todo[r]
  /\ At(r, n, "none")
  /\ n = ask[r].node => todo[r] = {n}

Visit(r, n) ==
  /\ MayVisit(r, n)
  /\ Alive(r, n)
  /\ Step(r, n,
       IF pc[r] = "visit" THEN [NoWork EXCEPT !.at = "dumpRead"]
       ELSE IF ask[r].op = "enable"
       THEN [NoWork EXCEPT !.at = "open", !.left = JoinCerts(ask[r].svc)]
       ELSE [NoWork EXCEPT !.at = "list"])
  /\ UNCHANGED <<table, files, old, ask, flow, ghosts, issued, faults>>

\* The node is not reached, or the context of the request is gone.
Lost(r, n) ==
  /\ MayVisit(r, n)
  /\ \/ ~Alive(r, n) /\ UNCHANGED faults
     \/ n # ask[r].node /\ Fault("lost")
  /\ todo' = [todo EXCEPT ![r] = @ \ {n}]
  /\ lapsed' = lapsed \cup Files(n)
  /\ UNCHANGED <<table, files, old, ask, pc, script, alive, work, overwritten,
                 collided, issued>>

\* The handler returns; what it leaves undone is missing.
Return(r, n) ==
  /\ Step(r, n, NoWork)
  /\ todo' = [todo EXCEPT ![r] = @ \ {n}]

\* DumpCA, first half: the CA is read.
DumpRead(r, n) ==
  /\ At(r, n, "dumpRead")
  /\ \/ /\ Alive(r, n)
        /\ Step(r, n, [work[r][n] EXCEPT !.at = "dumpWrite", !.held = ca])
        /\ UNCHANGED <<todo, lapsed>>
     \/ /\ ~Alive(r, n)
        /\ Return(r, n)
        /\ lapsed' = lapsed \cup Files(n)
  /\ UNCHANGED <<table, files, old, ask, pc, script, alive, overwritten, collided,
                 issued, faults>>

\* A file receives the CA v, or a certificate signed by it.
Written(p, v) ==
  /\ lapsed' = IF v = ca THEN lapsed \ {p} ELSE lapsed
  /\ overwritten' = IF v = ca THEN overwritten \ {p} ELSE overwritten \cup {p}

\* DumpCA, second half: the file is written.
DumpWrite(r, n) ==
  /\ At(r, n, "dumpWrite")
  /\ caFile' = [caFile EXCEPT ![n] = work[r][n].held]
  /\ Written(<<n, "ca">>, work[r][n].held)
  /\ Step(r, n, [work[r][n] EXCEPT !.at = "list", !.held = None])
  /\ UNCHANGED <<table, signer, certKey, keyFile, aged, old, ask, flow, collided,
                 issued, faults>>

\* enabledOvnServices.  A request for one certificate is refused with 404 when
\* its service is not enabled, and the script ends on that; reissuing all skips
\* the ones that are in use but not found here.
List(r, n) ==
  LET all == enabledOvnServices(n)
      single == ask[r].op # "reissueAll" /\ pc[r] = "issue"
      refused == single /\ ask[r].cert \notin SetOf(all)
      certs == IF single THEN <<ask[r].cert>> ELSE all
  IN
  /\ At(r, n, "list")
  /\ IF ~Alive(r, n) \/ refused
     THEN Return(r, n) /\ script' = [script EXCEPT ![r] = <<>>]
     ELSE /\ Step(r, n, [work[r][n] EXCEPT !.at = "open", !.left = certs])
          /\ UNCHANGED <<todo, script>>
  /\ lapsed' = IF pc[r] # "visit" THEN lapsed
               ELSE IF ~Alive(r, n) THEN lapsed \cup Files(n)
               ELSE lapsed \cup ({n} \X (UsedFiles(n) \ (SetOf(all) \cup {"ca"})))
  /\ UNCHANGED <<table, files, old, ask, pc, alive, overwritten, collided, issued,
                 faults>>

\* GenerateNewServiceCertificate: both files are truncated ...
Open(r, n) ==
  LET c == Head(work[r][n].left)
      busy == \E q \in Req \ {r} :
                /\ work[q][n].at \in {"sign", "writeCert", "writeKey"}
                /\ Head(work[q][n].left) = c
  IN
  /\ At(r, n, "open")
  /\ signer' = [signer EXCEPT ![n][c] = None]
  /\ keyFile' = [keyFile EXCEPT ![n][c] = NoReq]
  /\ certKey' = [certKey EXCEPT ![n][c] = NoReq]
  /\ collided' = IF busy THEN collided \cup {<<n, c>>} ELSE collided \ {<<n, c>>}
  /\ Step(r, n, [work[r][n] EXCEPT !.at = "sign"])
  /\ UNCHANGED <<table, caFile, aged, old, ask, flow, lapsed, overwritten, issued,
                 faults>>

\* What follows a certificate: the next one.
Onward_Ends(r, n) == Return(r, n)

Onward(r, n) ==
  IF Len(work[r][n].left) = 1
  THEN Return(r, n)
  ELSE /\ Step(r, n, [at |-> "open", held |-> None, left |-> Tail(work[r][n].left)])
       /\ UNCHANGED todo

\* ... then certificate and key of the CA are read in one transaction ...
GetCA(r, n) ==
  /\ Alive(r, n)
  /\ Step(r, n, [work[r][n] EXCEPT !.at = "writeCert", !.held = ca])

\* ... and a certificate is signed.  A failure leaves both files empty:
\* reissueAllCertificates goes on with the next certificate, the enable of a
\* service is rolled back.
Sign(r, n) ==
  /\ At(r, n, "sign")
  /\ \/ /\ GetCA(r, n)
        /\ UNCHANGED <<pc, todo, lapsed, faults>>
     \/ /\ (~Alive(r, n) /\ UNCHANGED faults) \/ Fault("error")
        /\ lapsed' = lapsed \cup ({n} \X SetOf(work[r][n].left))
        /\ IF ask[r].op = "enable"
           THEN Return(r, n) /\ Goto(r, "rollback")
           ELSE Onward(r, n) /\ UNCHANGED pc
  /\ UNCHANGED <<table, files, old, ask, script, alive, overwritten, collided,
                 issued>>

WriteCert(r, n) ==
  LET c == Head(work[r][n].left) IN
  /\ At(r, n, "writeCert")
  /\ signer' = [signer EXCEPT ![n][c] = work[r][n].held]
  /\ certKey' = [certKey EXCEPT ![n][c] = r]
  /\ aged' = aged \ {<<n, c>>}
  /\ Written(<<n, c>>, work[r][n].held)
  /\ Step(r, n, [work[r][n] EXCEPT !.at = "writeKey", !.held = None])
  /\ UNCHANGED <<table, caFile, keyFile, old, ask, flow, collided, issued, faults>>

WriteKey_Lost(r, n) ==
  /\ At(r, n, "writeKey")
  /\ Onward(r, n)
  /\ UNCHANGED <<table, caFile, signer, certKey, keyFile, aged, old, ask, pc, script, alive,
                 ghosts, issued, faults>>

WriteKey(r, n) ==
  LET c == Head(work[r][n].left) IN
  /\ At(r, n, "writeKey")
  /\ keyFile' = [keyFile EXCEPT ![n][c] = r]
  /\ Onward(r, n)
  /\ UNCHANGED <<table, caFile, signer, certKey, aged, old, ask, pc, script, alive,
                 ghosts, issued, faults>>

\* The command, or one command of the script, is done.
After(r) ==
  IF ask[r].op = "renew" /\ Alive(r, ask[r].node) THEN "certs" ELSE "idle"

End(r) ==
  /\ pc[r] \in {"visit", "issue"}
  /\ todo[r] = {}
  /\ Goto(r, After(r))
  /\ UNCHANGED <<table, files, old, ask, todo, script, alive, work, ghosts, issued,
                 faults>>

---------------------------------------------------------------------------
(* Failures.                                                               *)

\* A client gives up after 5 s: the command line cancels the whole request, a
\* member that asked another one cancels that part of it.
Cancel(r, N) ==
  /\ pc[r] # "idle"
  /\ alive[r] \cap N # {}
  /\ Fault("cancel")
  /\ alive' = [alive EXCEPT ![r] = @ \ N]
  /\ UNCHANGED <<table, files, old, ask, pc, todo, script, work, ghosts, issued>>

\* microovnd on n crashes and is started again: its handlers are gone, and
\* what they had asked of others is cancelled.
Crash(n) ==
  LET cut(r) == n \in todo[r] /\ (~At(r, n, "none") \/ ask[r].node = n) IN
  /\ \E r \in Req : pc[r] # "idle"
  /\ Fault("crash")
  /\ todo' = [r \in Req |-> IF cut(r) THEN todo[r] \ {n} ELSE todo[r]]
  /\ work' = [r \in Req |-> [work[r] EXCEPT ![n] = NoWork]]
  /\ alive' = [r \in Req |-> IF pc[r] # "idle" /\ ask[r].node = n
                              THEN {} ELSE alive[r]]
  /\ pc' = [r \in Req |-> IF ask[r].node = n /\ pc[r] # "visit"
                           THEN "idle" ELSE pc[r]]
  /\ lapsed' = IF \E r \in Req : cut(r) THEN lapsed \cup Files(n) ELSE lapsed
  /\ UNCHANGED <<table, files, old, ask, script, overwritten, collided, issued>>

---------------------------------------------------------------------------

HandlerStep(r, n) ==
  \/ Visit(r, n) \/ DumpRead(r, n) \/ DumpWrite(r, n) \/ List(r, n) \/ Open(r, n)
  \/ Sign(r, n) \/ WriteCert(r, n) \/ WriteKey(r, n)

RequestStep(r) ==
  \/ ScriptInfo(r) \/ ScriptCa(r) \/ ScriptCert(r) \/ StoreCa(r) \/ ServiceRow(r)
  \/ Rollback(r) \/ End(r)

Settled == Quiet /\ UNCHANGED vars

Next ==
  \/ \E r \in Req : Issue(r) \/ RequestStep(r) \/ Cancel(r, Node)
  \/ \E r \in Req, n \in Node :
       Renew(r, n) \/ HandlerStep(r, n) \/ Lost(r, n) \/ Cancel(r, {n})
  \/ \E n \in Node : Crash(n)
  \/ Settled

Spec == Init /\ [][Next]_vars

\* Requests keep going on all their nodes; the timer comes again every day.
Serve(r) ==
  \/ RequestStep(r)
  \/ \E n \in Node : HandlerStep(r, n) \/ (Lost(r, n) /\ ~Alive(r, n))

Fairness ==
  /\ \A r \in Req : WF_vars(Serve(r))
  /\ \A n \in Node : WF_vars(\E r \in Req : Renew(r, n))

FairSpec == Spec /\ Fairness

---------------------------------------------------------------------------
(* The files follow the CA.                                                *)

Content(p) == IF p[2] = "ca" THEN caFile[p[1]] ELSE signer[p[1]][p[2]]

Used(p) == p[2] \in UsedFiles(p[1])

GivenUp(p) == p \in lapsed \cup overwritten

\* Once no request is in flight, every node holds the CA of the table, and every
\* certificate that its services use is signed by it, unless a new CA was not
\* carried to the file (a node not reached, a handler cut off, a certificate of
\* a service that is not looked for), or a request that had read the previous
\* CA wrote the file last.
CertificatesFollowCa ==
  Quiet => \A p \in Place : Used(p) => GivenUp(p) \/ Content(p) = ca

\* What the handler of r on n will still do for file f: read the CA for it, or
\* write the CA it has read if that is still the one of the table.
Owes(r, n, f) ==
  LET w == work[r][n] IN
  \/ /\ pc[r] = "visit" /\ n \in todo[r]
     /\ \/ w.at \in {"none", "dumpRead"}
        \/ w.at = "dumpWrite" /\ (f = "ca" => w.held = ca)
        \/ w.at = "list" /\ f # "ca"
  \/ /\ pc[r] = "issue" /\ n \in todo[r]
     /\ w.at = "none"
     /\ ask[r].op = "enable" /\ f \in SetOf(JoinCerts(ask[r].svc))
  \/ w.at \in {"open", "sign"} /\ f \in SetOf(w.left)
  \/ /\ w.at = "writeCert"
     /\ f \in SetOf(Tail(w.left)) \/ (f = Head(w.left) /\ w.held = ca)
  \/ w.at = "writeKey" /\ f \in SetOf(Tail(w.left))

Owed(p) == \E r \in Req : Owes(r, p[1], p[2])

\* A handler runs for a request that waits for the node.
HandlersConsistent ==
  \A r \in Req, n \in Node :
    /\ ~At(r, n, "none") => n \in todo[r] /\ pc[r] \in {"visit", "issue"}
    /\ work[r][n].at \in {"open", "sign", "writeCert", "writeKey"} =>
         work[r][n].left # <<>>

\* At every moment, however requests, crashes and lost notifications interleave,
\* a file in use that differs from the table is owed a write or was given up.
CertInductive ==
  /\ HandlersConsistent
  /\ \A p \in Place : Used(p) => GivenUp(p) \/ Owed(p) \/ Content(p) = ca

\* The files implement Replication: a file in use is settled when nobody owes it
\* a write and it was not given up.
CertReplication ==
  INSTANCE Replication WITH Value <- CA \cup {None}, source <- ca,
    copy <- [p \in Place |-> Content(p)],
    settled <- {p \in Place : Used(p) /\ ~GivenUp(p) /\ ~Owed(p)}

CertReplicates == CertReplication!Spec

\* Once no request is in flight, a certificate and the key next to it belong
\* together, unless two requests wrote them at once or one was cut off: nothing
\* else mixes the files of two reissues.
KeysMatch ==
  Quiet => \A n \in Node, c \in Cert :
    signer[n][c] # None /\ certKey[n][c] # keyFile[n][c] =>
      <<n, c>> \in collided \cup lapsed

\* An expiring CA that MicroOVN may renew disappears from every node in the end,
\* although each node looks only at its own copy and a notification may be lost.
CaRenewed ==
  \A n \in Node : autoRenew /\ caFile[n] \in old ~> caFile[n] \notin old

\* An expiring certificate that `certificates list` shows and that a reissue
\* refuses, since its service counts as not enabled, ends the script on n before
\* it comes to c: the list goes by the chassis, the reissue by the switch.
Refused(n) == SetOf(Listed(n)) \ SetOf(enabledOvnServices(n))

Unreached(n, c) ==
  \E i, j \in DOMAIN Listed(n) :
    /\ i <= j /\ Listed(n)[j] = c
    /\ Listed(n)[i] \in Refused(n) /\ CertExpires(n, Listed(n)[i])

\* Expiring certificates of the services that use them are reissued in the end,
\* but for those that the script never comes to because it is refused one.
CertRenewed ==
  \A n \in Node, c \in CertsInUse :
    <<n, c>> \in aged ~>
      <<n, c>> \notin aged \/ c \notin UsedFiles(n) \/ Unreached(n, c)

---------------------------------------------------------------------------
(* What the documentation says.                                            *)

\* A command that finished on all nodes leaves every certificate in use signed
\* by the new CA.
AllReissued ==
  Quiet => \A n \in Node : \A f \in UsedFiles(n) : Content(<<n, f>>) = ca

\* Every certificate in use that is about to expire is renewed automatically.
EveryCertRenewed ==
  \A n \in Node, c \in CertsInUse :
    <<n, c>> \in aged ~> <<n, c>> \notin aged \/ c \notin UsedFiles(n)
===========================================================================
