--------------------------- MODULE SchemaUpgrade --------------------------
(***************************************************************************)
(* The upgrade of the schema of a central database.                        *)
(*                                                                         *)
(* The members of the cluster get a new snap one after the other, each at  *)
(* a time of its own.  A new snap brings a new schema, and every daemon    *)
(* that starts on a central node runs a loop (ovsdb.UpgradeCentralDB):     *)
(* while the schema of the database is not the one of its snap, the        *)
(* central node with the lowest id asks all members which schema they      *)
(* expect and converts the database once all of them say the same.  The    *)
(* Northbound and the Southbound database are upgraded independently in    *)
(* the same way; this is one of them.                                      *)
(***************************************************************************)
EXTENDS Integers, FiniteSets

CONSTANTS
  Member,      \* ids of the cluster members
  MaxVersion,  \* newest schema; version 0 is that of a snap without the API
  FaultKind,   \* what may fail, a subset of FaultKinds
  MaxFaults,   \* bound on faults
  MaxMoves     \* bound on changes of the central nodes

FaultKinds == {"crash", "error", "convert", "race"}

ASSUME MemberAssumption == Member \subseteq Nat /\ Member # {}
ASSUME LimitAssumption ==
  /\ MaxVersion \in Nat /\ MaxFaults \in Nat /\ MaxMoves \in Nat
  /\ FaultKind \subseteq FaultKinds

VARIABLES
  version,   \* version[m]: schema that the snap of m expects
  daemon,    \* daemon[m]: microovnd runs on m
  central,   \* members whose central service is enabled
  schema,    \* schema of the database
  loop,      \* loop[m]: next step of UpgradeCentralDB on m, "off" without one,
             \* "failed" when an error ended it or kept it from being launched
  waiting,   \* waiting[m]: members the leader m waits for
  answers,   \* answers[m]: map of the leader m from members to versions
  refused,   \* refused[m]: an answer to the leader m was an error
  raced,     \* leaders whose map lost an answer in their current round
  faults,    \* faults so far
  moves      \* changes of the central nodes so far

roundVars == <<waiting, answers, refused, raced>>
vars == <<version, daemon, central, schema, loop, roundVars, faults, moves>>

Version == 0..MaxVersion

LoopStep ==
  {"off", "failed", "active", "status", "leader", "query", "collect",
   "convert", "sleep"}

TypeOK ==
  /\ version \in [Member -> Version]
  /\ daemon \in [Member -> BOOLEAN]
  /\ central \subseteq Member
  /\ schema \in Version
  /\ loop \in [Member -> LoopStep]
  /\ waiting \in [Member -> SUBSET Member]
  /\ answers \in [Member -> SUBSET (Member \X Version)]
  /\ refused \in [Member -> BOOLEAN]
  /\ raced \subseteq Member
  /\ faults \in 0..MaxFaults
  /\ moves \in 0..MaxMoves

\* A settled cluster: one version everywhere.
Init ==
  /\ \E v \in Version : version = [m \in Member |-> v] /\ schema = v
  /\ daemon = [m \in Member |-> TRUE]
  /\ central \in SUBSET Member \ {{}}
  /\ loop = [m \in Member |-> "off"]
  /\ waiting = [m \in Member |-> {}]
  /\ answers = [m \in Member |-> {}]
  /\ refused = [m \in Member |-> FALSE]
  /\ raced = {}
  /\ faults = 0
  /\ moves = 0

---------------------------------------------------------------------------

Fault(kind) ==
  /\ kind \in FaultKind
  /\ faults < MaxFaults
  /\ faults' = faults + 1

Goto(n, step) == loop' = [loop EXCEPT ![n] = step]

\* Only daemons that have the API for expected schemas coordinate upgrades.
Coordinates(n) == version[n] > 0

---------------------------------------------------------------------------
(* The loop of UpgradeCentralDB on node n.                                 *)

\* HasServiceActive, before the loop: the function returns when it fails.
CheckActive(n) ==
  /\ loop[n] = "active"
  /\ \/ Goto(n, IF n \in central THEN "status" ELSE "off") /\ UNCHANGED faults
     \/ Goto(n, "failed") /\ Fault("error")
  /\ UNCHANGED <<version, daemon, central, schema, roundVars, moves>>

\* getLiveSchemaStatus asks the server on the node itself.
Status(n) ==
  /\ loop[n] = "status"
  /\ Goto(n, IF n \notin central THEN "sleep"
             ELSE IF schema = version[n] THEN "off" ELSE "leader")
  /\ UNCHANGED <<version, daemon, central, schema, roundVars, faults, moves>>

IsUpgradeLeader_OfAll(n) == \A m \in Member : n <= m

\* The member with the lowest id of those with central.
IsUpgradeLeader(n) == n \in central /\ \A m \in central : n <= m

\* isNodeUpgradeLeader indexes the list of central nodes.  When it is empty
\* the goroutine panics, which ends the daemon.
Leader(n) ==
  /\ loop[n] = "leader"
  /\ \/ /\ central # {}
        /\ Goto(n, IF IsUpgradeLeader(n) THEN "query" ELSE "sleep")
        /\ UNCHANGED daemon
     \/ /\ central = {}
        /\ Goto(n, "off")
        /\ daemon' = [daemon EXCEPT ![n] = FALSE]
  /\ UNCHANGED <<version, central, schema, roundVars, faults, moves>>

Asked_Central(n) == central \ {n}

\* All other members, central or not.
Asked(n) == Member \ {n}

\* isClusterUpgradeReady asks them at the same time ...
Query(n) ==
  /\ loop[n] = "query"
  /\ Goto(n, "collect")
  /\ waiting' = [waiting EXCEPT ![n] = Asked(n)]
  /\ answers' = [answers EXCEPT ![n] = {}]
  /\ refused' = [refused EXCEPT ![n] = FALSE]
  /\ raced' = raced \ {n}
  /\ UNCHANGED <<version, daemon, central, schema, faults, moves>>

Reachable(m) == daemon[m] /\ Coordinates(m)

\* ... stores the answer of m ...
Answer(n, m) ==
  /\ loop[n] = "collect"
  /\ m \in waiting[n]
  /\ Reachable(m)
  /\ answers' = [answers EXCEPT ![n] = @ \cup {<<m, version[m]>>}]
  /\ waiting' = [waiting EXCEPT ![n] = @ \ {m}]
  /\ UNCHANGED <<version, daemon, central, schema, loop, refused, raced,
                 faults, moves>>

\* ... or learns that m does not answer within 10 s or has no such API ...
NoAnswer(n, m) ==
  /\ loop[n] = "collect"
  /\ m \in waiting[n]
  /\ \/ ~Reachable(m) /\ UNCHANGED faults
     \/ Reachable(m) /\ Fault("error")
  /\ refused' = [refused EXCEPT ![n] = TRUE]
  /\ waiting' = [waiting EXCEPT ![n] = @ \ {m}]
  /\ UNCHANGED <<version, daemon, central, schema, loop, answers, raced, moves>>

\* ... and two answers that are written to the map at the same time are a
\* data race: the runtime ends the daemon, or one of the entries is lost.
AnswersCollide(n, m, lost) ==
  /\ loop[n] = "collect"
  /\ m # lost /\ {m, lost} \subseteq waiting[n]
  /\ Reachable(m) /\ Reachable(lost)
  /\ Fault("race")
  /\ \/ /\ answers' = [answers EXCEPT ![n] = @ \cup {<<m, version[m]>>}]
        /\ waiting' = [waiting EXCEPT ![n] = @ \ {m, lost}]
        /\ raced' = raced \cup {n}
        /\ UNCHANGED <<daemon, loop>>
     \/ /\ daemon' = [daemon EXCEPT ![n] = FALSE]
        /\ Goto(n, "off")
        /\ UNCHANGED <<answers, waiting, raced>>
  /\ UNCHANGED <<version, central, schema, refused, moves>>

Ready_IgnoresErrors(n) == \A a \in answers[n] : a[2] = version[n]

\* Every answer is the version of the leader, and none was an error.
Ready(n) == ~refused[n] /\ \A a \in answers[n] : a[2] = version[n]

AfterRound_Returns(n) == IF Ready(n) THEN "convert" ELSE "off"

AfterRound_Waits(n) == IF Ready(n) THEN "convert" ELSE "wait"

\* Unless everybody is ready the loop goes on.
AfterRound(n) == IF Ready(n) THEN "convert" ELSE "sleep"

Assess(n) ==
  /\ loop[n] = "collect"
  /\ waiting[n] = {}
  /\ Goto(n, AfterRound(n))
  /\ UNCHANGED <<version, daemon, central, schema, roundVars, faults, moves>>

\* ovsdb-client convert, to the schema of the snap of n: the function returns,
\* with or without an error.  There is none to convert without a server, and a
\* conversion that timed out may have taken place.
Convert(n) ==
  /\ loop[n] = "convert"
  /\ \/ n \in central /\ schema' = version[n] /\ Goto(n, "off")
        /\ UNCHANGED faults
     \/ n \notin central /\ Goto(n, "failed") /\ UNCHANGED <<schema, faults>>
     \/ n \in central /\ schema' \in {schema, version[n]} /\ Goto(n, "failed")
        /\ Fault("convert")
  /\ UNCHANGED <<version, daemon, central, roundVars, moves>>

Sleep(n) ==
  /\ loop[n] = "sleep"
  /\ Goto(n, "status")
  /\ UNCHANGED <<version, daemon, central, schema, roundVars, faults, moves>>

\* A command or transaction of one of the checks fails: try again later.
Retry(n) ==
  /\ loop[n] \in {"status", "leader", "query"}
  /\ Fault("error")
  /\ Goto(n, "sleep")
  /\ UNCHANGED <<version, daemon, central, schema, roundVars, moves>>

---------------------------------------------------------------------------
(* What happens around the loops.                                          *)

\* snap refresh stops the daemon and installs a newer version.
Refresh(m) ==
  /\ \E v \in Version : v > version[m] /\ version' = [version EXCEPT ![m] = v]
  /\ daemon' = [daemon EXCEPT ![m] = FALSE]
  /\ Goto(m, "off")
  /\ UNCHANGED <<central, schema, roundVars, faults, moves>>

Crash(m) ==
  /\ daemon[m]
  /\ Fault("crash")
  /\ daemon' = [daemon EXCEPT ![m] = FALSE]
  /\ Goto(m, "off")
  /\ UNCHANGED <<version, central, schema, roundVars, moves>>

\* A node whose snap upgrades databases and whose central service is enabled.
Upgrades(m) == m \in central /\ Coordinates(m)

\* Start, which launches the loop on such a node.
Start(m) ==
  /\ ~daemon[m]
  /\ daemon' = [daemon EXCEPT ![m] = TRUE]
  /\ Goto(m, IF Upgrades(m) THEN "active" ELSE "off")
  /\ UNCHANGED <<version, central, schema, roundVars, faults, moves>>

\* Start returns before that because the database is not open or a command or
\* transaction failed.  The daemon serves requests without a loop, or it ends
\* and snapd starts it once more: that is for microcluster to say.
StartFails(m) ==
  /\ ~daemon[m]
  /\ Fault("error")
  /\ \/ /\ daemon' = [daemon EXCEPT ![m] = TRUE]
        /\ Goto(m, IF Upgrades(m) THEN "failed" ELSE "off")
     \/ UNCHANGED <<daemon, loop>>
  /\ UNCHANGED <<version, central, schema, roundVars, moves>>

Move ==
  /\ moves < MaxMoves
  /\ moves' = moves + 1

\* Central is enabled on a running node, which starts no loop.  The first
\* central node creates the database with the schema of its snap.
EnableCentral(m) ==
  /\ daemon[m]
  /\ m \notin central
  /\ Move
  /\ central' = central \cup {m}
  /\ schema' = IF central = {} THEN version[m] ELSE schema
  /\ UNCHANGED <<version, daemon, loop, roundVars, faults>>

\* Central is disabled, on the last node with the user's confirmation.
DisableCentral(m) ==
  /\ daemon[m]
  /\ m \in central
  /\ Move
  /\ central' = central \ {m}
  /\ UNCHANGED <<version, daemon, schema, loop, roundVars, faults>>

---------------------------------------------------------------------------

Round(n) ==
  \/ Query(n) \/ Assess(n)
  \/ \E m \in Member : Answer(n, m) \/ NoAnswer(n, m)
  \/ \E m, lost \in Member : AnswersCollide(n, m, lost)

Loop(n) ==
  \/ CheckActive(n) \/ Status(n) \/ Leader(n) \/ Round(n) \/ Convert(n)
  \/ Sleep(n) \/ Retry(n)

\* A node on which UpgradeCentralDB does not run.
NoLoop(n) == loop[n] \in {"off", "failed"}

\* Every snap is up to date and every loop has ended.
Settled ==
  /\ \A m \in Member : daemon[m] /\ version[m] = MaxVersion /\ NoLoop(m)
  /\ UNCHANGED vars

Next ==
  \/ \E n \in Member :
       \/ Loop(n)
       \/ Refresh(n) \/ Crash(n) \/ Start(n) \/ StartFails(n)
       \/ EnableCentral(n) \/ DisableCentral(n)
  \/ Settled

Spec == Init /\ [][Next]_vars

\* Goroutines keep running, every query ends within 10 s, and snapd restarts
\* a daemon that ended, though not one whose start failed and that stayed up.
\* Nobody has to refresh a snap.
Fairness == \A n \in Member : WF_vars(Loop(n)) /\ WF_vars(Start(n))

FairSpec == Spec /\ Fairness

---------------------------------------------------------------------------
(* Holding back.                                                           *)

\* From the moment a leader decides to convert on, whatever others do until
\* it does, every member understands the schema it converts to: the answers
\* may be old by then.  The exception is a map that lost an answer.
Confirmed ==
  \A n \in Member \ raced :
    loop[n] = "convert" => \A m \in Member : version[n] <= version[m]

\* A database is converted only to a schema that every member understands.
HeldBack ==
  [][(schema' # schema /\ central # {} /\ raced = {}) =>
       \A m \in Member : schema' <= version[m]]_vars

\* What a leader knows while it collects answers: nobody's version is below
\* the answer it gave, and everybody it does not wait for gave one, unless one
\* was an error.
Knowledge(n) ==
  loop[n] = "collect" /\ n \notin raced =>
    /\ \A a \in answers[n] : a[2] <= version[a[1]]
    /\ \A m \in Member \ {n} :
         \/ refused[n]
         \/ m \in waiting[n]
         \/ \E a \in answers[n] : a[1] = m

UpgradeInductive == Confirmed /\ \A n \in Member : Knowledge(n)

---------------------------------------------------------------------------
(* Getting there.                                                          *)

Everywhere(v) == \A m \in Member : version[m] = v

\* The member that the others leave the upgrade to has no loop because of an
\* error, and nothing in the code launches it again while its daemon is up.
LeaderFailed == \E n \in central : IsUpgradeLeader(n) /\ loop[n] = "failed"

\* Once every member has the newest snap the database gets its schema, though
\* daemons crash and answers are lost on the way.  The exception is a leader
\* whose loop ended in an error, or was not launched for one, and whose daemon
\* is not started again: a restart heals what an error broke.
UpgradeHappens ==
  Everywhere(MaxVersion) ~>
    (schema = MaxVersion \/ central = {} \/ []LeaderFailed)

\* A loop on a central node ends, with the same exception: the nodes that wait
\* see the new schema.
LoopsEnd ==
  \A n \in Member :
    (~NoLoop(n) /\ Everywhere(MaxVersion)) ~> (NoLoop(n) \/ []LeaderFailed)

---------------------------------------------------------------------------
(* What the comments and the documentation say and the code does not do.   *)

\* No database is converted before every node in the deployment confirmed
\* that it understands the new schema.
ConfirmedByAll ==
  [][(schema' # schema /\ central # {}) =>
       \A m \in Member : schema' <= version[m]]_vars

\* On a node without central the function returns silently: a daemon there
\* goes down only when its snap is replaced.
SilentWithoutCentral ==
  [][\A n \in Member \ central :
       daemon[n] /\ ~daemon'[n] => version'[n] # version[n]]_vars
===========================================================================
