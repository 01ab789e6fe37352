------------------------ MODULE SchemaUpgradeProofs -----------------------
(***************************************************************************)
(* The schema of a central database is held back until every member        *)
(* understands the new one: for every cluster, number of versions, faults  *)
(* and changes of the central nodes.                                       *)
(*                                                                         *)
(* The argument: versions only grow, so an answer bounds the version of    *)
(* the member that gave it for good.  A leader that received all answers,  *)
(* none of them an error and all of them its own version, therefore has a  *)
(* lower bound for every member that stays true until it converts.         *)
(***************************************************************************)
EXTENDS SchemaUpgrade, TLAPS

\* The actions of one loop that neither ask nor decide.
Walk(n) ==
  CheckActive(n) \/ Status(n) \/ Leader(n) \/ Sleep(n) \/ Retry(n)

\* The actions around the loops, the last of which stutters.
Around(n) ==
  \/ Crash(n) \/ Start(n) \/ StartFails(n)
  \/ EnableCentral(n) \/ DisableCentral(n)

LEMMA TypeInit == Init => TypeOK
<1> SUFFICES ASSUME Init PROVE TypeOK
  OBVIOUS
<1>1. version \in [Member -> Version] /\ schema \in Version
  BY DEF Init, Version
<1>2. loop \in [Member -> LoopStep]
  BY DEF Init, LoopStep
<1> QED
  BY <1>1, <1>2, LimitAssumption DEF Init, TypeOK

LEMMA GotoType ==
  ASSUME TypeOK, NEW n \in Member, NEW step \in LoopStep, Goto(n, step)
  PROVE  loop' \in [Member -> LoopStep]
  BY DEF TypeOK, Goto

LEMMA TypeStep == TypeOK /\ [Next]_vars => TypeOK'
<1> SUFFICES ASSUME TypeOK, [Next]_vars PROVE TypeOK'
  OBVIOUS
<1> USE LimitAssumption
<1>1. ASSUME NEW n \in Member, Walk(n) PROVE TypeOK'
  <2>1. CASE CheckActive(n)
    <3>1. loop' \in [Member -> LoopStep]
      BY <2>1, GotoType DEF CheckActive, LoopStep
    <3>2. faults' \in 0..MaxFaults
      BY <2>1 DEF CheckActive, Fault, TypeOK
    <3> QED
      BY <2>1, <3>1, <3>2 DEF CheckActive, roundVars, TypeOK
  <2>2. CASE Status(n)
    BY <2>2 DEF Status, Goto, LoopStep, roundVars, TypeOK
  <2>3. CASE Leader(n)
    <3>1. CASE central # {}
      <4>1. Goto(n, IF IsUpgradeLeader(n) THEN "query" ELSE "sleep")
        BY <2>3, <3>1 DEF Leader
      <4>2. loop' \in [Member -> LoopStep]
        BY <4>1, GotoType DEF LoopStep
      <4> QED
        BY <2>3, <3>1, <4>2 DEF Leader, roundVars, TypeOK
    <3>2. CASE central = {}
      <4>1. loop' \in [Member -> LoopStep]
        BY <2>3, <3>2, GotoType DEF Leader, LoopStep
      <4> QED
        BY <2>3, <3>2, <4>1 DEF Leader, roundVars, TypeOK
    <3> QED
      BY <3>1, <3>2
  <2>4. CASE Sleep(n)
    BY <2>4 DEF Sleep, Goto, LoopStep, roundVars, TypeOK
  <2>5. CASE Retry(n)
    BY <2>5 DEF Retry, Goto, LoopStep, Fault, roundVars, TypeOK
  <2> QED
    BY <1>1, <2>1, <2>2, <2>3, <2>4, <2>5 DEF Walk
<1>2. ASSUME NEW n \in Member, Query(n) PROVE TypeOK'
  <2>1. loop' \in [Member -> LoopStep]
    BY <1>2, GotoType DEF Query, LoopStep
  <2> QED
    BY <1>2, <2>1 DEF Query, Asked, TypeOK
<1>3. ASSUME NEW n \in Member, Assess(n) PROVE TypeOK'
  <2>1. AfterRound(n) \in LoopStep
    BY DEF AfterRound, LoopStep
  <2>2. loop' \in [Member -> LoopStep]
    BY <1>3, <2>1, GotoType DEF Assess
  <2> QED
    BY <1>3, <2>2 DEF Assess, roundVars, TypeOK
<1>4. ASSUME NEW n \in Member, NEW m \in Member,
             Answer(n, m) \/ NoAnswer(n, m)
      PROVE  TypeOK'
  <2>1. <<m, version[m]>> \in Member \X Version
    BY DEF TypeOK
  <2>2. CASE Answer(n, m)
    BY <2>1, <2>2 DEF Answer, TypeOK
  <2>3. CASE NoAnswer(n, m)
    <3>1. faults' \in 0..MaxFaults
      BY <2>3 DEF NoAnswer, Fault, TypeOK
    <3> QED
      BY <2>3, <3>1 DEF NoAnswer, TypeOK
  <2> QED
    BY <1>4, <2>2, <2>3
<1>5. ASSUME NEW n \in Member, NEW m \in Member, NEW lost \in Member,
             AnswersCollide(n, m, lost)
      PROVE TypeOK'
  <2>1. <<m, version[m]>> \in Member \X Version
    BY DEF TypeOK
  <2>2. loop' \in [Member -> LoopStep]
    BY <1>5, GotoType DEF AnswersCollide, TypeOK, LoopStep
  <2>3. faults' \in 0..MaxFaults
    BY <1>5 DEF AnswersCollide, Fault, TypeOK
  <2>4. CASE UNCHANGED daemon
    BY <1>5, <2>1, <2>2, <2>3, <2>4 DEF AnswersCollide, TypeOK
  <2>5. CASE /\ daemon' = [daemon EXCEPT ![n] = FALSE]
             /\ UNCHANGED <<answers, waiting, raced>>
    BY <1>5, <2>2, <2>3, <2>5 DEF AnswersCollide, TypeOK
  <2> QED
    BY <1>5, <2>4, <2>5 DEF AnswersCollide
<1>6. ASSUME NEW n \in Member, Convert(n) PROVE TypeOK'
  <2>1. loop' \in [Member -> LoopStep]
    BY <1>6, GotoType DEF Convert, LoopStep
  <2>2. schema' \in Version /\ faults' \in 0..MaxFaults
    BY <1>6 DEF Convert, Fault, TypeOK
  <2> QED
    BY <1>6, <2>1, <2>2 DEF Convert, roundVars, TypeOK
<1>7. ASSUME NEW n \in Member, Refresh(n) PROVE TypeOK'
  <2>1. loop' \in [Member -> LoopStep]
    BY <1>7, GotoType DEF Refresh, LoopStep
  <2> QED
    BY <1>7, <2>1 DEF Refresh, roundVars, TypeOK
<1>8. ASSUME NEW n \in Member, Around(n) PROVE TypeOK'
  <2>1. CASE Crash(n)
    <3>1. loop' \in [Member -> LoopStep]
      BY <2>1, GotoType DEF Crash, LoopStep
    <3>2. faults' \in 0..MaxFaults
      BY <2>1 DEF Crash, Fault, TypeOK
    <3> QED
      BY <2>1, <3>1, <3>2 DEF Crash, roundVars, TypeOK
  <2>2. CASE Start(n)
    <3>1. loop' \in [Member -> LoopStep]
      BY <2>2, GotoType DEF Start, LoopStep
    <3> QED
      BY <2>2, <3>1 DEF Start, roundVars, TypeOK
  <2>3. CASE StartFails(n)
    <3>1. loop' \in [Member -> LoopStep]
      BY <2>3, GotoType DEF StartFails, LoopStep, TypeOK
    <3>2. daemon' \in [Member -> BOOLEAN]
      BY <2>3, Zenon DEF StartFails, TypeOK, Fault
    <3>3. faults' \in 0..MaxFaults
      <4>1. faults < MaxFaults /\ faults' = faults + 1
        BY <2>3, Zenon DEF StartFails, Fault
      <4> QED
        BY <4>1 DEF TypeOK
    <3> QED
      BY <2>3, <3>1, <3>2, <3>3 DEF StartFails, roundVars, TypeOK
  <2>4. CASE EnableCentral(n)
    BY <2>4 DEF EnableCentral, Move, roundVars, TypeOK
  <2>5. CASE DisableCentral(n)
    BY <2>5 DEF DisableCentral, Move, roundVars, TypeOK
  <2> QED
    BY <1>8, <2>1, <2>2, <2>3, <2>4, <2>5 DEF Around
<1>9. CASE UNCHANGED vars
  BY <1>9 DEF vars, roundVars, TypeOK
<1> QED
  BY <1>1, <1>2, <1>3, <1>4, <1>5, <1>6, <1>7, <1>8, <1>9
     DEF Next, Loop, Round, Walk, Around, Settled

\* The variables of the loops range over their types (UpgradeCentralDB and
\* what surrounds it never leave the steps that have a successor).
THEOREM UpgradeTypeOK == Spec => []TypeOK
  BY TypeInit, TypeStep, PTL DEF Spec

---------------------------------------------------------------------------

\* What UpgradeInductive says of one leader.
Holds(n) ==
  /\ Knowledge(n)
  /\ loop[n] = "convert" /\ n \notin raced =>
       \A m \in Member : version[n] <= version[m]

LEMMA HoldsForEach == UpgradeInductive <=> \A n \in Member : Holds(n)
  BY DEF UpgradeInductive, Confirmed, Holds

LEMMA HoldsInit == Init => \A n \in Member : Holds(n)
  BY DEF Init, Holds, Knowledge

\* Versions never go back: snaps are refreshed to newer ones.
LEMMA VersionsGrow ==
  ASSUME TypeOK, [Next]_vars, NEW m \in Member
  PROVE  version[m] \in Int /\ version'[m] \in Int /\ version[m] <= version'[m]
<1>1. version[m] \in Int /\ version'[m] \in Int
  BY TypeStep DEF TypeOK, Version
<1>2. ASSUME NEW n \in Member, Refresh(n) PROVE version[m] <= version'[m]
  BY <1>1, <1>2 DEF Refresh, TypeOK, Version
<1>3. CASE UNCHANGED version
  BY <1>1, <1>3
<1> QED
  BY <1>1, <1>2, <1>3 DEF Next, Loop, Round, CheckActive, Status, Leader, Query,
     Answer, NoAnswer, AnswersCollide, Assess, Convert, Sleep, Retry, Crash,
     Start, StartFails, EnableCentral, DisableCentral, Settled, vars

\* Nothing is claimed of a loop that neither collects nor converts.
LEMMA Ends ==
  ASSUME NEW n \in Member, loop'[n] \notin {"collect", "convert"}
  PROVE  Holds(n)'
  BY DEF Holds, Knowledge

\* What a leader knows and what it decided survives the steps of others.
LEMMA Rests ==
  ASSUME TypeOK, [Next]_vars, NEW n \in Member, Holds(n),
         loop'[n] = loop[n], version'[n] = version[n],
         waiting'[n] = waiting[n], answers'[n] = answers[n],
         refused'[n] = refused[n], n \in raced' <=> n \in raced
  PROVE  Holds(n)'
<1>1. \A m \in Member :
        version[m] \in Int /\ version'[m] \in Int /\ version[m] <= version'[m]
  BY VersionsGrow
<1>2. \A a \in answers[n] : a[1] \in Member /\ a[2] \in Int
  BY DEF TypeOK, Version
<1>3. Knowledge(n)'
  <2>1. SUFFICES ASSUME loop[n] = "collect", n \notin raced PROVE Knowledge(n)'
    BY DEF Knowledge
  <2>2. \A a \in answers'[n] : a[2] <= version'[a[1]]
    BY <1>1, <1>2, <2>1 DEF Holds, Knowledge
  <2>3. \A m \in Member \ {n} :
          \/ refused'[n]
          \/ m \in waiting'[n]
          \/ \E a \in answers'[n] : a[1] = m
    BY <2>1 DEF Holds, Knowledge
  <2> QED
    BY <2>2, <2>3 DEF Knowledge
<1>4. loop'[n] = "convert" /\ n \notin raced' =>
        \A m \in Member : version'[n] <= version'[m]
  BY <1>1 DEF Holds
<1> QED
  BY <1>3, <1>4 DEF Holds

\* Whatever member i does to its loop, the other loops keep what they have.
LEMMA StepOfOthers ==
  ASSUME TypeOK, NEW i \in Member,
         Loop(i) \/ Refresh(i) \/ Around(i),
         NEW n \in Member, n # i
  PROVE  /\ loop'[n] = loop[n] /\ version'[n] = version[n]
         /\ waiting'[n] = waiting[n] /\ answers'[n] = answers[n]
         /\ refused'[n] = refused[n] /\ (n \in raced' <=> n \in raced)
<1> USE DEF TypeOK, roundVars, Goto
<1>1. CASE CheckActive(i) \/ Status(i) \/ Sleep(i) \/ Retry(i)
  BY <1>1 DEF CheckActive, Status, Sleep, Retry
<1>2. CASE Leader(i)
  BY <1>2 DEF Leader
<1>3. CASE Query(i) \/ Assess(i)
  BY <1>3 DEF Query, Assess
<1>4. ASSUME NEW m \in Member, Answer(i, m) \/ NoAnswer(i, m)
      PROVE  /\ loop'[n] = loop[n] /\ version'[n] = version[n]
             /\ waiting'[n] = waiting[n] /\ answers'[n] = answers[n]
             /\ refused'[n] = refused[n] /\ (n \in raced' <=> n \in raced)
  BY <1>4 DEF Answer, NoAnswer
<1>5. ASSUME NEW m \in Member, NEW lost \in Member, AnswersCollide(i, m, lost)
      PROVE  /\ loop'[n] = loop[n] /\ version'[n] = version[n]
             /\ waiting'[n] = waiting[n] /\ answers'[n] = answers[n]
             /\ refused'[n] = refused[n] /\ (n \in raced' <=> n \in raced)
  BY <1>5 DEF AnswersCollide
<1>6. CASE Convert(i) \/ Refresh(i)
  BY <1>6 DEF Convert, Refresh
<1>7. CASE Around(i)
  BY <1>7 DEF Around, Crash, Start, StartFails, EnableCentral, DisableCentral
<1> QED
  BY <1>1, <1>2, <1>3, <1>4, <1>5, <1>6, <1>7 DEF Loop, Round

LEMMA HoldsStep ==
  ASSUME TypeOK, UpgradeInductive, [Next]_vars, NEW n \in Member
  PROVE  Holds(n)'
<1> USE HoldsForEach
<1>1. ASSUME NEW i \in Member, i # n,
             Loop(i) \/ Refresh(i) \/ Around(i)
      PROVE  Holds(n)'
  BY <1>1, StepOfOthers, Rests
<1>2. CASE CheckActive(n) \/ Status(n) \/ Sleep(n) \/ Retry(n)
  <2>1. loop'[n] \notin {"collect", "convert"}
    BY <1>2 DEF CheckActive, Status, Sleep, Retry, Goto, TypeOK
  <2> QED
    BY <2>1, Ends
<1>3. CASE Leader(n)
  <2>1. loop'[n] \notin {"collect", "convert"}
    BY <1>3 DEF Leader, Goto, TypeOK
  <2> QED
    BY <2>1, Ends
<1>4. CASE Query(n)
  BY <1>4 DEF Query, Asked, Goto, Holds, Knowledge, TypeOK
<1>5. ASSUME NEW m \in Member, Answer(n, m) PROVE Holds(n)'
  <2>1. SUFFICES ASSUME n \notin raced PROVE Knowledge(n)'
    BY <1>5 DEF Answer, Holds, Knowledge
  <2>2. Knowledge(n) /\ loop[n] = "collect"
    BY <1>5 DEF Answer, Holds
  <2>3. /\ answers'[n] = answers[n] \cup {<<m, version[m]>>}
        /\ waiting'[n] = waiting[n] \ {m}
        /\ UNCHANGED <<version, refused>>
    BY <1>5 DEF Answer, TypeOK
  <2>4. \A a \in answers'[n] : a[2] <= version'[a[1]]
    BY <2>1, <2>2, <2>3, VersionsGrow DEF Knowledge
  <2>5. \A k \in Member \ {n} :
          \/ refused'[n]
          \/ k \in waiting'[n]
          \/ \E a \in answers'[n] : a[1] = k
    <3>1. <<m, version[m]>> \in answers'[n] /\ <<m, version[m]>>[1] = m
      BY <2>3
    <3>2. TAKE k \in Member \ {n}
    <3>3. CASE k = m
      BY <3>1, <3>3
    <3>4. CASE k # m
      BY <2>1, <2>2, <2>3, <3>4 DEF Knowledge
    <3> QED
      BY <3>3, <3>4
  <2> QED
    BY <2>4, <2>5 DEF Knowledge
<1>6. ASSUME NEW m \in Member, NoAnswer(n, m) PROVE Holds(n)'
  BY <1>6 DEF NoAnswer, Holds, Knowledge, TypeOK
<1>7. ASSUME NEW m \in Member, NEW lost \in Member, AnswersCollide(n, m, lost)
      PROVE  Holds(n)'
  <2>1. loop'[n] \notin {"collect", "convert"} \/ n \in raced'
    BY <1>7 DEF AnswersCollide, Goto, TypeOK
  <2> QED
    BY <2>1 DEF Holds, Knowledge
<1>8. CASE Assess(n)
  <2>1. SUFFICES ASSUME loop'[n] = "convert", n \notin raced
                 PROVE  \A m \in Member : version'[n] <= version'[m]
    BY <1>8, Ends DEF Assess, AfterRound, Goto, Holds, Knowledge, TypeOK,
       roundVars
  <2>2. Ready(n) /\ waiting[n] = {} /\ Knowledge(n) /\ loop[n] = "collect"
    BY <1>8, <2>1 DEF Assess, AfterRound, Goto, Holds, TypeOK
  <2>3. ASSUME NEW m \in Member \ {n} PROVE version[n] <= version[m]
    <3>1. PICK a \in answers[n] : a[1] = m
      BY <2>1, <2>2, <2>3 DEF Knowledge, Ready
    <3>2. a[2] = version[n] /\ a[2] <= version[m]
      BY <2>1, <2>2, <3>1 DEF Knowledge, Ready
    <3> QED
      BY <3>2
  <2> QED
    BY <1>8, <2>3, VersionsGrow DEF Assess
<1>9. CASE Convert(n) \/ Refresh(n) \/ Crash(n) \/ Start(n)
  <2>1. loop'[n] \notin {"collect", "convert"}
    BY <1>9 DEF Convert, Refresh, Crash, Start, Goto, TypeOK
  <2> QED
    BY <2>1, Ends
<1>10. CASE StartFails(n)
  <2>1. CASE UNCHANGED loop
    BY <1>10, <2>1, Rests DEF StartFails, roundVars
  <2>2. CASE loop'[n] \notin {"collect", "convert"}
    BY <2>2, Ends
  <2> QED
    BY <1>10, <2>1, <2>2 DEF StartFails, Goto, TypeOK
<1>11. CASE EnableCentral(n) \/ DisableCentral(n)
  BY <1>11, Rests DEF EnableCentral, DisableCentral, roundVars
<1>12. CASE UNCHANGED vars
  BY <1>12, Rests DEF vars, roundVars
<1> QED
  BY <1>1, <1>2, <1>3, <1>4, <1>5, <1>6, <1>7, <1>8, <1>9, <1>10, <1>11,
     <1>12 DEF Next, Loop, Round, Around, Settled

\* What a leader of isClusterUpgradeReady knows while it collects answers and
\* when it decides: nobody's version is below the answer it gave.
THEOREM UpgradeInductiveAlways == Spec => []UpgradeInductive
<1>1. Init => UpgradeInductive
  BY HoldsInit, HoldsForEach
<1>2. TypeOK /\ UpgradeInductive /\ [Next]_vars => UpgradeInductive'
  BY HoldsStep DEF UpgradeInductive, Holds, Confirmed
<1> QED
  BY <1>1, <1>2, UpgradeTypeOK, PTL DEF Spec

\* The schema of an existing database changes only by ovsdb-client convert,
\* and only to one that the snap of every member understands.
THEOREM SchemaHeldBack == Spec => HeldBack
<1>1. TypeOK /\ UpgradeInductive /\ [Next]_vars =>
        [(schema' # schema /\ central # {} /\ raced = {}) =>
           \A m \in Member : schema' <= version[m]]_vars
  <2>1. SUFFICES ASSUME UpgradeInductive, Next, schema' # schema,
                        central # {}, raced = {}
                 PROVE  \A m \in Member : schema' <= version[m]
    BY DEF vars
  <2>2. PICK n \in Member : Convert(n)
    BY <2>1 DEF Next, Loop, Round, CheckActive, Status, Leader, Query, Answer,
       NoAnswer, AnswersCollide, Assess, Sleep, Retry, Refresh, Crash, Start,
       StartFails, EnableCentral, DisableCentral, Settled, vars
  <2>3. schema' = version[n]
    BY <2>1, <2>2 DEF Convert
  <2> QED
    BY <2>1, <2>2, <2>3 DEF Convert, UpgradeInductive, Confirmed
<1> QED
  BY <1>1, UpgradeTypeOK, UpgradeInductiveAlways, PTL DEF Spec, HeldBack

===========================================================================
