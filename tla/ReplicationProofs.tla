------------------------- MODULE ReplicationProofs ------------------------
(***************************************************************************)
(* The environment files implement Replication: every step of              *)
(* ServiceControl is a step of it, or a stutter, under the mapping of      *)
(* EnvReplication.                                                         *)
(***************************************************************************)
EXTENDS EnvironmentProofs

\* A step of the abstract specification or a stutter.
EnvRefined == [EnvReplication!Next]_(EnvReplication!vars)

---------------------------------------------------------------------------
(* The four kinds of abstract steps, in terms of the detailed state.       *)

LEMMA CopyType ==
  ASSUME TypeOK
  PROVE  /\ EnvCopy \in [Node -> SUBSET Node]
         /\ EnvSettled \subseteq Node
         /\ Centrals \in SUBSET Node
BY CentralsType DEF TypeOK, EnvTypeOK, EnvCopy, EnvSettled

\* Copies and the table stay; a node may be owed a refresh or be given up.
LEMMA RefinesUnsettle ==
  ASSUME Centrals' = Centrals,
         \A m \in Node : EnvCopy'[m] = EnvCopy[m],
         EnvSettled' \subseteq EnvSettled
  PROVE  EnvRefined
<1>1. EnvCopy' = EnvCopy
  BY DEF EnvCopy
<1> QED BY <1>1 DEF EnvRefined, EnvReplication!Next, EnvReplication!Unsettle

\* The table changes.
LEMMA RefinesChange ==
  ASSUME \A m \in Node : EnvCopy'[m] = EnvCopy[m], EnvSettled' = {}
  PROVE  EnvRefined
<1>1. EnvCopy' = EnvCopy /\ Centrals' \in SUBSET Node
  BY DEF EnvCopy, Centrals
<1> QED BY <1>1 DEF EnvRefined, EnvReplication!Next, EnvReplication!Change

\* The copy of one node is replaced.
LEMMA RefinesWrite ==
  ASSUME TypeOK, Centrals' = Centrals, NEW n \in Node, NEW C \in SUBSET Node,
         EnvCopy'[n] = C,
         \A m \in Node \ {n} : EnvCopy'[m] = EnvCopy[m],
         EnvSettled' \subseteq EnvSettled \cup {n},
         n \in EnvSettled' => C = Centrals
  PROVE  EnvRefined
<1>1. EnvCopy' = [EnvCopy EXCEPT ![n] = C]
  BY DEF EnvCopy
<1>2. CASE C = Centrals
  BY <1>1, <1>2
     DEF EnvRefined, EnvReplication!Next, EnvReplication!Deliver
<1>3. CASE C # Centrals
  <2>1. EnvSettled' \in SUBSET (EnvSettled \ {n})
    BY <1>3
  <2> QED BY <1>1, <2>1
          DEF EnvRefined, EnvReplication!Next, EnvReplication!Overwrite
<1> QED BY <1>2, <1>3

---------------------------------------------------------------------------
(* Steps of a handler that is not regenerating.                            *)

\* A step that leaves files and refreshes alone, keeps its debts, or gives
\* every node up.
LEMMA HandlerRefines ==
  ASSUME TypeOK, NEW r \in Req, NEW step, pc[r] # "regen", Goto(r, step),
         UNCHANGED <<ask, env, hook, hpc, hview, todo>>,
         Centrals' = Centrals,
         lapsed \subseteq lapsed', overwritten \subseteq overwritten',
         \/ ask[r].svc = "central" /\ pc[r] \in Applied => step \in Applied
         \/ lapsed' = Node
  PROVE  EnvRefined
<1>1. \A m \in Node : EnvCopy'[m] = EnvCopy[m]
  BY DEF EnvCopy
<1>2. ASSUME NEW m \in Node, m \in EnvSettled' PROVE m \in EnvSettled
  <2>1. m \notin lapsed' /\ ~EnvOwed(m)'
    BY <1>2 DEF EnvSettled
  <2>2. ~EnvOwed(m)
    BY <2>1, OwedApart
  <2> QED BY <1>2, <2>1, <2>2 DEF EnvSettled
<1>3. EnvSettled' \subseteq EnvSettled
  BY <1>2 DEF EnvSettled
<1> QED BY <1>1, <1>3, RefinesUnsettle

\* After a step of a request for central past its change of the table nobody
\* is settled.
LEMMA NobodySettled ==
  ASSUME TypeOK, NEW r \in Req, NEW step, Goto(r, step), UNCHANGED ask,
         ask[r].svc = "central", step \in Applied \/ lapsed' = Node
  PROVE  EnvSettled' = {}
<1>1. pc'[r] = step
  BY DEF Goto, TypeOK
<1>2. \A m \in Node : EnvOwed(m)' \/ m \in lapsed'
  BY <1>1 DEF EnvOwed
<1> QED BY <1>2 DEF EnvSettled

\* A list written outside muHook.
LEMMA OverwriteRefines ==
  ASSUME TypeOK, NEW n \in Node, NEW C \in SUBSET Node,
         env' = [env EXCEPT ![n] = C], Overwrites(n, C),
         UNCHANGED <<services, lapsed, hpc, hview>>,
         \A m \in Node : EnvOwed(m) => EnvOwed(m)'
  PROVE  EnvRefined
<1>1. Centrals' = Centrals
  BY DEF Centrals, Enabled
<1>2. \A m \in Node : m # n => /\ env'[m] = env[m]
                               /\ m \in overwritten <=> m \in overwritten'
  BY DEF Overwrites, TypeOK, EnvTypeOK
<1>3. env'[n] = C /\ (n \notin overwritten' => C = Centrals)
  BY DEF Overwrites, TypeOK, EnvTypeOK
<1>4. \A m \in Node : m # n => EnvCopy'[m] = EnvCopy[m]
  BY <1>2 DEF EnvCopy
<1>5. \A m \in Node \ {n} : m \in EnvSettled' => m \in EnvSettled
  BY <1>2 DEF EnvSettled
<1>6. CASE hpc[n] = "env"
  <2>1. EnvCopy'[n] = EnvCopy[n]
    BY <1>6 DEF EnvCopy
  <2>2. n \in EnvSettled' => n \in EnvSettled
    BY <1>6 DEF EnvSettled
  <2>3. EnvSettled' \subseteq EnvSettled
    BY <1>5, <2>2 DEF EnvSettled
  <2> QED BY <1>1, <1>4, <2>1, <2>3, RefinesUnsettle
<1>7. CASE hpc[n] # "env"
  <2>1. EnvCopy'[n] = C
    BY <1>3, <1>7 DEF EnvCopy
  <2>2. n \in EnvSettled' => C = Centrals
    BY <1>3, <1>7 DEF EnvSettled
  <2>3. EnvSettled' \subseteq EnvSettled \cup {n}
    BY <1>5 DEF EnvSettled
  <2> QED BY <1>1, <1>4, <2>1, <2>2, <2>3, RefinesWrite
<1> QED BY <1>6, <1>7

\* A step that leaves requests, refreshes, the table and the files alone.
LEMMA IdleRefines ==
  ASSUME UNCHANGED <<ask, pc, todo, hook, hpc, hview, services, env, lapsed,
                     overwritten>>
  PROVE  EnvRefined
BY DEF EnvRefined, EnvReplication!vars, Centrals, Enabled, EnvCopy,
       EnvSettled, EnvOwed

---------------------------------------------------------------------------
(* Steps of a refresh and of the daemon.                                   *)

LEMMA RefreshLockRefines ==
  ASSUME TypeOK, HookConsistent, NEW r \in Req, NEW n \in Node,
         RefreshLock(r, n)
  PROVE  EnvRefined
<1>1. /\ hook' = [hook EXCEPT ![n] = r] /\ hpc' = [hpc EXCEPT ![n] = "read"]
      /\ hook[n] = NoReq
      /\ UNCHANGED <<services, env, lapsed, overwritten, ask, pc, todo, hview>>
  BY DEF RefreshLock, MayRefresh, clusterVars, envVars, ghostVars, reqVars
<1>2. \A m \in Node : hpc[m] = "env" <=> hpc'[m] = "env"
  BY <1>1 DEF HookConsistent, TypeOK
<1>3. \A m \in Node : EnvOwed(m) => EnvOwed(m)'
  BY <1>1 DEF EnvOwed, TypeOK
<1>4. \A m \in Node : EnvCopy'[m] = EnvCopy[m]
  BY <1>1, <1>2 DEF EnvCopy
<1>5. EnvSettled' \subseteq EnvSettled
  BY <1>1, <1>2, <1>3 DEF EnvSettled
<1>6. Centrals' = Centrals
  BY <1>1 DEF Centrals, Enabled
<1> QED BY <1>4, <1>5, <1>6, RefinesUnsettle

LEMMA RefreshLostRefines ==
  ASSUME TypeOK, NEW r \in Req, NEW n \in Node, RefreshLost(r, n)
  PROVE  EnvRefined
<1>1. /\ todo' = [todo EXCEPT ![r] = @ \ {n}] /\ lapsed' = lapsed \cup {n}
      /\ UNCHANGED <<services, env, overwritten, ask, pc, hook, hpc, hview>>
  BY DEF RefreshLost, clusterVars, envVars, hookVars
<1>2. \A m \in Node, q \in Req : m \in todo[q] => m \in todo'[q] \/ m = n
  BY <1>1 DEF TypeOK
<1>3. \A m \in Node : EnvOwed(m) => EnvOwed(m)' \/ m \in lapsed'
  BY <1>1, <1>2 DEF EnvOwed
<1>4. \A m \in Node : EnvCopy'[m] = EnvCopy[m]
  BY <1>1 DEF EnvCopy
<1>5. EnvSettled' \subseteq EnvSettled
  BY <1>1, <1>3 DEF EnvSettled
<1>6. Centrals' = Centrals
  BY <1>1 DEF Centrals, Enabled
<1> QED BY <1>4, <1>5, <1>6, RefinesUnsettle

\* The read under muHook settles the node, unless another request owes it.
LEMMA RefreshReadRefines ==
  ASSUME TypeOK, HookConsistent, NEW n \in Node, RefreshRead(n)
  PROVE  EnvRefined
<1>1. hpc[n] = "read" /\ hook[n] \in Req /\ hook[n] # NoReq
  BY HookHeld DEF RefreshRead
<1>2. UNCHANGED <<services, env, ask, pc>> /\ Centrals' = Centrals
  BY DEF RefreshRead, envVars, Centrals, Enabled
<1>3. CASE ctx[hook[n]]
  <2>1. /\ hview' = [hview EXCEPT ![n] = Centrals]
        /\ hpc' = [hpc EXCEPT ![n] = "env"]
        /\ lapsed' = lapsed \ {n} /\ overwritten' = overwritten \ {n}
        /\ UNCHANGED <<hook, todo>>
    BY <1>3 DEF RefreshRead
  <2>2. \A m \in Node \ {n} : hpc'[m] = hpc[m] /\ hview'[m] = hview[m]
    BY <2>1 DEF TypeOK
  <2>3. \A m \in Node \ {n} : EnvOwed(m) => EnvOwed(m)'
    BY <1>2, <2>1, <2>2 DEF EnvOwed
  <2>4. EnvCopy'[n] = Centrals
    BY <2>1 DEF EnvCopy, TypeOK
  <2>5. \A m \in Node \ {n} : EnvCopy'[m] = EnvCopy[m]
    BY <1>2, <2>2 DEF EnvCopy
  <2>6. EnvSettled' \subseteq EnvSettled \cup {n}
    BY <2>1, <2>2, <2>3 DEF EnvSettled
  <2> QED BY <1>2, <2>4, <2>5, <2>6, CopyType, RefinesWrite
<1>4. CASE ~ctx[hook[n]]
  <2>1. Unlock(n) /\ lapsed' = lapsed \cup {n} /\ UNCHANGED overwritten
    BY <1>4 DEF RefreshRead
  <2>2. \A m \in Node : /\ hpc'[m] = "env" <=> hpc[m] = "env"
                        /\ m # n => hview'[m] = hview[m]
    BY <1>1, <2>1 DEF Unlock, TypeOK
  <2>3. \A m \in Node \ {n} : EnvOwed(m) => EnvOwed(m)'
    BY <1>1, <1>2, <2>1, UnlockOwed
  <2>4. \A m \in Node : EnvCopy'[m] = EnvCopy[m]
    BY <1>1, <1>2, <2>2 DEF EnvCopy
  <2>5. EnvSettled' \subseteq EnvSettled
    BY <2>1, <2>2, <2>3 DEF EnvSettled
  <2> QED BY <1>2, <2>4, <2>5, RefinesUnsettle
<1> QED BY <1>3, <1>4

\* The write brings the copy that was settled by the read.
LEMMA RefreshEnvRefines ==
  ASSUME TypeOK, HookConsistent, NEW n \in Node, RefreshEnv(n)
  PROVE  EnvRefined
<1>1. hpc[n] = "env" /\ hook[n] \in Req /\ hook[n] # NoReq
  BY HookHeld DEF RefreshEnv
<1>2. /\ UNCHANGED <<services, ask, pc, lapsed, overwritten>>
      /\ env' = [env EXCEPT ![n] = hview[n]] /\ Centrals' = Centrals
  BY DEF RefreshEnv, Centrals, Enabled
<1>3. \/ Unlock(n)
      \/ hpc' = [hpc EXCEPT ![n] = "remote"] /\ UNCHANGED <<hook, hview, todo>>
  BY DEF RefreshEnv
<1>4. \A m \in Node : EnvOwed(m) => EnvOwed(m)'
  <2>1. CASE Unlock(n)
    BY <1>1, <1>2, <2>1, UnlockOwed
  <2>2. CASE hpc' = [hpc EXCEPT ![n] = "remote"]
             /\ UNCHANGED <<hook, hview, todo>>
    BY <1>1, <1>2, <2>2 DEF EnvOwed, TypeOK
  <2> QED BY <1>3, <2>1, <2>2
<1>5. hpc'[n] # "env" /\ env'[n] = hview[n]
  BY <1>2, <1>3 DEF Unlock, TypeOK, EnvTypeOK
<1>6. \A m \in Node \ {n} :
        hpc'[m] = hpc[m] /\ hview'[m] = hview[m] /\ env'[m] = env[m]
  BY <1>2, <1>3 DEF Unlock, TypeOK, EnvTypeOK
<1>7. \A m \in Node : EnvCopy'[m] = EnvCopy[m]
  BY <1>1, <1>5, <1>6 DEF EnvCopy
<1>8. EnvSettled' \subseteq EnvSettled
  BY <1>1, <1>2, <1>4, <1>6 DEF EnvSettled
<1> QED BY <1>2, <1>7, <1>8, RefinesUnsettle

LEMMA RefreshRemoteRefines ==
  ASSUME TypeOK, HookConsistent, NEW n \in Node,
         RefreshRemoteRead(n) \/ RefreshRemoteSet(n)
  PROVE  EnvRefined
<1>1. hpc[n] \in {"remote", "set"} /\ hook[n] \in Req /\ hook[n] # NoReq
  BY HookHeld DEF RefreshRemoteRead, RefreshRemoteSet
<1>2. /\ UNCHANGED <<services, env, ask, pc, lapsed, overwritten>>
      /\ Centrals' = Centrals
  BY DEF RefreshRemoteRead, RefreshRemoteSet, envVars, Centrals, Enabled
<1>3. \/ Unlock(n)
      \/ /\ hview' = [hview EXCEPT ![n] = Centrals]
         /\ hpc' = [hpc EXCEPT ![n] = "set"] /\ UNCHANGED <<hook, todo>>
  BY DEF RefreshRemoteRead, RefreshRemoteSet
<1>4. \A m \in Node : EnvOwed(m) => EnvOwed(m)'
  <2>1. CASE Unlock(n)
    BY <1>1, <1>2, <2>1, UnlockOwed
  <2>2. CASE hpc' = [hpc EXCEPT ![n] = "set"] /\ UNCHANGED <<hook, todo>>
    BY <1>1, <1>2, <2>2 DEF EnvOwed, TypeOK
  <2> QED BY <1>3, <2>1, <2>2
<1>5. \A m \in Node : \/ hpc'[m] = hpc[m] /\ hview'[m] = hview[m]
                      \/ hpc'[m] # "env" /\ hpc[m] # "env"
  BY <1>1, <1>3 DEF Unlock, TypeOK
<1>6. \A m \in Node : EnvCopy'[m] = EnvCopy[m]
  BY <1>2, <1>5 DEF EnvCopy
<1>7. EnvSettled' \subseteq EnvSettled
  BY <1>2, <1>4, <1>5 DEF EnvSettled
<1> QED BY <1>2, <1>6, <1>7, RefinesUnsettle

\* A crash between the read and the write of a refresh leaves the old file on
\* a node that is given up.
LEMMA CrashRefines ==
  ASSUME TypeOK, HookConsistent, NEW n \in Node, Crash(n)
  PROVE  EnvRefined
<1> DEFINE killed == {r \in Req : pc[r] \in Undecided \cup Applied
                                   /\ ask[r].node = n}
           orphaned == {r \in killed : pc[r] \in Applied
                                        /\ ask[r].svc = "central"}
<1>1. /\ UNCHANGED <<services, env, ask, overwritten>> /\ Centrals' = Centrals
      /\ pc' = [r \in Req |-> IF r \in killed THEN "idle" ELSE pc[r]]
      /\ lapsed' = IF orphaned # {} THEN Node
                   ELSE IF hook[n] # NoReq THEN lapsed \cup {n} ELSE lapsed
      /\ IF hook[n] # NoReq THEN Unlock(n)
                            ELSE UNCHANGED <<hook, hpc, hview, todo>>
  BY DEF Crash, envVars, hookVars, Centrals, Enabled
<1>2. \A r \in Req, m \in Node \ {n} : m \in todo[r] => m \in todo'[r]
  BY <1>1 DEF Unlock, TypeOK
<1>3. \A m \in Node \ {n} : /\ hook'[m] = hook[m] /\ hpc'[m] = hpc[m]
                             /\ hview'[m] = hview[m]
  BY <1>1 DEF Unlock, TypeOK
<1>4. hook[n] = NoReq => UNCHANGED <<hook, hpc, hview, todo>>
  BY <1>1
<1>5. ASSUME NEW m \in Node, m \in EnvSettled' PROVE m \in EnvSettled
  <2>1. m \notin lapsed' /\ m \notin lapsed /\ orphaned = {} /\ ~EnvOwed(m)'
        /\ (m = n => hook[n] = NoReq)
    BY <1>1, <1>5 DEF EnvSettled, TypeOK, EnvTypeOK
  <2>2. hook'[m] = hook[m] /\ hpc'[m] = hpc[m]
    BY <1>3, <1>4, <2>1
  <2>3. ASSUME EnvOwed(m) PROVE FALSE
    <3>1. PICK q \in Req :
            /\ ask[q].svc = "central"
            /\ \/ pc[q] \in Applied
               \/ pc[q] = "regen" /\ m \in todo[q]
                  /\ (hook[m] = q => hpc[m] = "read")
      BY <2>3 DEF EnvOwed
    <3>2. q \notin killed
      BY <2>1, <3>1 DEF Undecided, Applied
    <3>3. pc'[q] = pc[q] /\ (m \in todo[q] => m \in todo'[q])
      BY <1>1, <1>2, <1>4, <2>1, <3>2
    <3> QED BY <1>1, <2>1, <2>2, <3>1, <3>3 DEF EnvOwed
  <2> QED BY <1>1, <1>5, <2>1, <2>2, <2>3 DEF EnvSettled
<1>6. EnvSettled' \subseteq EnvSettled
  BY <1>5 DEF EnvSettled
<1>7. \A m \in Node \ {n} : EnvCopy'[m] = EnvCopy[m]
  BY <1>1, <1>3 DEF EnvCopy
<1>8. CASE hook[n] = NoReq
  <2>1. \A m \in Node : EnvCopy'[m] = EnvCopy[m]
    BY <1>1, <1>4, <1>8 DEF EnvCopy
  <2> QED BY <1>1, <1>6, <2>1, RefinesUnsettle
<1>9. CASE hook[n] # NoReq
  <2>1. hpc'[n] # "env" /\ n \in lapsed'
    BY <1>1, <1>9 DEF Unlock, TypeOK
  <2>2. EnvCopy'[n] = env[n] /\ env[n] \in SUBSET Node /\ n \notin EnvSettled'
    BY <1>1, <2>1 DEF EnvCopy, EnvSettled, TypeOK, EnvTypeOK
  <2> QED BY <1>1, <1>6, <1>7, <2>2, RefinesWrite
<1> QED BY <1>8, <1>9

LEMMA BootRefines ==
  ASSUME TypeOK, NEW n \in Node, BootStep(n)
  PROVE  EnvRefined
<1>1. CASE BootWrite(n)
  <2>1. UNCHANGED <<services, lapsed, ask, pc, todo, hook, hpc, hview>>
    BY <1>1 DEF BootWrite, reqVars, hookVars
  <2>2. \A m \in Node : EnvOwed(m) => EnvOwed(m)'
    BY <2>1 DEF EnvOwed
  <2>3. bview[n] \in SUBSET Node
    BY DEF TypeOK
  <2>4. env' = [env EXCEPT ![n] = bview[n]] /\ Overwrites(n, bview[n])
    BY <1>1 DEF BootWrite
  <2> QED BY <2>1, <2>2, <2>3, <2>4, OverwriteRefines
<1>2. CASE ~BootWrite(n)
  BY <1>2, IdleRefines
     DEF BootStep, Restart, BootActivate, BootRead, BootRemoteRead,
         BootRemoteSet, envVars, ghostVars, reqVars, hookVars
<1> QED BY <1>1, <1>2

---------------------------------------------------------------------------
(* Every step.                                                             *)

LEMMA HandleRefines ==
  ASSUME TypeOK, HookConsistent, NEW r \in Req, Handle(r)
  PROVE  EnvRefined
<1> USE DEF At
<1>1. ask[r].node \in Node
  BY DEF TypeOK, Ask
<1>2. UNCHANGED services => Centrals' = Centrals
  BY DEF Centrals, Enabled
<1>3. CASE Check(r) \/ LastCheck(r)
  <2>1. PICK step : Goto(r, step)
    BY <1>3 DEF Check, LastCheck
  <2>2. pc[r] \in Undecided /\ pc[r] \notin Applied /\ pc[r] # "regen"
    BY <1>3 DEF Check, LastCheck, Undecided, Applied
  <2> QED BY <1>2, <1>3, <2>1, <2>2, HandlerRefines
          DEF Check, LastCheck, envVars, ghostVars, hookVars
<1>4. CASE CreateRow(r) \/ DeleteRow(r)
  <2>1. pc[r] \notin Applied /\ pc[r] # "regen"
    BY <1>4 DEF CreateRow, DeleteRow, Applied
  <2>2. PICK step :
          /\ Goto(r, step)
          /\ \/ UNCHANGED services
             \/ /\ step \in Applied
                /\ \/ AddService(ask[r].node, ask[r].svc)
                   \/ RemoveService(ask[r].node, ask[r].svc)
    BY <1>4 DEF CreateRow, DeleteRow, Applied
  <2>3. UNCHANGED <<ask, env, lapsed, overwritten, hook, hpc, hview, todo>>
    BY <1>4 DEF CreateRow, DeleteRow, ghostVars, hookVars
  <2>4. CASE Centrals' = Centrals
    BY <2>1, <2>2, <2>3, <2>4, HandlerRefines
  <2>5. CASE Centrals' # Centrals
    <3>1. ask[r].svc = "central" /\ step \in Applied
      BY <1>1, <1>2, <2>2, <2>5, OtherRows
    <3>2. EnvSettled' = {}
      BY <2>2, <2>3, <3>1, NobodySettled
    <3>3. \A m \in Node : EnvCopy'[m] = EnvCopy[m]
      BY <2>3 DEF EnvCopy
    <3> QED BY <3>2, <3>3, RefinesChange
  <2> QED BY <2>4, <2>5
<1>5. CASE ReadEnv(r)
  <2>1. pc[r] \in Applied /\ pc[r] # "regen"
    BY <1>5 DEF ReadEnv, Applied
  <2>2. /\ UNCHANGED <<ask, env, overwritten, hook, hpc, hview, todo>>
        /\ Centrals' = Centrals
    BY <1>2, <1>5 DEF ReadEnv, envVars, hookVars
  <2>3. CASE Goto(r, "writeEnv") /\ UNCHANGED lapsed
    BY <2>1, <2>2, <2>3, HandlerRefines DEF Applied
  <2>4. CASE EndUncarried(r)
    BY <2>1, <2>2, <2>4, HandlerRefines DEF EndUncarried, TypeOK, EnvTypeOK
  <2> QED BY <1>5, <2>3, <2>4 DEF ReadEnv
<1>6. CASE WriteEnv(r)
  <2>1. pc[r] \in Applied /\ pc[r] # "regen" /\ Goto(r, "start")
    BY <1>6 DEF WriteEnv, Applied
  <2>2. /\ UNCHANGED <<services, ask, lapsed, hook, hpc, hview, todo>>
        /\ env' = [env EXCEPT ![ask[r].node] = view[r]]
        /\ view[r] \in SUBSET Node
    BY <1>6 DEF WriteEnv, hookVars, TypeOK
  <2>3. CASE ask[r].svc = "central"
    <3>1. EnvSettled' = {}
      BY <2>1, <2>2, <2>3, NobodySettled DEF Applied
    <3>2. \A m \in Node \ {ask[r].node} : EnvCopy'[m] = EnvCopy[m]
      BY <2>2 DEF EnvCopy, TypeOK, EnvTypeOK
    <3>3. EnvCopy'[ask[r].node] \in SUBSET Node
      BY <1>1, <2>2 DEF EnvCopy, TypeOK, EnvTypeOK
    <3> QED BY <1>1, <1>2, <2>2, <3>1, <3>2, <3>3, RefinesWrite
  <2>4. CASE ask[r].svc # "central"
    <3>1. \A m \in Node : EnvOwed(m) => EnvOwed(m)'
      BY <2>1, <2>2, <2>4, OwedApart
    <3>2. Overwrites(ask[r].node, view[r])
      BY <1>6, <2>4 DEF WriteEnv
    <3> QED BY <1>1, <2>2, <3>1, <3>2, OverwriteRefines
  <2> QED BY <2>3, <2>4
<1>7. CASE \/ StartApps(r) \/ Listen(r) \/ Leave(r) \/ WaitRemoved(r)
           \/ Rename(r) \/ StopApps(r)
  <2>1. PICK step \in Applied : Goto(r, step)
    BY <1>7 DEF StartApps, Listen, Leave, WaitRemoved, Rename, StopApps, Applied
  <2>2. pc[r] # "regen"
    BY <1>7 DEF StartApps, Listen, Leave, WaitRemoved, Rename, StopApps
  <2>3. /\ UNCHANGED <<ask, env, lapsed, overwritten, hook, hpc, hview, todo>>
        /\ UNCHANGED services
    BY <1>7 DEF StartApps, Listen, Leave, WaitRemoved, Rename, StopApps,
                envVars, ghostVars, hookVars
  <2> QED BY <1>2, <2>1, <2>2, <2>3, HandlerRefines
<1>8. CASE Rollback(r)
  <2>1. pc[r] # "regen" /\ EndUncarried(r)
    BY <1>8 DEF Rollback
  <2>2. UNCHANGED <<ask, env, overwritten, hook, hpc, hview, todo>>
    BY <1>8 DEF Rollback, hookVars
  <2>3. CASE ask[r].svc = "central"
    <3>1. EnvSettled' = {}
      BY <2>1, <2>2, <2>3, NobodySettled DEF EndUncarried
    <3>2. \A m \in Node : EnvCopy'[m] = EnvCopy[m]
      BY <2>2 DEF EnvCopy
    <3> QED BY <3>1, <3>2, RefinesChange
  <2>4. CASE ask[r].svc # "central"
    <3>1. Centrals' = Centrals
      BY <1>1, <1>8, <2>4, OtherRows DEF Rollback
    <3> QED BY <2>1, <2>2, <2>4, <3>1, HandlerRefines DEF EndUncarried
  <2> QED BY <2>3, <2>4
<1>9. CASE Reply(r)
  <2>1. pc[r] # "regen"
    BY <1>9 DEF Reply
  <2>2. /\ UNCHANGED <<ask, env, overwritten, hook, hpc, hview>>
        /\ Centrals' = Centrals
    BY <1>2, <1>9 DEF Reply, envVars, hookVars
  <2>3. CASE /\ Regenerates(r) /\ Goto(r, "regen")
             /\ todo' = [todo EXCEPT ![r] = Refreshed(r)]
    <3>1. ask[r].svc = "central" /\ pc'[r] = "regen"
      BY <2>3 DEF Regenerates, Goto, TypeOK
    <3>2. \A n \in Node : n \in todo'[r] /\ hook'[n] # r
      BY <2>1, <2>2, <2>3, RequestAssumption DEF Refreshed, TypeOK, HookConsistent
    <3>3. EnvSettled' = {}
      BY <2>2, <3>1, <3>2 DEF EnvSettled, EnvOwed
    <3>4. \A m \in Node : EnvCopy'[m] = EnvCopy[m]
      BY <2>2 DEF EnvCopy
    <3> QED BY <3>3, <3>4, RefinesChange
  <2>4. CASE ~Regenerates(r) /\ Goto(r, "idle") /\ UNCHANGED <<todo, lapsed>>
    BY <2>1, <2>2, <2>4, HandlerRefines DEF Regenerates
  <2>5. CASE EndUncarried(r) /\ UNCHANGED todo
    BY <2>1, <2>2, <2>5, HandlerRefines DEF EndUncarried, TypeOK, EnvTypeOK
  <2> QED BY <1>9, <2>3, <2>4, <2>5 DEF Reply
<1>10. CASE RegenEnd(r)
  <2>1. /\ UNCHANGED <<services, env, lapsed, overwritten, ask, hook, hpc, hview,
                       todo>>
        /\ Goto(r, "idle") /\ todo[r] = {} /\ pc[r] = "regen"
    BY <1>10 DEF RegenEnd, envVars, ghostVars, hookVars
  <2>2. \A q \in Req \ {r} : pc'[q] = pc[q]
    BY <2>1 DEF Goto, TypeOK
  <2>3. \A n \in Node : EnvOwed(n) => EnvOwed(n)'
    BY <2>1, <2>2 DEF EnvOwed, Applied
  <2>4. \A m \in Node : EnvCopy'[m] = EnvCopy[m]
    BY <2>1 DEF EnvCopy
  <2>5. EnvSettled' \subseteq EnvSettled
    BY <2>1, <2>3 DEF EnvSettled
  <2> QED BY <1>2, <2>1, <2>4, <2>5, RefinesUnsettle
<1> QED BY <1>3, <1>4, <1>5, <1>6, <1>7, <1>8, <1>9, <1>10 DEF Handle

LEMMA IssueRefines ==
  ASSUME TypeOK, NEW r \in Req, Issue(r)
  PROVE  EnvRefined
<1>1. /\ UNCHANGED <<services, env, lapsed, overwritten, hook, hpc, hview, todo>>
      /\ Goto(r, "check") /\ pc[r] = "idle"
      /\ \A q \in Req \ {r} : ask'[q] = ask[q]
  BY DEF Issue, envVars, ghostVars, hookVars, TypeOK
<1>2. \A q \in Req \ {r} : pc'[q] = pc[q]
  BY <1>1 DEF Goto, TypeOK
<1>3. \A n \in Node : EnvOwed(n) => EnvOwed(n)'
  BY <1>1, <1>2 DEF EnvOwed, Applied
<1>4. Centrals' = Centrals /\ \A m \in Node : EnvCopy'[m] = EnvCopy[m]
  BY <1>1 DEF Centrals, Enabled, EnvCopy
<1>5. EnvSettled' \subseteq EnvSettled
  BY <1>1, <1>3 DEF EnvSettled
<1> QED BY <1>4, <1>5, RefinesUnsettle

\* In a settled cluster every file is a copy of the table.
LEMMA InitRefines == Init => EnvReplication!Init
<1> SUFFICES ASSUME Init PROVE EnvReplication!Init
  OBVIOUS
<1>1. PICK C \in SUBSET Node : InitWith(C)
  BY DEF Init
<1>2. Centrals = C
  BY <1>1 DEF InitWith, Centrals, Enabled
<1>3. \A n \in Node : /\ env[n] = C /\ hpc[n] = "free"
                      /\ n \notin lapsed /\ n \notin overwritten
                      /\ ~EnvOwed(n)
  BY <1>1 DEF InitWith, Init, EnvOwed, Applied
<1>4. EnvCopy = [n \in Node |-> Centrals]
  BY <1>2, <1>3 DEF EnvCopy
<1>5. EnvSettled = Node
  BY <1>3 DEF EnvSettled
<1> QED BY <1>2, <1>4, <1>5 DEF EnvReplication!Init

LEMMA NextRefines == TypeOK /\ HookConsistent /\ [Next]_vars => EnvRefined
<1> SUFFICES ASSUME TypeOK, HookConsistent, [Next]_vars PROVE EnvRefined
  OBVIOUS
<1>1. ASSUME NEW r \in Req, Issue(r) PROVE EnvRefined
  BY <1>1, IssueRefines
<1>2. ASSUME NEW r \in Req, Cancel(r) PROVE EnvRefined
  BY <1>2, IdleRefines DEF Cancel, envVars, ghostVars, hookVars
<1>3. ASSUME NEW r \in Req, Handle(r) PROVE EnvRefined
  BY <1>3, HandleRefines
<1>4. ASSUME NEW r \in Req, NEW n \in Node,
             RefreshLock(r, n) \/ RefreshLost(r, n)
      PROVE  EnvRefined
  BY <1>4, RefreshLockRefines, RefreshLostRefines
<1>5. ASSUME NEW n \in Node, RefreshStep(n) PROVE EnvRefined
  BY <1>5, RefreshReadRefines, RefreshEnvRefines, RefreshRemoteRefines
     DEF RefreshStep
<1>6. ASSUME NEW n \in Node, Crash(n) PROVE EnvRefined
  BY <1>6, CrashRefines
<1>7. ASSUME NEW n \in Node, BootStep(n) PROVE EnvRefined
  BY <1>7, BootRefines
<1>8. ASSUME NEW n \in Node, DatabaseStep(n) PROVE EnvRefined
  BY <1>8, IdleRefines DEF DatabaseStep, envVars, ghostVars, reqVars, hookVars
<1>9. CASE UNCHANGED vars
  BY <1>9, IdleRefines DEF vars, envVars, ghostVars, reqVars, hookVars
<1> QED BY <1>1, <1>2, <1>3, <1>4, <1>5, <1>6, <1>7, <1>8, <1>9
        DEF Next, Settled

\* ServiceControl implements Replication: whoever reads the environment file
\* of a settled node reads the current central nodes, for any number of
\* nodes, concurrent requests and faults.
THEOREM EnvImplements == Spec => EnvReplicates
<1>1. Init => EnvReplication!Init
  BY InitRefines
<1>2. TypeOK /\ EnvInductive /\ [Next]_vars => [EnvReplication!Next]_(EnvReplication!vars)
  BY NextRefines DEF EnvInductive, EnvRefined
<1> QED BY <1>1, <1>2, TypeCorrect, EnvAccountedAlways, PTL
        DEF Spec, EnvReplicates, EnvReplication!Spec

\* Hence a settled node's copy is the table.
THEOREM EnvSettledCurrent == Spec => []EnvReplication!SettledIsCurrent
<1>1. EnvInductive => EnvReplication!SettledIsCurrent
  BY DEF EnvInductive, EnvAccounted, EnvFresh, EnvReplication!SettledIsCurrent,
         EnvSettled, EnvCopy
<1> QED BY <1>1, EnvAccountedAlways, PTL
===========================================================================
