------------------------- MODULE EnvironmentProofs ------------------------
(***************************************************************************)
(* No interleaving leaves an environment file behind the table unnoticed:  *)
(* EnvInductive is an inductive invariant and implies EnvFollowsCentrals.  *)
(* Two requests never leave two clusters of databases, because of what     *)
(* they read for those files: TwiceKept implies NoSplitBrain.              *)
(***************************************************************************)
EXTENDS ServiceControlProofs

---------------------------------------------------------------------------
(* Steps of a handler that is not regenerating.                            *)

\* A request that is not in its regeneration holds no muHook.
LEMMA HookApart ==
  ASSUME HookConsistent, TypeOK, NEW r \in Req, NEW step, pc[r] # "regen",
         Goto(r, step), UNCHANGED <<hook, hpc>>,
         \A q \in Req \ {r} : todo'[q] = todo[q]
  PROVE  HookConsistent'
<1> SUFFICES ASSUME NEW n \in Node
             PROVE  /\ hook[n] = NoReq <=> hpc[n] = "free"
                    /\ hook[n] # NoReq => /\ pc'[hook[n]] = "regen"
                                          /\ n \in todo'[hook[n]]
  BY DEF HookConsistent
<1>1. hook[n] \in Req \cup {NoReq}
  BY DEF TypeOK
<1>2. hook[n] # r
  BY RequestAssumption DEF HookConsistent
<1> QED BY <1>1, <1>2 DEF HookConsistent, Goto, TypeOK

\* What others owe is not touched by a step of r.
LEMMA OwedApart ==
  ASSUME TypeOK, NEW r \in Req, NEW step, NEW n \in Node, EnvOwed(n),
         pc[r] # "regen", Goto(r, step), UNCHANGED <<ask, hook, hpc, todo>>,
         ask[r].svc = "central" /\ pc[r] \in Applied => step \in Applied
  PROVE  EnvOwed(n)'
<1>1. PICK q \in Req :
        /\ ask[q].svc = "central"
        /\ \/ pc[q] \in Applied
           \/ pc[q] = "regen" /\ n \in todo[q]
              /\ (hook[n] = q => hpc[n] = "read")
  BY DEF EnvOwed
<1>2. pc' = [pc EXCEPT ![r] = step] /\ r \in DOMAIN pc /\ q \in DOMAIN pc
  BY DEF Goto, TypeOK
<1>3. CASE q = r
  <2>1. pc'[q] \in Applied
    BY <1>1, <1>2, <1>3
  <2> QED BY <1>1, <2>1 DEF EnvOwed
<1>4. CASE q # r
  <2>1. pc'[q] = pc[q]
    BY <1>2, <1>4
  <2> QED BY <1>1, <2>1 DEF EnvOwed
<1> QED BY <1>3, <1>4

\* A step of a handler that touches neither the copies nor the central nodes,
\* and that ends a change of them only by giving every node up.
LEMMA HandlerStep ==
  ASSUME EnvInductive, TypeOK, NEW r \in Req, NEW step, pc[r] # "regen",
         Goto(r, step), UNCHANGED <<ask, env, hook, hpc, hview, todo>>,
         Centrals' = Centrals,
         lapsed \subseteq lapsed', overwritten \subseteq overwritten',
         \/ ask[r].svc = "central" /\ pc[r] \in Applied => step \in Applied
         \/ lapsed' = Node
  PROVE  EnvInductive'
<1>1. HookConsistent'
  BY HookApart DEF EnvInductive
<1>2. ASSUME NEW n \in Node PROVE EnvAccounted(n)'
  <2>1. EnvAccounted(n)
    BY DEF EnvInductive
  <2>2. CASE n \in lapsed'
    BY <2>2 DEF EnvAccounted
  <2>3. CASE n \notin lapsed' /\ EnvOwed(n)
    <3>1. EnvOwed(n)'
      BY <2>3, OwedApart
    <3> QED BY <3>1 DEF EnvAccounted
  <2>4. CASE n \notin lapsed' /\ ~EnvOwed(n)
    BY <2>1, <2>4 DEF EnvAccounted, EnvFresh
  <2> QED BY <2>2, <2>3, <2>4
<1> QED BY <1>1, <1>2 DEF EnvInductive

\* After a change of the central nodes the request that made it owes every
\* node a refresh, or every node is given up.
LEMMA ChangeCarried ==
  ASSUME EnvInductive, TypeOK, NEW r \in Req, NEW step, pc[r] # "regen",
         Goto(r, step), UNCHANGED <<ask, hook, hpc, todo>>,
         ask[r].svc = "central",
         step \in Applied \/ lapsed' = Node
  PROVE  EnvInductive'
<1>1. HookConsistent'
  BY HookApart DEF EnvInductive
<1>2. pc'[r] = step
  BY DEF Goto, TypeOK
<1>3. \A n \in Node : EnvAccounted(n)'
  BY <1>2 DEF EnvAccounted, EnvOwed
<1> QED BY <1>1, <1>3 DEF EnvInductive

\* Rows of other services do not change the central nodes.
LEMMA OtherRows ==
  ASSUME NEW n \in Node, NEW svc, svc # "central",
         AddService(n, svc) \/ RemoveService(n, svc) \/ UNCHANGED services
  PROVE  Centrals' = Centrals
BY DEF AddService, RemoveService, Centrals, Enabled

---------------------------------------------------------------------------
(* Steps of a refresh.                                                     *)

\* Releasing muHook leaves the other holders their nodes.
LEMMA UnlockConsistent ==
  ASSUME HookConsistent, TypeOK, NEW n \in Node, hook[n] # NoReq, Unlock(n),
         UNCHANGED pc
  PROVE  HookConsistent'
<1> SUFFICES ASSUME NEW m \in Node
             PROVE  /\ hook'[m] = NoReq <=> hpc'[m] = "free"
                    /\ hook'[m] # NoReq => /\ pc'[hook'[m]] = "regen"
                                           /\ m \in todo'[hook'[m]]
  BY DEF HookConsistent
<1>1. hook[n] \in Req /\ hook[m] \in Req \cup {NoReq}
  BY DEF TypeOK
<1>2. CASE m = n
  BY <1>2 DEF Unlock, TypeOK
<1>3. CASE m # n
  <2>1. hook'[m] = hook[m] /\ hpc'[m] = hpc[m]
    BY <1>3 DEF Unlock, TypeOK
  <2>2. \A q \in Req : m \in todo[q] => m \in todo'[q]
    BY <1>1, <1>3 DEF Unlock, TypeOK
  <2> QED BY <1>1, <2>1, <2>2 DEF HookConsistent
<1> QED BY <1>2, <1>3

\* The refresh that releases muHook after it read the table was no longer
\* owed to the node.
LEMMA UnlockOwed ==
  ASSUME HookConsistent, TypeOK, NEW n \in Node, hook[n] # NoReq, Unlock(n),
         UNCHANGED <<ask, pc>>,
         NEW m \in Node, m # n \/ hpc[n] # "read", EnvOwed(m)
  PROVE  EnvOwed(m)'
<1>1. PICK q \in Req :
        /\ ask[q].svc = "central"
        /\ \/ pc[q] \in Applied
           \/ pc[q] = "regen" /\ m \in todo[q]
              /\ (hook[m] = q => hpc[m] = "read")
  BY DEF EnvOwed
<1>2. CASE pc[q] \in Applied
  BY <1>1, <1>2 DEF EnvOwed
<1>3. CASE pc[q] \notin Applied
  <2>1. pc[q] = "regen" /\ m \in todo[q] /\ (hook[m] = q => hpc[m] = "read")
    BY <1>1, <1>3
  <2>2. m \in todo'[q]
    BY <2>1 DEF Unlock, TypeOK
  <2>3. hook'[m] = q => hpc'[m] = "read"
    BY <2>1, RequestAssumption DEF Unlock, TypeOK
  <2> QED BY <1>1, <2>1, <2>2, <2>3 DEF EnvOwed
<1> QED BY <1>2, <1>3

\* hook[n] names the request of a refresh that is under way.
LEMMA HookHeld ==
  ASSUME HookConsistent, TypeOK, NEW n \in Node, hpc[n] # "free"
  PROVE  hook[n] \in Req /\ hook[n] # NoReq
BY DEF HookConsistent, TypeOK

LEMMA RefreshLockStep ==
  ASSUME EnvInductive, TypeOK, NEW r \in Req, NEW n \in Node,
         RefreshLock(r, n)
  PROVE  EnvInductive'
<1>1. /\ hook' = [hook EXCEPT ![n] = r] /\ hpc' = [hpc EXCEPT ![n] = "read"]
      /\ hook[n] = NoReq /\ pc[r] = "regen" /\ n \in todo[r]
      /\ UNCHANGED <<services, env, lapsed, overwritten, ask, pc, todo, hview>>
  BY DEF RefreshLock, MayRefresh, clusterVars, envVars, ghostVars, reqVars
<1>2. hpc[n] = "free"
  BY <1>1 DEF EnvInductive, HookConsistent
<1>3. HookConsistent'
  BY <1>1, RequestAssumption DEF EnvInductive, HookConsistent, TypeOK
<1>4. ASSUME NEW m \in Node PROVE EnvAccounted(m)'
  <2>1. EnvAccounted(m)
    BY DEF EnvInductive
  <2>2. EnvOwed(m) => EnvOwed(m)'
    BY <1>1 DEF EnvOwed, TypeOK
  <2>3. hpc[m] = "env" <=> hpc'[m] = "env"
    BY <1>1, <1>2 DEF TypeOK
  <2>4. Centrals' = Centrals
    BY <1>1 DEF Centrals, Enabled
  <2> QED BY <1>1, <2>1, <2>2, <2>3, <2>4 DEF EnvAccounted, EnvFresh
<1> QED BY <1>3, <1>4 DEF EnvInductive

LEMMA RefreshLostStep ==
  ASSUME EnvInductive, TypeOK, NEW r \in Req, NEW n \in Node,
         RefreshLost(r, n)
  PROVE  EnvInductive'
<1>1. /\ todo' = [todo EXCEPT ![r] = @ \ {n}] /\ lapsed' = lapsed \cup {n}
      /\ hook[n] # r
      /\ UNCHANGED <<services, env, overwritten, ask, pc, hook, hpc, hview>>
  BY DEF RefreshLost, clusterVars, envVars, hookVars
<1>2. \A m \in Node, q \in Req : m \in todo[q] => m \in todo'[q] \/ (m = n /\ q = r)
  BY <1>1 DEF TypeOK
<1>3. HookConsistent'
  <2> SUFFICES ASSUME NEW m \in Node
               PROVE  /\ hook[m] = NoReq <=> hpc[m] = "free"
                      /\ hook[m] # NoReq => /\ pc[hook[m]] = "regen"
                                            /\ m \in todo'[hook[m]]
    BY <1>1 DEF HookConsistent
  <2>1. hook[m] \in Req \cup {NoReq}
    BY DEF TypeOK
  <2> QED BY <1>1, <1>2, <2>1 DEF EnvInductive, HookConsistent
<1>4. ASSUME NEW m \in Node, m # n PROVE EnvAccounted(m)'
  <2>1. EnvAccounted(m)
    BY DEF EnvInductive
  <2>2. EnvOwed(m) => EnvOwed(m)'
    BY <1>1, <1>2, <1>4 DEF EnvOwed
  <2>3. Centrals' = Centrals
    BY <1>1 DEF Centrals, Enabled
  <2> QED BY <1>1, <2>1, <2>2, <2>3 DEF EnvAccounted, EnvFresh
<1>5. EnvAccounted(n)'
  BY <1>1 DEF EnvAccounted
<1> QED BY <1>3, <1>4, <1>5 DEF EnvInductive

\* A refresh that read the table owes its node nothing but the write.
LEMMA RefreshReadStep ==
  ASSUME EnvInductive, TypeOK, NEW n \in Node, RefreshRead(n)
  PROVE  EnvInductive'
<1>1. hpc[n] = "read" /\ hook[n] \in Req /\ hook[n] # NoReq
  BY HookHeld DEF RefreshRead, EnvInductive
<1>2. UNCHANGED <<services, env, ask, pc>> /\ Centrals' = Centrals
  BY DEF RefreshRead, envVars, Centrals, Enabled
<1>3. CASE ctx[hook[n]]
  <2>1. /\ hview' = [hview EXCEPT ![n] = Centrals]
        /\ hpc' = [hpc EXCEPT ![n] = "env"]
        /\ lapsed' = lapsed \ {n} /\ overwritten' = overwritten \ {n}
        /\ UNCHANGED <<hook, todo>>
    BY <1>3 DEF RefreshRead
  <2>2. HookConsistent'
    BY <1>1, <1>2, <2>1 DEF EnvInductive, HookConsistent, TypeOK
  <2>3. EnvAccounted(n)'
    BY <1>2, <2>1 DEF EnvAccounted, TypeOK
  <2>4. ASSUME NEW m \in Node, m # n PROVE EnvAccounted(m)'
    <3>1. EnvAccounted(m)
      BY DEF EnvInductive
    <3>2. hpc'[m] = hpc[m] /\ hview'[m] = hview[m]
      BY <2>1, <2>4 DEF TypeOK
    <3>3. EnvOwed(m) => EnvOwed(m)'
      BY <1>2, <2>1, <3>2 DEF EnvOwed
    <3> QED BY <1>2, <2>1, <2>4, <3>1, <3>2, <3>3 DEF EnvAccounted, EnvFresh
  <2> QED BY <2>2, <2>3, <2>4 DEF EnvInductive
<1>4. CASE ~ctx[hook[n]]
  <2>1. Unlock(n) /\ lapsed' = lapsed \cup {n} /\ UNCHANGED overwritten
    BY <1>4 DEF RefreshRead
  <2>2. HookConsistent'
    BY <1>1, <1>2, <2>1, UnlockConsistent DEF EnvInductive
  <2>3. EnvAccounted(n)'
    BY <2>1 DEF EnvAccounted
  <2>4. ASSUME NEW m \in Node, m # n PROVE EnvAccounted(m)'
    <3>1. EnvAccounted(m)
      BY DEF EnvInductive
    <3>2. hpc'[m] = hpc[m] /\ hview'[m] = hview[m]
      BY <2>1, <2>4 DEF Unlock, TypeOK
    <3>3. EnvOwed(m) => EnvOwed(m)'
      BY <1>1, <1>2, <2>1, <2>4, UnlockOwed DEF EnvInductive
    <3> QED BY <1>2, <2>1, <3>1, <3>2, <3>3 DEF EnvAccounted, EnvFresh
  <2> QED BY <2>2, <2>3, <2>4 DEF EnvInductive
<1> QED BY <1>3, <1>4

\* The write under muHook brings what the refresh read.
LEMMA RefreshEnvStep ==
  ASSUME EnvInductive, TypeOK, NEW n \in Node, RefreshEnv(n)
  PROVE  EnvInductive'
<1>1. hpc[n] = "env" /\ hook[n] \in Req /\ hook[n] # NoReq
  BY HookHeld DEF RefreshEnv, EnvInductive
<1>2. /\ UNCHANGED <<services, ask, pc, lapsed, overwritten>>
      /\ env' = [env EXCEPT ![n] = hview[n]] /\ Centrals' = Centrals
  BY DEF RefreshEnv, Centrals, Enabled
<1>3. \/ Unlock(n)
      \/ hpc' = [hpc EXCEPT ![n] = "remote"] /\ UNCHANGED <<hook, hview, todo>>
  BY DEF RefreshEnv
<1>4. HookConsistent'
  <2>1. CASE Unlock(n)
    BY <1>1, <1>2, <2>1, UnlockConsistent DEF EnvInductive
  <2>2. CASE hpc' = [hpc EXCEPT ![n] = "remote"]
             /\ UNCHANGED <<hook, hview, todo>>
    BY <1>1, <1>2, <2>2 DEF EnvInductive, HookConsistent, TypeOK
  <2> QED BY <1>3, <2>1, <2>2
<1>5. ASSUME NEW m \in Node, EnvOwed(m) PROVE EnvOwed(m)'
  <2>1. CASE Unlock(n)
    BY <1>1, <1>2, <1>5, <2>1, UnlockOwed DEF EnvInductive
  <2>2. CASE hpc' = [hpc EXCEPT ![n] = "remote"]
             /\ UNCHANGED <<hook, hview, todo>>
    BY <1>1, <1>2, <1>5, <2>2 DEF EnvOwed, TypeOK
  <2> QED BY <1>3, <2>1, <2>2
<1>6. hpc'[n] # "env" /\ env'[n] = hview[n]
  BY <1>2, <1>3 DEF Unlock, TypeOK, EnvTypeOK
<1>7. ASSUME NEW m \in Node, m # n
      PROVE  hpc'[m] = hpc[m] /\ hview'[m] = hview[m] /\ env'[m] = env[m]
  BY <1>2, <1>3, <1>7 DEF Unlock, TypeOK, EnvTypeOK
<1>8. ASSUME NEW m \in Node PROVE EnvAccounted(m)'
  <2>1. EnvAccounted(m)
    BY DEF EnvInductive
  <2>2. CASE m = n
    BY <1>1, <1>2, <1>5, <1>6, <2>1, <2>2 DEF EnvAccounted, EnvFresh
  <2>3. CASE m # n
    BY <1>2, <1>5, <1>7, <2>1, <2>3 DEF EnvAccounted, EnvFresh
  <2> QED BY <2>2, <2>3
<1> QED BY <1>4, <1>8 DEF EnvInductive

\* The steps of a refresh that follow leave the environment file alone.
LEMMA RefreshRemoteStep ==
  ASSUME EnvInductive, TypeOK, NEW n \in Node,
         RefreshRemoteRead(n) \/ RefreshRemoteSet(n)
  PROVE  EnvInductive'
<1>1. hpc[n] \in {"remote", "set"} /\ hook[n] \in Req /\ hook[n] # NoReq
  BY HookHeld DEF RefreshRemoteRead, RefreshRemoteSet, EnvInductive
<1>2. /\ UNCHANGED <<services, env, ask, pc, lapsed, overwritten>>
      /\ Centrals' = Centrals
  BY DEF RefreshRemoteRead, RefreshRemoteSet, envVars, Centrals, Enabled
<1>3. \/ Unlock(n)
      \/ /\ hview' = [hview EXCEPT ![n] = Centrals]
         /\ hpc' = [hpc EXCEPT ![n] = "set"] /\ UNCHANGED <<hook, todo>>
  BY DEF RefreshRemoteRead, RefreshRemoteSet
<1>4. HookConsistent'
  <2>1. CASE Unlock(n)
    BY <1>1, <1>2, <2>1, UnlockConsistent DEF EnvInductive
  <2>2. CASE hpc' = [hpc EXCEPT ![n] = "set"] /\ UNCHANGED <<hook, todo>>
    BY <1>1, <1>2, <2>2 DEF EnvInductive, HookConsistent, TypeOK
  <2> QED BY <1>3, <2>1, <2>2
<1>5. ASSUME NEW m \in Node, EnvOwed(m) PROVE EnvOwed(m)'
  <2>1. CASE Unlock(n)
    BY <1>1, <1>2, <1>5, <2>1, UnlockOwed DEF EnvInductive
  <2>2. CASE hpc' = [hpc EXCEPT ![n] = "set"] /\ UNCHANGED <<hook, todo>>
    BY <1>1, <1>2, <1>5, <2>2 DEF EnvOwed, TypeOK
  <2> QED BY <1>3, <2>1, <2>2
<1>6. ASSUME NEW m \in Node
      PROVE  \/ hpc'[m] = hpc[m] /\ hview'[m] = hview[m]
             \/ hpc'[m] # "env" /\ hpc[m] # "env"
  BY <1>1, <1>3 DEF Unlock, TypeOK
<1>7. ASSUME NEW m \in Node PROVE EnvAccounted(m)'
  <2>1. EnvAccounted(m)
    BY DEF EnvInductive
  <2> QED BY <1>2, <1>5, <1>6, <2>1 DEF EnvAccounted, EnvFresh
<1> QED BY <1>4, <1>7 DEF EnvInductive

---------------------------------------------------------------------------
(* Steps of the daemon.                                                    *)

\* A crash gives up the node it interrupts, and every node when it kills a
\* handler that had changed the central nodes.
LEMMA CrashStep ==
  ASSUME EnvInductive, TypeOK, NEW n \in Node, Crash(n)
  PROVE  EnvInductive'
<1> DEFINE killed == {r \in Req : pc[r] \in Undecided \cup Applied
                                   /\ ask[r].node = n}
           orphaned == {r \in killed : pc[r] \in Applied
                                        /\ ask[r].svc = "central"}
<1>1. /\ UNCHANGED <<services, env, ask, overwritten>> /\ Centrals' = Centrals
      /\ pc' = [r \in Req |-> IF r \in killed THEN "idle" ELSE pc[r]]
      /\ lapsed' = IF orphaned # {} THEN Node
                   ELSE IF hook[n] # NoReq THEN lapsed \cup {n} ELSE lapsed
      /\ IF hook[n] # NoReq THEN Unlock(n)
                            ELSE UNCHANGED <<hook, hpc, hview, todo>>
  BY DEF Crash, envVars, hookVars, Centrals, Enabled
<1>2. \A r \in Req : pc[r] = "regen" => pc'[r] = "regen"
  BY <1>1 DEF Undecided, Applied
<1>3. \A r \in Req, m \in Node :
        m \in todo[r] => m \in todo'[r] \/ (m = n /\ hook[n] = r)
  BY <1>1 DEF Unlock, TypeOK
<1>4. \A m \in Node : /\ m # n => hook'[m] = hook[m] /\ hpc'[m] = hpc[m]
                                  /\ hview'[m] = hview[m]
                      /\ m = n => hook'[m] = NoReq
                      /\ hook[n] = NoReq => hpc'[n] = hpc[n]
                      /\ hook[n] # NoReq => hpc'[n] = "free"
  BY <1>1 DEF Unlock, TypeOK
<1>5. HookConsistent'
  <2> SUFFICES ASSUME NEW m \in Node
               PROVE  /\ hook'[m] = NoReq <=> hpc'[m] = "free"
                      /\ hook'[m] # NoReq => /\ pc'[hook'[m]] = "regen"
                                             /\ m \in todo'[hook'[m]]
    BY DEF HookConsistent
  <2>1. hook[m] \in Req \cup {NoReq}
    BY DEF TypeOK
  <2> QED BY <1>2, <1>3, <1>4, <2>1 DEF EnvInductive, HookConsistent
<1>6. ASSUME NEW m \in Node, m \notin lapsed' PROVE EnvAccounted(m)'
  <2>1. EnvAccounted(m) /\ m \notin lapsed /\ orphaned = {}
    BY <1>1, <1>6 DEF EnvInductive
  <2>2. hook'[m] = hook[m] /\ hpc'[m] = hpc[m] /\ hview'[m] = hview[m]
    BY <1>1, <1>4, <1>6
  <2>3. ASSUME EnvOwed(m) PROVE EnvOwed(m)'
    <3>1. PICK q \in Req :
            /\ ask[q].svc = "central"
            /\ \/ pc[q] \in Applied
               \/ pc[q] = "regen" /\ m \in todo[q]
                  /\ (hook[m] = q => hpc[m] = "read")
      BY <2>3 DEF EnvOwed
    <3>2. q \notin killed
      BY <2>1, <3>1 DEF Undecided, Applied
    <3>3. pc'[q] = pc[q]
      BY <1>1, <3>2
    <3>4. m \in todo[q] => m \in todo'[q]
      BY <1>1, <1>3, <1>6, RequestAssumption
    <3> QED BY <1>1, <2>2, <3>1, <3>3, <3>4 DEF EnvOwed
  <2> QED BY <1>1, <2>1, <2>2, <2>3 DEF EnvAccounted, EnvFresh
<1>7. \A m \in Node : m \in lapsed' => EnvAccounted(m)'
  BY DEF EnvAccounted
<1> QED BY <1>5, <1>6, <1>7 DEF EnvInductive

\* A write outside muHook is up to date or counted in overwritten.
LEMMA OverwriteStep ==
  ASSUME EnvInductive, TypeOK, NEW n \in Node, NEW C \in SUBSET Node,
         env' = [env EXCEPT ![n] = C], Overwrites(n, C),
         UNCHANGED <<services, lapsed, hookVars>>,
         HookConsistent', \A m \in Node : EnvOwed(m) => EnvOwed(m)'
  PROVE  EnvInductive'
<1>1. Centrals' = Centrals /\ UNCHANGED <<hpc, hview>>
  BY DEF Centrals, Enabled, hookVars
<1>2. ASSUME NEW m \in Node PROVE EnvAccounted(m)'
  <2>1. EnvAccounted(m)
    BY DEF EnvInductive
  <2>2. m # n => env'[m] = env[m] /\ (m \in overwritten <=> m \in overwritten')
    BY DEF Overwrites, EnvTypeOK, TypeOK
  <2>3. m = n => m \in overwritten' \/ env'[m] = Centrals
    BY DEF Overwrites, EnvTypeOK, TypeOK
  <2> QED BY <1>1, <2>1, <2>2, <2>3 DEF EnvAccounted, EnvFresh
<1> QED BY <1>2 DEF EnvInductive

\* A step that leaves requests, refreshes, the table and the files alone.
LEMMA IdleStep ==
  ASSUME EnvInductive,
         UNCHANGED <<ask, pc, todo, hook, hpc, hview, services, env, lapsed,
                     overwritten>>
  PROVE  EnvInductive'
BY DEF EnvInductive, HookConsistent, EnvAccounted, EnvOwed, EnvFresh,
       Centrals, Enabled

---------------------------------------------------------------------------
(* Every step.                                                             *)

\* Steps of the handlers of enable and disable.
LEMMA HandleStep ==
  ASSUME EnvInductive, TypeOK, NEW r \in Req, Handle(r)
  PROVE  EnvInductive'
<1> USE DEF At
<1>1. ask[r].node \in Node
  BY DEF TypeOK, Ask
<1>2. UNCHANGED services => Centrals' = Centrals
  BY DEF Centrals, Enabled
<1>3. CASE Check(r) \/ LastCheck(r)
  <2>1. PICK step : Goto(r, step)
    BY <1>3 DEF Check, LastCheck
  <2>2. pc[r] \in Undecided /\ pc[r] \notin Applied /\ pc[r] # "regen"
    BY <1>3 DEF Check, LastCheck, Undecided, Applied
  <2> QED BY <1>2, <1>3, <2>1, <2>2, HandlerStep
          DEF Check, LastCheck, envVars, ghostVars, hookVars
<1>4. CASE CreateRow(r) \/ DeleteRow(r)
  <2>1. pc[r] \notin Applied /\ pc[r] # "regen"
    BY <1>4 DEF CreateRow, DeleteRow, Applied
  <2>2. PICK step :
          /\ Goto(r, step)
          /\ \/ UNCHANGED services
             \/ /\ step \in Applied
                /\ \/ AddService(ask[r].node, ask[r].svc)
                   \/ RemoveService(ask[r].node, ask[r].svc)
    BY <1>4 DEF CreateRow, DeleteRow, Applied
  <2>3. UNCHANGED <<ask, env, lapsed, overwritten, hook, hpc, hview, todo>>
    BY <1>4 DEF CreateRow, DeleteRow, ghostVars, hookVars
  <2>4. CASE Centrals' = Centrals
    BY <2>1, <2>2, <2>3, <2>4, HandlerStep
  <2>5. CASE Centrals' # Centrals
    <3>1. ask[r].svc = "central" /\ step \in Applied
      BY <1>1, <1>2, <2>2, <2>5, OtherRows
    <3> QED BY <2>1, <2>2, <2>3, <3>1, ChangeCarried
  <2> QED BY <2>4, <2>5
<1>5. CASE ReadEnv(r)
  <2>1. pc[r] \in Applied /\ pc[r] # "regen"
    BY <1>5 DEF ReadEnv, Applied
  <2>2. /\ UNCHANGED <<ask, env, overwritten, hook, hpc, hview, todo>>
        /\ Centrals' = Centrals
    BY <1>2, <1>5 DEF ReadEnv, envVars, hookVars
  <2>3. CASE Goto(r, "writeEnv") /\ UNCHANGED lapsed
    BY <2>1, <2>2, <2>3, HandlerStep DEF Applied
  <2>4. CASE EndUncarried(r)
    BY <2>1, <2>2, <2>4, HandlerStep DEF EndUncarried, TypeOK, EnvTypeOK
  <2> QED BY <1>5, <2>3, <2>4 DEF ReadEnv
<1>6. CASE WriteEnv(r)
  <2>1. pc[r] \in Applied /\ pc[r] # "regen" /\ Goto(r, "start")
    BY <1>6 DEF WriteEnv, Applied
  <2>2. /\ UNCHANGED <<services, ask, lapsed, hookVars, hook, hpc, hview, todo>>
        /\ env' = [env EXCEPT ![ask[r].node] = view[r]]
    BY <1>6 DEF WriteEnv, hookVars
  <2>3. CASE ask[r].svc = "central"
    BY <2>1, <2>2, <2>3, ChangeCarried DEF Applied
  <2>4. CASE ask[r].svc # "central"
    <3>1. HookConsistent'
      BY <2>1, <2>2, HookApart DEF EnvInductive
    <3>2. \A m \in Node : EnvOwed(m) => EnvOwed(m)'
      BY <2>1, <2>2, <2>4, OwedApart
    <3>3. Overwrites(ask[r].node, view[r]) /\ view[r] \in SUBSET Node
      BY <1>6, <2>4 DEF WriteEnv, TypeOK
    <3> QED BY <1>1, <2>2, <3>1, <3>2, <3>3, OverwriteStep
  <2> QED BY <2>3, <2>4
<1>7. CASE \/ StartApps(r) \/ Listen(r) \/ Leave(r) \/ WaitRemoved(r)
           \/ Rename(r) \/ StopApps(r)
  <2>1. PICK step \in Applied : Goto(r, step)
    BY <1>7 DEF StartApps, Listen, Leave, WaitRemoved, Rename, StopApps, Applied
  <2>2. pc[r] # "regen"
    BY <1>7 DEF StartApps, Listen, Leave, WaitRemoved, Rename, StopApps
  <2>3. /\ UNCHANGED <<ask, env, lapsed, overwritten, hook, hpc, hview, todo>>
        /\ UNCHANGED services
    BY <1>7 DEF StartApps, Listen, Leave, WaitRemoved, Rename, StopApps,
                envVars, ghostVars, hookVars
  <2> QED BY <1>2, <2>1, <2>2, <2>3, HandlerStep
<1>8. CASE Rollback(r)
  <2>1. pc[r] # "regen" /\ EndUncarried(r)
    BY <1>8 DEF Rollback
  <2>2. UNCHANGED <<ask, env, overwritten, hook, hpc, hview, todo>>
    BY <1>8 DEF Rollback, hookVars
  <2>3. CASE ask[r].svc = "central"
    BY <2>1, <2>2, <2>3, ChangeCarried DEF EndUncarried
  <2>4. CASE ask[r].svc # "central"
    <3>1. Centrals' = Centrals
      BY <1>1, <1>8, <2>4, OtherRows DEF Rollback
    <3> QED BY <2>1, <2>2, <2>4, <3>1, HandlerStep DEF EndUncarried
  <2> QED BY <2>3, <2>4
<1>9. CASE Reply(r)
  <2>1. pc[r] # "regen"
    BY <1>9 DEF Reply
  <2>2. /\ UNCHANGED <<ask, env, overwritten, hook, hpc, hview>>
        /\ Centrals' = Centrals
    BY <1>2, <1>9 DEF Reply, envVars, hookVars
  <2>3. CASE /\ Regenerates(r) /\ Goto(r, "regen")
             /\ todo' = [todo EXCEPT ![r] = Refreshed(r)]
    <3>1. ask[r].svc = "central" /\ pc'[r] = "regen"
      BY <2>3 DEF Regenerates, Goto, TypeOK
    <3>2. \A n \in Node : n \in todo'[r]
      BY <2>3 DEF Refreshed, TypeOK
    <3>3. HookConsistent'
      BY <2>1, <2>2, <2>3, HookApart DEF EnvInductive, TypeOK
    <3>4. \A n \in Node : hook'[n] # r
      BY <2>1, <2>2, RequestAssumption DEF EnvInductive, HookConsistent
    <3>5. \A n \in Node : EnvAccounted(n)'
      BY <2>2, <3>1, <3>2, <3>4 DEF EnvAccounted, EnvOwed
    <3> QED BY <3>3, <3>5 DEF EnvInductive
  <2>4. CASE ~Regenerates(r) /\ Goto(r, "idle") /\ UNCHANGED <<todo, lapsed>>
    BY <2>1, <2>2, <2>4, HandlerStep DEF Regenerates
  <2>5. CASE EndUncarried(r) /\ UNCHANGED todo
    BY <2>1, <2>2, <2>5, HandlerStep DEF EndUncarried, TypeOK, EnvTypeOK
  <2> QED BY <1>9, <2>3, <2>4, <2>5 DEF Reply
<1>10. CASE RegenEnd(r)
  <2>1. /\ UNCHANGED <<services, env, lapsed, overwritten, ask, hook, hpc, hview,
                       todo>>
        /\ Goto(r, "idle") /\ todo[r] = {} /\ pc[r] = "regen"
    BY <1>10 DEF RegenEnd, envVars, ghostVars, hookVars
  <2>2. \A q \in Req \ {r} : pc'[q] = pc[q]
    BY <2>1 DEF Goto, TypeOK
  <2>3. HookConsistent'
    BY <2>1, <2>2, HookHeld DEF EnvInductive, HookConsistent, TypeOK
  <2>4. ASSUME NEW n \in Node, EnvOwed(n) PROVE EnvOwed(n)'
    BY <2>1, <2>2, <2>4 DEF EnvOwed, Applied
  <2>5. \A n \in Node : EnvAccounted(n) => EnvAccounted(n)'
    BY <1>2, <2>1, <2>4 DEF EnvAccounted, EnvFresh
  <2> QED BY <2>3, <2>5 DEF EnvInductive
<1> QED BY <1>3, <1>4, <1>5, <1>6, <1>7, <1>8, <1>9, <1>10 DEF Handle

\* A restarted daemon rewrites the file outside muHook, once.
LEMMA BootStepKeeps ==
  ASSUME EnvInductive, TypeOK, NEW n \in Node, BootStep(n)
  PROVE  EnvInductive'
<1>1. CASE BootWrite(n)
  <2>1. UNCHANGED <<services, lapsed, hookVars, ask, pc, todo, hook, hpc, hview>>
    BY <1>1 DEF BootWrite, reqVars, hookVars
  <2>2. HookConsistent' /\ \A m \in Node : EnvOwed(m) => EnvOwed(m)'
    BY <2>1 DEF EnvInductive, HookConsistent, EnvOwed
  <2>3. bview[n] \in SUBSET Node
    BY DEF TypeOK
  <2>4. env' = [env EXCEPT ![n] = bview[n]] /\ Overwrites(n, bview[n])
    BY <1>1 DEF BootWrite
  <2> QED BY <2>1, <2>2, <2>3, <2>4, OverwriteStep
<1>2. CASE ~BootWrite(n)
  BY <1>2, IdleStep
     DEF BootStep, Restart, BootActivate, BootRead, BootRemoteRead,
         BootRemoteSet, envVars, ghostVars, reqVars, hookVars
<1> QED BY <1>1, <1>2

LEMMA IssueStep ==
  ASSUME EnvInductive, TypeOK, NEW r \in Req, Issue(r)
  PROVE  EnvInductive'
<1>1. /\ UNCHANGED <<services, env, lapsed, overwritten, hook, hpc, hview, todo>>
      /\ Goto(r, "check") /\ pc[r] = "idle"
      /\ \A q \in Req \ {r} : ask'[q] = ask[q]
  BY DEF Issue, envVars, ghostVars, hookVars, TypeOK
<1>2. HookConsistent'
  BY <1>1, HookApart DEF EnvInductive
<1>3. ASSUME NEW n \in Node, EnvOwed(n) PROVE EnvOwed(n)'
  <2>1. \A q \in Req \ {r} : pc'[q] = pc[q]
    BY <1>1 DEF Goto, TypeOK
  <2> QED BY <1>1, <1>3, <2>1 DEF EnvOwed, Applied
<1>4. Centrals' = Centrals
  BY <1>1 DEF Centrals, Enabled
<1>5. \A n \in Node : EnvAccounted(n) => EnvAccounted(n)'
  BY <1>1, <1>3, <1>4 DEF EnvAccounted, EnvFresh
<1> QED BY <1>2, <1>5 DEF EnvInductive

LEMMA EnvInductiveInit == Init => EnvInductive
<1> SUFFICES ASSUME Init PROVE EnvInductive
  OBVIOUS
<1>1. HookConsistent
  BY DEF Init, HookConsistent
<1>2. PICK C \in SUBSET Node : InitWith(C)
  BY DEF Init
<1>3. Centrals = C
  BY <1>2 DEF InitWith, Centrals, Enabled
<1>4. \A n \in Node : EnvFresh(n) /\ hpc[n] = "free"
  BY <1>2, <1>3 DEF InitWith, Init, EnvFresh
<1> QED BY <1>1, <1>4 DEF EnvInductive, EnvAccounted

LEMMA EnvInductiveNext == TypeOK /\ EnvInductive /\ [Next]_vars => EnvInductive'
<1> SUFFICES ASSUME TypeOK, EnvInductive, [Next]_vars PROVE EnvInductive'
  OBVIOUS
<1>1. ASSUME NEW r \in Req, Issue(r) PROVE EnvInductive'
  BY <1>1, IssueStep
<1>2. ASSUME NEW r \in Req, Cancel(r) PROVE EnvInductive'
  BY <1>2, IdleStep DEF Cancel, envVars, ghostVars, hookVars
<1>3. ASSUME NEW r \in Req, Handle(r) PROVE EnvInductive'
  BY <1>3, HandleStep
<1>4. ASSUME NEW r \in Req, NEW n \in Node,
             RefreshLock(r, n) \/ RefreshLost(r, n)
      PROVE  EnvInductive'
  BY <1>4, RefreshLockStep, RefreshLostStep
<1>5. ASSUME NEW n \in Node, RefreshStep(n) PROVE EnvInductive'
  BY <1>5, RefreshReadStep, RefreshEnvStep, RefreshRemoteStep DEF RefreshStep
<1>6. ASSUME NEW n \in Node, Crash(n) PROVE EnvInductive'
  BY <1>6, CrashStep
<1>7. ASSUME NEW n \in Node, BootStep(n) PROVE EnvInductive'
  BY <1>7, BootStepKeeps
<1>8. ASSUME NEW n \in Node, DatabaseStep(n) PROVE EnvInductive'
  BY <1>8, IdleStep DEF DatabaseStep, envVars, ghostVars, reqVars, hookVars
<1>9. CASE UNCHANGED vars
  BY <1>9, IdleStep DEF vars, envVars, ghostVars, reqVars, hookVars
<1> QED BY <1>1, <1>2, <1>3, <1>4, <1>5, <1>6, <1>7, <1>8, <1>9
        DEF Next, Settled

\* However handlers, refreshes, cancellations and crashes interleave, a file
\* that is not the table is owed a refresh or given up, in every state.
THEOREM EnvAccountedAlways == Spec => []EnvInductive
<1>1. Init => EnvInductive
  BY EnvInductiveInit
<1>2. TypeOK /\ EnvInductive /\ [Next]_vars => EnvInductive'
  BY EnvInductiveNext
<1> QED BY <1>1, <1>2, TypeCorrect, PTL DEF Spec

\* Between requests the environment file of every node that was not given up
\* lists exactly the nodes whose central service is enabled.
THEOREM EnvFollows == Spec => []EnvFollowsCentrals
<1>1. TypeOK /\ EnvInductive => EnvFollowsCentrals
  <2> SUFFICES ASSUME TypeOK, EnvInductive, Quiet, NEW n \in Node
               PROVE  n \in lapsed \cup overwritten \/ EnvFresh(n)
    BY DEF EnvFollowsCentrals
  <2>1. EnvAccounted(n)
    BY DEF EnvInductive
  <2>2. ~EnvOwed(n)
    BY DEF EnvOwed, Quiet, Applied
  <2>3. hpc[n] # "env"
    BY HookHeld DEF EnvInductive, HookConsistent, Quiet
  <2> QED BY <2>1, <2>2, <2>3 DEF EnvAccounted
<1> QED BY <1>1, TypeCorrect, EnvAccountedAlways, PTL

---------------------------------------------------------------------------
(* Two requests at a time: the environment files that databases start on.  *)

\* Users give at most two commands, at once or one after the other, on a cluster of
\* any size ...
Twice == MaxIssued \in 0..2 /\ IsFiniteSet(Node)

\* ... in which no daemon crashes: what else may fail does not matter.
DaemonsUp == \A n \in Node : daemon[n] = "up"

Active(r) == pc[r] # "idle"

\* A request that has not changed the table, and may enable a service.
Begun(r) == pc[r] \in {"check", "create"}

\* An enable of central that has its row and has not started the databases ...
Starts(r) == ask[r].svc = "central" /\ pc[r] \in {"readEnv", "writeEnv", "start"}

\* ... and one of them that has read the addresses it will start on, which it is
\* about to write to the environment file, or wrote there.
Lists(r) == ask[r].svc = "central" /\ pc[r] \in {"writeEnv", "start"}
Hosts(r) == IF At(r, "start") THEN env[ask[r].node] ELSE view[r]

\* A request that is about to create databases.
Creates(r) == Lists(r) /\ Hosts(r) \subseteq {ask[r].node}

\* A node that is of a cluster of databases.
Serves(n) == db[n].st \in {"member", "leaving"}

\* Node n is as in a settled cluster.
Untouched(n) == db[n].st = (IF n \in Centrals THEN "member" ELSE "none")

\* Nobody has ever been at another node, or will be.
Only(n) ==
  /\ issued = 2
  /\ \A r \in Req : Active(r) => ask[r].node = n
  /\ \A m \in Node \ {n} : Untouched(m)

\* How many requests are under way, and which nodes they leave alone.
PairKept ==
  /\ issued = 0 => (\A r \in Req : ~Active(r)) /\ \A n \in Node : Untouched(n)
  /\ issued < 2 =>
       /\ \A n, m \in Node : n # m => Untouched(n) \/ Untouched(m)
       /\ \A r \in Req : Active(r) => \A n \in Node \ {ask[r].node} : Untouched(n)
  /\ \A r, q \in Req :
       Active(r) /\ Active(q) /\ r # q =>
         /\ issued = 2
         /\ \A s \in Req \ {r, q} : ~Active(s)
         /\ ask[r].node = ask[q].node => Only(ask[r].node)

\* No database will be started on n.
Unheard(n) ==
  issued = 2 /\ \A r \in Req : Begun(r) \/ Starts(r) => ask[r].node # n

\* C is what a database that starts on n may be told of the table.
Told(n, C) == C \ {n} = Centrals \ {n} \/ Unheard(n)

\* Lists that others are about to write to the environment file of n.
ListsKept ==
  /\ \A n \in Node : hpc[n] = "env" => Told(n, hview[n])
  /\ \A r \in Req :
       At(r, "writeEnv") /\ ask[r].svc # "central" => Told(ask[r].node, view[r])

\* E is an era: nodes whose databases belong together, since whoever creates the
\* first finds no other central node, and all others find one of E.
Agree(E) == \A n, m \in E : Serves(n) /\ Serves(m) => db[n].cid = db[m].cid

PeersKept(E) ==
  \A n \in E : db[n].st = "joining" /\ db[n].peer \in Node => db[n].peer \in E

\* What was on a node before is of the era, if anything may start there.
BegunKept(E) ==
  \A r \in Req : Begun(r) =>
    LET n == ask[r].node IN
    db[n].st = "none" \/ n \in Centrals \/ (Only(n) /\ n \in E)

StartsKept(E) ==
  \A r \in Req : Starts(r) =>
    LET n == ask[r].node IN
    n \in E /\ (n \in Centrals \/ Only(n)) /\ (db[n].st = "none" \/ Only(n))

HostsKept(E) ==
  \A r \in Req : Lists(r) => Hosts(r) \ {ask[r].node} \subseteq E

FirstKept(E) ==
  \A r \in Req : Creates(r) =>
    /\ \A m \in E \ {ask[r].node} : ~Serves(m)
    /\ \A q \in Req : Creates(q) => ask[q].node = ask[r].node

EraOf(E) ==
  /\ Centrals \subseteq E
  /\ issued < 2 => \A n \in Node \ E : db[n].st = "none"
  /\ Agree(E) /\ PeersKept(E)
  /\ BegunKept(E) /\ StartsKept(E) /\ HostsKept(E) /\ FirstKept(E)

\* There is an era of all central nodes.
EraKept == \E E \in SUBSET Node : EraOf(E)

TwiceKept == PairKept /\ ListsKept /\ EraKept

---------------------------------------------------------------------------
(* What steps of one request leave alone.                                  *)

LEMMA TwiceParts ==
  ASSUME Twice, TypeOK
  PROVE  /\ issued \in 0..2
         /\ \A r \in Req : /\ ask[r] \in Ask /\ ask[r].node \in Node
                           /\ ask[r].svc \in Service /\ view[r] \in SUBSET Node
                           /\ ask[r].svc \in {"central", "chassis", "switch"}
         /\ \A n \in Node : /\ env[n] \in SUBSET Node /\ hview[n] \in SUBSET Node
                            /\ db[n] \in Database
<1>1. issued \in 0..2
  BY DEF Twice, TypeOK
<1>2. \A r \in Req : ask[r] \in Ask /\ view[r] \in SUBSET Node
  BY DEF TypeOK
<1>3. \A n \in Node : /\ env[n] \in SUBSET Node /\ hview[n] \in SUBSET Node
                      /\ db[n] \in Database
  BY DEF TypeOK, EnvTypeOK, ClusterTypeOK
<1> QED BY <1>1, <1>2, <1>3, ServiceAssumption DEF Ask

\* A step of r leaves the other requests where they are.
LEMMA OthersStay ==
  ASSUME TypeOK, NEW r \in Req, NEW step, Goto(r, step)
  PROVE  pc'[r] = step /\ \A q \in Req \ {r} : pc'[q] = pc[q]
BY DEF TypeOK, Goto

\* What a step does on node n, where a request is under way, concerns n only.
LEMMA OnlyKept ==
  ASSUME PairKept, ask' = ask, issued' = issued,
         \A r \in Req : Active(r)' => Active(r),
         NEW n \in Node, \A m \in Node \ {n} : Untouched(m) => Untouched(m)',
         (\E r \in Req : Active(r) /\ ask[r].node = n) \/ (Untouched(n) => Untouched(n)')
  PROVE  \A m \in Node : Only(m) => Only(m)'
BY DEF Only

LEMMA PairRests ==
  ASSUME PairKept, ask' = ask, issued' = issued,
         \A r \in Req : Active(r)' => Active(r), \A r \in Req : ask[r].node \in Node,
         NEW n \in Node, \A m \in Node \ {n} : Untouched(m) => Untouched(m)',
         (\E r \in Req : Active(r) /\ ask[r].node = n) \/ (Untouched(n) => Untouched(n)')
  PROVE  PairKept'
<1>1. \A m \in Node : Only(m) => Only(m)'
  BY OnlyKept
<1>2. (issued = 0 => (\A r \in Req : ~Active(r)) /\ \A m \in Node : Untouched(m))'
  BY DEF PairKept
<1>3. (issued < 2 =>
         /\ \A k, m \in Node : k # m => Untouched(k) \/ Untouched(m)
         /\ \A r \in Req : Active(r) => \A m \in Node \ {ask[r].node} : Untouched(m))'
  <2> SUFFICES ASSUME issued < 2
               PROVE  /\ \A k, m \in Node : k # m => Untouched(k)' \/ Untouched(m)'
                      /\ \A r \in Req : Active(r)' =>
                           \A m \in Node \ {ask[r].node} : Untouched(m)'
    OBVIOUS
  <2>1. CASE \E r \in Req : Active(r) /\ ask[r].node = n
    <3>1. \A m \in Node \ {n} : Untouched(m)
      BY <2>1 DEF PairKept
    <3>2. \A m \in Node \ {n} : Untouched(m)'
      BY <3>1
    <3>3. \A r \in Req : Active(r) => ask[r].node = n
      <4> SUFFICES ASSUME NEW r \in Req, Active(r), ask[r].node # n PROVE FALSE
        OBVIOUS
      <4>1. PICK q \in Req : Active(q) /\ ask[q].node = n
        BY <2>1
      <4> QED BY <4>1 DEF PairKept
    <3> QED BY <3>2, <3>3
  <2>2. CASE Untouched(n) => Untouched(n)'
    BY <2>2 DEF PairKept
  <2> QED BY <2>1, <2>2
<1>4. \A r, q \in Req :
        (Active(r) /\ Active(q) /\ r # q =>
           /\ issued = 2
           /\ \A s \in Req \ {r, q} : ~Active(s)
           /\ ask[r].node = ask[q].node => Only(ask[r].node))'
  <2> SUFFICES ASSUME NEW r \in Req, NEW q \in Req, Active(r)', Active(q)', r # q
               PROVE  /\ issued = 2
                      /\ \A s \in Req \ {r, q} : ~Active(s)'
                      /\ ask[r].node = ask[q].node => Only(ask[r].node)'
    OBVIOUS
  <2>1. /\ issued = 2 /\ \A s \in Req \ {r, q} : ~Active(s)
        /\ ask[r].node = ask[q].node => Only(ask[r].node)
    BY DEF PairKept
  <2> QED BY <1>1, <2>1
<1> QED BY <1>2, <1>3, <1>4 DEF PairKept

\* Where databases and rows of central are left alone, every node is.
LEMMA AllRest ==
  ASSUME PairKept, TypeOK, Twice, ask' = ask, issued' = issued,
         \A r \in Req : Active(r)' => Active(r), db' = db, Centrals' = Centrals
  PROVE  PairKept' /\ \A m \in Node : Only(m) => Only(m)'
<1>1. PICK n : n \in Node
  BY NodeAssumption
<1>2. \A m \in Node : Untouched(m) => Untouched(m)'
  BY DEF Untouched
<1> QED BY <1>1, <1>2, OnlyKept, PairRests, TwiceParts

---------------------------------------------------------------------------
(* Lists that are read and written.                                        *)

LEMMA UnheardKept ==
  ASSUME NEW n, Unheard(n), ask' = ask, issued' = issued,
         \A r \in Req : Begun(r)' \/ Starts(r)' => Begun(r) \/ Starts(r)
  PROVE  Unheard(n)'
BY DEF Unheard

\* Lists of the table stay true where the table stays.
LEMMA ListsRest ==
  ASSUME ListsKept, Centrals' = Centrals, ask' = ask, issued' = issued,
         \A r \in Req : Begun(r)' \/ Starts(r)' => Begun(r) \/ Starts(r),
         \A n \in Node : hpc'[n] = "env" =>
           (hpc[n] = "env" /\ hview'[n] = hview[n]) \/ hview'[n] = Centrals,
         \A r \in Req : pc'[r] = "writeEnv" =>
           (pc[r] = "writeEnv" /\ view'[r] = view[r]) \/ view'[r] = Centrals
  PROVE  ListsKept'
<1>1. \A n, C : Told(n, C) => Told(n, C)'
  BY UnheardKept DEF Told
<1>2. \A n : Told(n, Centrals)'
  BY DEF Told
<1>3. ASSUME NEW n \in Node, hpc'[n] = "env" PROVE Told(n, hview[n])'
  BY <1>1, <1>2, <1>3 DEF ListsKept, Told, Unheard
<1>4. ASSUME NEW r \in Req, pc'[r] = "writeEnv", ask[r].svc # "central"
      PROVE  Told(ask[r].node, view[r])'
  BY <1>1, <1>2, <1>4 DEF ListsKept, Told, Unheard, At
<1> QED BY <1>3, <1>4 DEF ListsKept, At

\* A change of the row of n is news for others: no database will start there.
LEMMA ListsMove ==
  ASSUME ListsKept, PairKept, HookConsistent, TypeOK,
         NEW r \in Req, NEW n, n = ask[r].node, ask[r].svc = "central", Active(r),
         pc[r] # "regen",
         Centrals' \ {n} = Centrals \ {n}, ask' = ask, issued' = issued,
         \A q \in Req : Begun(q)' \/ Starts(q)' => Begun(q) \/ Starts(q),
         \A q \in Req \ {r} : pc'[q] = pc[q],
         UNCHANGED <<hpc, hview, view>>
  PROVE  ListsKept'
<1>1. \A C : Told(n, C) => Told(n, C)'
  BY UnheardKept DEF Told
<1>2. ASSUME NEW q \in Req, q # r, Active(q), ~Begun(q), ~Starts(q), NEW m, m # n
      PROVE  Unheard(m)'
  <2>1. issued = 2 /\ \A s \in Req \ {r, q} : ~Active(s)
    BY <1>2 DEF PairKept
  <2>2. \A s \in Req : Begun(s) \/ Starts(s) => s = r
    BY <1>2, <2>1 DEF Begun, Starts, Active
  <2> QED BY <1>2, <2>1, <2>2 DEF Unheard
<1>3. ASSUME NEW m \in Node, hpc[m] = "env" PROVE Told(m, hview[m])'
  <2>1. CASE m = n
    BY <1>1, <1>3, <2>1 DEF ListsKept, Told, Unheard
  <2>2. CASE m # n
    <3>1. hook[m] \in Req /\ pc[hook[m]] = "regen"
      BY <1>3 DEF HookConsistent, TypeOK
    <3>2. Unheard(m)'
      BY <1>2, <2>2, <3>1 DEF Active, Begun, Starts
    <3> QED BY <3>2 DEF Told
  <2> QED BY <2>1, <2>2
<1>4. ASSUME NEW q \in Req, pc'[q] = "writeEnv", ask[q].svc # "central"
      PROVE  Told(ask[q].node, view[q])'
  <2>1. q # r /\ pc[q] = "writeEnv"
    BY <1>4
  <2>2. CASE ask[q].node = n
    BY <1>1, <1>4, <2>1, <2>2 DEF ListsKept, Told, Unheard, At
  <2>3. CASE ask[q].node # n
    <3>1. Unheard(ask[q].node)'
      BY <1>2, <1>4, <2>1, <2>3 DEF Active, Begun, Starts
    <3> QED BY <3>1 DEF Told
  <2> QED BY <2>2, <2>3
<1> QED BY <1>3, <1>4 DEF ListsKept, At

---------------------------------------------------------------------------
(* Eras.                                                                   *)

\* Steps that start no database, and tell no request of other addresses than
\* one on its node has, stay within the era.
LEMMA EraRests ==
  ASSUME Twice, TypeOK, NEW E \in SUBSET Node, EraOf(E), Centrals' \subseteq E,
         ask' = ask, issued' = issued,
         \A m \in Node : Only(m) => Only(m)',
         \A m \in Node :
           /\ db'[m].st = "joining" => db[m].st = "joining" /\ db'[m].peer = db[m].peer
           /\ Serves(m)' => Serves(m) /\ db'[m].cid = db[m].cid
           /\ db[m].st = "none" => db'[m].st = "none",
         \A r \in Req :
           /\ Begun(r)' => Begun(r)
           /\ Starts(r)' => Starts(r)
           /\ Begun(r)' \/ Starts(r)' =>
                (ask[r].node \in Centrals => ask[r].node \in Centrals' \/ Only(ask[r].node))
           /\ Lists(r)' => \E q \in Req : /\ Lists(q) /\ ask[q].node = ask[r].node
                                          /\ Hosts(r)' = Hosts(q)
  PROVE  EraOf(E)'
<1>0. \A r \in Req : ask[r].node \in Node
  BY TwiceParts
<1>1. (issued < 2 => \A n \in Node \ E : db[n].st = "none")'
  BY DEF EraOf
<1>2. Agree(E)' /\ PeersKept(E)'
  BY DEF EraOf, Agree, PeersKept
<1>3. BegunKept(E)'
  BY <1>0 DEF EraOf, BegunKept
<1>4. StartsKept(E)'
  BY <1>0 DEF EraOf, StartsKept
<1>5. HostsKept(E)'
  BY DEF EraOf, HostsKept
<1>6. FirstKept(E)'
  <2>1. \A r \in Req : Creates(r)' => \E q \in Req : Creates(q) /\ ask[q].node = ask[r].node
    BY DEF Creates
  <2> SUFFICES ASSUME NEW r \in Req, Creates(r)'
               PROVE  /\ \A m \in E \ {ask[r].node} : ~Serves(m)'
                      /\ \A q \in Req : Creates(q)' => ask[q].node = ask[r].node
    BY DEF FirstKept
  <2>2. PICK q \in Req : Creates(q) /\ ask[q].node = ask[r].node
    BY <2>1
  <2> QED BY <2>1, <2>2 DEF EraOf, FirstKept
<1> QED BY <1>1, <1>2, <1>3, <1>4, <1>5, <1>6 DEF EraOf

\* A request on n that starts is told of the table: either of a node of the era,
\* or it begins another one.
LEMMA EraTold ==
  ASSUME Twice, TypeOK, PairKept, EraKept,
         ask' = ask, issued' = issued, db' = db, Centrals' = Centrals,
         NEW n \in Node, NEW L, Told(n, L),
         \A r \in Req :
           /\ Active(r)' => Active(r)
           /\ Begun(r)' => Begun(r)
           /\ Starts(r)' => Starts(r)
           /\ Lists(r)' => \/ Lists(r) /\ Hosts(r)' = Hosts(r)
                           \/ Starts(r) /\ ask[r].node = n /\ Hosts(r)' = L
  PROVE  EraKept'
<1>0. \A r \in Req : ask[r].node \in Node
  BY TwiceParts
<1>1. PICK E \in SUBSET Node : EraOf(E)
  BY DEF EraKept
<1>2. \A m \in Node : Only(m) => Only(m)'
  BY AllRest
<1>3. CASE \A r \in Req : Lists(r)' => Lists(r) /\ Hosts(r)' = Hosts(r)
  <2>1. Centrals' \subseteq E
    BY <1>1 DEF EraOf
  <2>2. EraOf(E)'
    BY <1>1, <1>2, <1>3, <2>1, EraRests DEF Serves
  <2> QED BY <2>2 DEF EraKept
<1>4. CASE \E r \in Req : Starts(r) /\ ask[r].node = n /\ Hosts(r)' = L
  <2>1. PICK r \in Req : Starts(r) /\ ask[r].node = n /\ Hosts(r)' = L
    BY <1>4
  <2>2. L \ {n} = Centrals \ {n}
    BY <2>1 DEF Told, Unheard
  <2>3. n \in E /\ (n \in Centrals \/ Only(n)) /\ (db[n].st = "none" \/ Only(n))
    BY <1>1, <2>1 DEF EraOf, StartsKept
  <2>4. CASE Only(n) \/ Centrals \ {n} # {}
    <3>1. Agree(E)' /\ PeersKept(E)' /\ (issued < 2 => \A m \in Node \ E : db[m].st = "none")'
      BY <1>1 DEF EraOf, Agree, PeersKept, Serves
    <3>2. BegunKept(E)' /\ StartsKept(E)'
      BY <1>0, <1>1, <1>2 DEF EraOf, BegunKept, StartsKept
    <3>3. HostsKept(E)'
      BY <1>1, <2>2 DEF EraOf, HostsKept
    <3>4. FirstKept(E)'
      <4> SUFFICES ASSUME NEW q \in Req, Creates(q)'
                   PROVE  /\ \A m \in E \ {ask[q].node} : ~Serves(m)'
                          /\ \A s \in Req : Creates(s)' => ask[s].node = ask[q].node
        BY DEF FirstKept
      <4>1. CASE Only(n)
        <5>1. \A s \in Req : Active(s)' => ask[s].node = n
          BY <4>1 DEF Only
        <5>2. \A s \in Req : Creates(s)' => ask[s].node = n
          BY <5>1 DEF Creates, Lists, Active
        <5>3. CASE Creates(q)
          BY <1>1, <5>2, <5>3 DEF EraOf, FirstKept, Serves
        <5>4. CASE ~Creates(q)
          <6>1. Centrals \subseteq {n}
            BY <2>2, <5>2, <5>4 DEF Creates
          <6>2. \A m \in Node \ {n} : db[m].st = "none"
            BY <4>1, <6>1 DEF Only, Untouched
          <6> QED BY <5>2, <6>2 DEF Serves
        <5> QED BY <5>3, <5>4
      <4>2. CASE Centrals \ {n} # {}
        <5>1. \A s \in Req : Creates(s)' => Creates(s)
          BY <2>2, <4>2 DEF Creates
        <5> QED BY <1>1, <5>1 DEF EraOf, FirstKept, Serves
      <4> QED BY <2>4, <4>1, <4>2
    <3>5. EraOf(E)'
      BY <1>1, <3>1, <3>2, <3>3, <3>4 DEF EraOf
    <3> QED BY <3>5 DEF EraKept
  <2>5. CASE ~Only(n) /\ Centrals \subseteq {n}
    <3>1. db[n].st = "none" /\ n \in Centrals
      BY <2>3, <2>5
    <3>2. \A q \in Req : Begun(q) \/ Starts(q) =>
            ask[q].node = n \/ (~Only(ask[q].node) /\ ask[q].node \notin Centrals)
      BY <2>1, <2>5 DEF Only, Starts, Active
    <3>3. \A q \in Req : Begun(q) \/ Starts(q) => db[ask[q].node].st = "none"
      BY <1>1, <3>1, <3>2 DEF EraOf, BegunKept, StartsKept
    <3>4. \A q \in Req : Starts(q) => ask[q].node = n
      BY <1>1, <3>2 DEF EraOf, StartsKept
    <3>5. (issued < 2 => \A m \in Node \ {n} : db[m].st = "none")'
      <4> SUFFICES ASSUME issued < 2, NEW m \in Node \ {n} PROVE db[m].st = "none"
        OBVIOUS
      <4>1. Untouched(m)
        BY <2>1 DEF PairKept, Starts, Active
      <4> QED BY <2>5, <4>1 DEF Untouched
    <3>6. Agree({n})' /\ PeersKept({n})'
      BY <3>1 DEF Agree, PeersKept
    <3>7. BegunKept({n})' /\ StartsKept({n})'
      BY <3>1, <3>3, <3>4 DEF BegunKept, StartsKept
    <3>8. HostsKept({n})'
      <4>1. \A q \in Req : Lists(q)' => q = r
        BY <2>1, <2>5, <3>4 DEF PairKept, Lists, Starts, Active
      <4>2. L \subseteq {n}
        BY <2>2, <2>5
      <4> QED BY <2>1, <4>1, <4>2 DEF HostsKept
    <3>9. FirstKept({n})'
      <4>1. \A q \in Req : Creates(q)' => ask[q].node = n
        BY <3>4 DEF Creates, Lists, Starts
      <4> QED BY <4>1 DEF FirstKept
    <3>10. EraOf({n})'
      BY <2>5, <3>5, <3>6, <3>7, <3>8, <3>9 DEF EraOf
    <3> QED BY <3>10 DEF EraKept
  <2> QED BY <2>4, <2>5
<1> QED BY <1>3, <1>4

\* The initial host is one of the others that are listed, or n itself.
LEMMA HostListed ==
  ASSUME IsFiniteSet(Node), NEW n \in Node, NEW L \in SUBSET Node
  PROVE  /\ L \ {n} # {} => InitialHost(n, L) \in L \ {n}
         /\ L \subseteq {n} => InitialHost(n, L) \in {n, None}
<1>1. \A S \in SUBSET Node : S # {} => FirstOf(S) \in S
  BY FirstOfType, NodeAssumption
<1>2. ASSUME Cardinality(L) = 1 PROVE \E x : L = {x}
  BY <1>2, FS_Subset, FS_Singleton
<1>3. CASE L \ {n} # {}
  <2>1. FirstOf(L \ {n}) \in L \ {n}
    BY <1>1, <1>3
  <2>2. CASE Cardinality(L) = 1
    <3>1. PICK x : L = {x}
      BY <1>2, <2>2
    <3>2. FirstOf(L) = x /\ x # n
      BY <1>1, <1>3, <3>1
    <3> QED BY <2>2, <3>1, <3>2 DEF InitialHost
  <2>3. CASE Cardinality(L) # 1
    BY <1>3, <2>1, <2>3 DEF InitialHost
  <2> QED BY <2>2, <2>3
<1>4. CASE L \subseteq {n}
  <2>1. L \ {n} = {}
    BY <1>4
  <2>2. CASE Cardinality(L) = 1
    <3>1. FirstOf(L) \in L
      BY <1>1, <1>2, <2>2
    <3> QED BY <1>4, <2>2, <3>1 DEF InitialHost
  <2>3. CASE Cardinality(L) # 1
    BY <2>1, <2>3 DEF InitialHost
  <2> QED BY <2>2, <2>3
<1> QED BY <1>3, <1>4

\* A database that is started joins the era, or is the first of it.
LEMMA EraStarts ==
  ASSUME Twice, TypeOK, PairKept, EraKept,
         NEW r \in Req, NEW n \in Node, n = ask[r].node, ask[r].svc = "central", At(r, "start"),
         ServerStarted(n, InitialHost(n, env[n])),
         ask' = ask, issued' = issued, env' = env, view' = view,
         Centrals' = Centrals, \A q \in Req \ {r} : pc'[q] = pc[q],
         pc'[r] \in {"rollback", "listen"}
  PROVE  PairKept' /\ EraKept'
<1>0. \A q \in Req : ask[q].node \in Node /\ view[q] \in SUBSET Node
  BY TwiceParts
<1> DEFINE h == InitialHost(n, env[n])
<1>1. PICK E \in SUBSET Node : EraOf(E)
  BY DEF EraKept
<1>2. \A q \in Req : /\ Active(q)' => Active(q)
                     /\ Begun(q)' => Begun(q)
                     /\ Starts(q)' => Starts(q) /\ q # r
                     /\ Lists(q)' => Lists(q) /\ Hosts(q)' = Hosts(q) /\ q # r
  BY DEF Active, Begun, Starts, Lists, Hosts, At
<1>3. Active(r) /\ Starts(r) /\ Lists(r) /\ Hosts(r) = env[n]
  BY DEF Active, Starts, Lists, Hosts, At
<1>4. \A m \in Node \ {n} : db'[m] = db[m] /\ (Untouched(m) => Untouched(m)')
  BY DEF ServerStarted, Untouched, TypeOK, ClusterTypeOK
<1>5. PairKept' /\ \A m \in Node : Only(m) => Only(m)'
  BY <1>0, <1>2, <1>3, <1>4, PairRests, OnlyKept
<1>6. n \in E /\ Hosts(r) \ {n} \subseteq E
  BY <1>1, <1>3 DEF EraOf, StartsKept, HostsKept
<1>7. Centrals' \subseteq E
  BY <1>1 DEF EraOf
<1>8. EraOf(E)'
  <2>1. CASE db' = db
    BY <1>1, <1>2, <1>5, <1>7, <2>1, EraRests DEF Serves
  <2>2. CASE db' # db
    <3>1. db[n].st = "none"
      BY <2>2 DEF ServerStarted
    <3>2. ASSUME NEW q \in Req, q # r, Active(q), ask[q].node = n PROVE Only(n)'
      BY <1>3, <1>5, <3>2 DEF PairKept
    <3>3. \/ /\ h \in E \ {n}
             /\ db'[n].st = "joining" /\ db'[n].peer = h
          \/ /\ Creates(r)
             /\ db'[n].st = "member"
      <4>0. env[n] \in SUBSET Node
        BY TwiceParts
      <4>1. CASE h \notin {n, None}
        <5>1. ~(env[n] \subseteq {n})
          BY <4>0, <4>1, HostListed DEF Twice
        <5>2. h \in env[n] \ {n}
          BY <4>0, <5>1, HostListed DEF Twice
        <5>3. db' = [db EXCEPT ![n] = Joining(h)]
          BY <2>2, <4>1 DEF ServerStarted
        <5>4. db'[n] = Joining(h)
          BY <5>3 DEF TypeOK, ClusterTypeOK
        <5> QED BY <1>3, <1>6, <5>2, <5>4 DEF Joining
      <4>2. CASE h \in {n, None}
        <5>1. env[n] \subseteq {n}
          BY <4>0, <4>2, HostListed, NodeAssumption DEF Twice
        <5>2. PICK c \in FreeCluster : db' = [db EXCEPT ![n] = MemberOf(c)]
          BY <2>2, <4>2 DEF ServerStarted
        <5>3. db'[n] = MemberOf(c)
          BY <5>2 DEF TypeOK, ClusterTypeOK
        <5> QED BY <1>3, <5>1, <5>3 DEF Creates, MemberOf
      <4> QED BY <4>1, <4>2
    <3>4. Agree(E)' /\ PeersKept(E)'
      <4>1. Creates(r) => \A m \in E \ {n} : ~Serves(m)'
        BY <1>1, <1>4 DEF EraOf, FirstKept, Serves
      <4> QED BY <1>1, <1>4, <3>3, <4>1 DEF EraOf, Agree, PeersKept, Serves
    <3>5. (issued < 2 => \A m \in Node \ E : db[m].st = "none")'
      BY <1>1, <1>4, <1>6 DEF EraOf
    <3>6. BegunKept(E)'
      BY <1>0, <1>1, <1>2, <1>4, <1>5, <1>6, <3>2 DEF EraOf, BegunKept, Begun, Active
    <3>7. StartsKept(E)'
      BY <1>0, <1>1, <1>2, <1>4, <1>5, <1>6, <3>2 DEF EraOf, StartsKept, Starts, Active
    <3>8. HostsKept(E)'
      BY <1>1, <1>2 DEF EraOf, HostsKept
    <3>9. FirstKept(E)'
      <4>1. \A q \in Req : Creates(q)' => Creates(q)
        BY <1>2 DEF Creates
      <4>2. \A q \in Req : Creates(q) /\ ~(h \in E \ {n} /\ db'[n].st = "joining") =>
              ask[q].node = n
        BY <1>1, <3>3 DEF EraOf, FirstKept
      <4> QED BY <1>1, <1>4, <4>1, <4>2 DEF EraOf, FirstKept, Serves
    <3> QED BY <1>7, <3>4, <3>5, <3>6, <3>7, <3>8, <3>9 DEF EraOf
  <2> QED BY <2>1, <2>2
<1> QED BY <1>5, <1>8 DEF EraKept

\* A server that joins is of the cluster of its peer, and of its era.
LEMMA EraJoined ==
  ASSUME Twice, TypeOK, PairKept, EraKept, NEW n \in Node, Joined(n),
         UNCHANGED <<envVars, reqVars, boundVars>>
  PROVE  PairKept' /\ EraKept'
<1>0. \A q \in Req : ask[q].node \in Node
  BY TwiceParts
<1>1. PICK E \in SUBSET Node : EraOf(E)
  BY DEF EraKept
<1>2. UNCHANGED <<services, env, ask, pc, view, issued>>
  BY DEF envVars, reqVars, boundVars
<1>3. Centrals' = Centrals
  BY <1>2, ViewSame
<1>4. PICK p \in Node : p = db[n].peer /\ db[n].st = "joining" /\ db[p].st = "member"
  BY DEF Joined, CanJoin
<1>5. /\ \A m \in Node \ {n} : db'[m] = db[m]
      /\ db'[n].st = "member" /\ db'[n].cid = db[p].cid
  <2>1. db[n] \in Database /\ db \in [Node -> Database]
    BY DEF TypeOK, ClusterTypeOK
  <2>2. db' = [db EXCEPT ![n] = [@ EXCEPT !.st = "member", !.peer = None, !.cid = db[p].cid]]
    BY <1>4 DEF Joined
  <2> QED BY <2>1, <2>2 DEF Database, DatabaseWith
<1>6. \A q \in Req : /\ (Active(q)' <=> Active(q)) /\ (Begun(q)' <=> Begun(q))
                     /\ (Starts(q)' <=> Starts(q)) /\ (Lists(q)' <=> Lists(q))
                     /\ Hosts(q)' = Hosts(q) /\ (Creates(q)' <=> Creates(q))
  BY <1>2 DEF Active, Begun, Starts, Lists, Hosts, Creates, At
<1>7. ~Untouched(n) /\ \A m \in Node : Untouched(m) => Untouched(m)'
  BY <1>3, <1>4, <1>5 DEF Untouched
<1>8. PairKept' /\ \A m \in Node : Only(m) => Only(m)'
  BY <1>0, <1>2, <1>6, <1>7, PairRests, OnlyKept
<1>9. \A m \in Node : Only(m) => m = n
  BY <1>7 DEF Only
<1>10. n \in E => p \in E /\ p # n
  BY <1>1, <1>4 DEF EraOf, PeersKept
<1>11. Agree(E)' /\ PeersKept(E)'
  BY <1>1, <1>4, <1>5, <1>10 DEF EraOf, Agree, PeersKept, Serves
<1>12. (issued < 2 => \A m \in Node \ E : db[m].st = "none")'
  BY <1>1, <1>2, <1>4, <1>5 DEF EraOf
<1>13. BegunKept(E)' /\ StartsKept(E)'
  BY <1>0, <1>1, <1>2, <1>3, <1>4, <1>5, <1>6, <1>8 DEF EraOf, BegunKept, StartsKept
<1>14. HostsKept(E)'
  BY <1>1, <1>2, <1>6 DEF EraOf, HostsKept
<1>15. FirstKept(E)'
  <2> SUFFICES ASSUME NEW q \in Req, Creates(q), NEW m \in E \ {ask[q].node}, Serves(m)'
               PROVE  FALSE
    BY <1>1, <1>2, <1>6 DEF EraOf, FirstKept
  <2>1. ~Serves(m)
    BY <1>1 DEF EraOf, FirstKept
  <2>2. m = n
    BY <1>5, <2>1 DEF Serves
  <2>3. Serves(p) /\ p \in E
    BY <1>4, <1>10, <2>2 DEF Serves
  <2>4. p = ask[q].node
    BY <1>1, <2>3 DEF EraOf, FirstKept
  <2>5. Starts(q)
    BY DEF Creates, Lists, Starts
  <2>6. Only(p)
    BY <1>1, <1>4, <2>4, <2>5 DEF EraOf, StartsKept
  <2> QED BY <1>9, <1>10, <2>2, <2>6
<1>16. EraOf(E)'
  BY <1>1, <1>3, <1>11, <1>12, <1>13, <1>14, <1>15 DEF EraOf
<1> QED BY <1>8, <1>16 DEF EraKept

\* A node that gets its row is of the era.
LEMMA EraCreates ==
  ASSUME Twice, TypeOK, PairKept, EraKept,
         NEW r \in Req, NEW n \in Node, n = ask[r].node, At(r, "create"),
         n \notin Centrals, Centrals' = Centrals \cup {n},
         UNCHANGED <<ask, issued, db, env, view>>,
         pc'[r] = "readEnv", \A q \in Req \ {r} : pc'[q] = pc[q]
  PROVE  PairKept' /\ EraKept'
<1>0. \A q \in Req : ask[q].node \in Node
  BY TwiceParts
<1>1. PICK E \in SUBSET Node : EraOf(E)
  BY DEF EraKept
<1>2. \A q \in Req : /\ (Active(q)' => Active(q)) /\ (Begun(q)' => Begun(q))
                     /\ (Starts(q)' => Starts(q) \/ q = r)
                     /\ (Lists(q)' => Lists(q) /\ Hosts(q)' = Hosts(q))
                     /\ (Creates(q)' => Creates(q))
  BY DEF Active, Begun, Starts, Lists, Hosts, Creates, At
<1>3. Active(r) /\ Begun(r)
  BY DEF Active, Begun, At
<1>4. \A m \in Node \ {n} : Untouched(m) => Untouched(m)'
  BY DEF Untouched
<1>5. PairKept' /\ \A m \in Node : Only(m) => Only(m)'
  BY <1>0, <1>2, <1>3, <1>4, PairRests, OnlyKept
<1>6. db[n].st = "none" \/ (Only(n) /\ n \in E)
  BY <1>1, <1>3 DEF EraOf, BegunKept
<1> DEFINE F == E \cup {n}
<1>7. Centrals' \subseteq F /\ (issued < 2 => \A m \in Node \ F : db[m].st = "none")'
  BY <1>1 DEF EraOf
<1>8. Agree(F)' /\ PeersKept(F)'
  BY <1>1, <1>6 DEF EraOf, Agree, PeersKept, Serves
<1>9. BegunKept(F)' /\ StartsKept(F)'
  BY <1>0, <1>1, <1>2, <1>5, <1>6 DEF EraOf, BegunKept, StartsKept
<1>10. HostsKept(F)'
  BY <1>1, <1>2 DEF EraOf, HostsKept
<1>11. FirstKept(F)'
  BY <1>1, <1>2, <1>6 DEF EraOf, FirstKept, Serves
<1>12. EraOf(F)'
  BY <1>7, <1>8, <1>9, <1>10, <1>11 DEF EraOf
<1> QED BY <1>5, <1>12 DEF EraKept

\* The node of another request has not been touched, or it is the only one.
LEMMA TwiceIssued ==
  ASSUME Twice, TypeOK, TwiceKept, NEW r \in Req, Issue(r)
  PROVE  TwiceKept'
<1>1. /\ pc[r] = "idle" /\ issued < 2 /\ issued' = issued + 1 /\ issued \in 0..2
      /\ UNCHANGED <<services, env, db, hpc, hview>>
      /\ pc'[r] = "check" /\ \A q \in Req \ {r} : pc'[q] = pc[q]
      /\ \A q \in Req \ {r} : ask'[q] = ask[q] /\ view'[q] = view[q]
      /\ ask'[r].node \in Node
  BY TwiceParts, OthersStay
     DEF Issue, clusterVars, envVars, hookVars, Twice, TypeOK, Ask
<1>2. Centrals' = Centrals /\ \A m \in Node : Untouched(m)' <=> Untouched(m)
  BY <1>1, ViewSame DEF Untouched
<1>3. \A q \in Req : /\ (Active(q)' <=> Active(q) \/ q = r)
                     /\ (Begun(q)' <=> Begun(q) \/ q = r)
                     /\ (Starts(q)' <=> Starts(q)) /\ (Lists(q)' <=> Lists(q))
                     /\ (Lists(q) => Hosts(q)' = Hosts(q)) /\ (Creates(q)' <=> Creates(q))
                     /\ (Starts(q) \/ Lists(q) \/ Creates(q) => q # r)
  BY <1>1 DEF Active, Begun, Starts, Lists, Hosts, Creates, At
<1>4. \A m \in Node : ~Only(m) /\ ~Unheard(m)
  BY <1>1 DEF Only, Unheard
<1>5. ~Active(r) /\ \A q, s \in Req : Active(q) /\ Active(s) => q = s
  BY <1>1 DEF TwiceKept, PairKept, Active
<1>6. \A q \in Req : Active(q) => issued = 1
  BY <1>1 DEF TwiceKept, PairKept
<1>7. PairKept'
  <2>1. (issued < 2 =>
           /\ \A n, m \in Node : n # m => Untouched(n) \/ Untouched(m)
           /\ \A q \in Req : Active(q) =>
                \A n \in Node \ {ask[q].node} : Untouched(n))'
    BY <1>1, <1>2, <1>3, <1>6 DEF TwiceKept, PairKept
  <2>2. ASSUME NEW q \in Req, Active(q)
        PROVE  issued' = 2 /\ q # r /\ \A s \in Req \ {r, q} : ~Active(s)'
    BY <1>1, <1>3, <1>5, <1>6, <2>2
  <2>3. ASSUME NEW q \in Req, Active(q), ask'[q].node = ask'[r].node PROVE Only(ask[r].node)'
    <3>1. \A m \in Node \ {ask[q].node} : Untouched(m)
      BY <1>1, <2>3 DEF TwiceKept, PairKept
    <3> QED BY <1>1, <1>2, <1>3, <2>2, <2>3, <3>1 DEF Only
  <2>4. \A q, s \in Req :
          (Active(q) /\ Active(s) /\ q # s =>
             /\ issued = 2
             /\ \A t \in Req \ {q, s} : ~Active(t)
             /\ ask[q].node = ask[s].node => Only(ask[q].node))'
    <3> SUFFICES ASSUME NEW q \in Req, NEW s \in Req, Active(q)', Active(s)', q # s
                 PROVE  /\ issued' = 2
                        /\ \A t \in Req \ {q, s} : ~Active(t)'
                        /\ ask'[q].node = ask'[s].node => Only(ask[q].node)'
      OBVIOUS
    <3>1. CASE q = r
      BY <1>3, <2>2, <2>3, <3>1
    <3>2. CASE s = r
      BY <1>3, <2>2, <2>3, <3>2
    <3>3. CASE q # r /\ s # r
      BY <1>3, <1>5, <3>3
    <3> QED BY <3>1, <3>2, <3>3
  <2> QED BY <1>1, <2>1, <2>4 DEF TwiceKept, PairKept
<1>8. ListsKept'
  <2>1. \A m \in Node : \A C : Told(m, C) => Told(m, C)'
    BY <1>2, <1>4 DEF Told
  <2> QED BY <1>1, <2>1, TwiceParts DEF TwiceKept, ListsKept, At
<1>9. EraKept'
  <2>1. PICK E \in SUBSET Node : EraOf(E)
    BY DEF TwiceKept, EraKept
  <2>2. \A m \in Node \ E : db[m].st = "none"
    BY <1>1, <2>1 DEF EraOf
  <2>3. Agree(E)' /\ PeersKept(E)' /\ (issued < 2 => \A m \in Node \ E : db[m].st = "none")'
    BY <1>1, <2>1, <2>2 DEF EraOf, Agree, PeersKept, Serves
  <2>4. BegunKept(E)'
    <3> SUFFICES ASSUME NEW q \in Req, Begun(q)', NEW n, n = ask'[q].node
                 PROVE  db[n].st = "none" \/ n \in Centrals \/ (Only(n)' /\ n \in E)
      BY <1>1, <1>2 DEF BegunKept
    <3>1. CASE q # r
      BY <1>3, <1>4, <2>1, <3>1, <1>1, TwiceParts DEF EraOf, BegunKept
    <3>2. CASE q = r /\ db[n].st # "none" /\ n \notin Centrals
      <4>1. n \in Node /\ ~Untouched(n)
        BY <1>1, <3>2 DEF Untouched
      <4>2. issued = 1
        BY <1>1, <4>1 DEF TwiceKept, PairKept
      <4>3. \A m \in Node \ {n} : Untouched(m)
        BY <1>1, <4>1 DEF TwiceKept, PairKept
      <4>4. \A s \in Req : Active(s) => ask[s].node = n
        BY <1>1, <4>1 DEF TwiceKept, PairKept
      <4>5. Only(n)'
        BY <1>1, <1>2, <1>3, <3>2, <4>2, <4>3, <4>4 DEF Only
      <4> QED BY <2>2, <3>2, <4>1, <4>5
    <3> QED BY <3>1, <3>2
  <2>5. StartsKept(E)'
    BY <1>1, <1>2, <1>3, <1>4, <2>1, TwiceParts DEF EraOf, StartsKept
  <2>6. HostsKept(E)'
    BY <1>1, <1>3, <2>1 DEF EraOf, HostsKept
  <2>7. FirstKept(E)'
    BY <1>1, <1>3, <2>1 DEF EraOf, FirstKept, Serves
  <2>8. EraOf(E)'
    BY <1>2, <2>1, <2>3, <2>4, <2>5, <2>6, <2>7 DEF EraOf
  <2> QED BY <2>8 DEF EraKept
<1> QED BY <1>7, <1>8, <1>9 DEF TwiceKept

---------------------------------------------------------------------------
(* The steps of ServiceControl.                                            *)

\* Steps that read nothing that is used later, and touch no database.
LEMMA TwiceRests ==
  ASSUME Twice, TypeOK, TwiceKept,
         UNCHANGED <<ask, issued, db>>, Centrals' = Centrals,
         \A q \in Req : /\ (Active(q)' => Active(q)) /\ (Begun(q)' => Begun(q))
                        /\ (Starts(q)' => Starts(q))
                        /\ (Lists(q)' => Lists(q) /\ Hosts(q)' = Hosts(q)),
         ListsKept'
  PROVE  TwiceKept'
<1>1. PairKept' /\ \A m \in Node : Only(m) => Only(m)'
  BY AllRest DEF TwiceKept
<1>2. PICK E \in SUBSET Node : EraOf(E)
  BY DEF TwiceKept, EraKept
<1>3. Centrals' \subseteq E
  BY <1>2 DEF EraOf
<1>4. EraOf(E)'
  BY <1>1, <1>2, <1>3, EraRests DEF Serves
<1> QED BY <1>1, <1>4 DEF TwiceKept, EraKept

\* Where the handler of r goes without a look at the table.
LEMMA TwiceMoves ==
  ASSUME Twice, TypeOK, TwiceKept, NEW r \in Req, NEW step, Goto(r, step), Active(r),
         UNCHANGED <<services, db, env, ask, hpc, hview, view, issued>>,
         step \notin {"readEnv", "writeEnv", "start", "check"},
         step = "create" => Begun(r)
  PROVE  TwiceKept'
<1>1. pc'[r] = step /\ \A q \in Req \ {r} : pc'[q] = pc[q]
  BY OthersStay
<1>2. \A q \in Req : /\ (Active(q)' => Active(q)) /\ (Begun(q)' => Begun(q))
                     /\ (Starts(q)' => Starts(q))
                     /\ (Lists(q)' => Lists(q) /\ Hosts(q)' = Hosts(q))
                     /\ (pc'[q] = "writeEnv" => pc[q] = "writeEnv")
  BY <1>1 DEF Active, Begun, Starts, Lists, Hosts, At
<1>3. Centrals' = Centrals
  BY ViewSame
<1>4. ListsKept'
  BY <1>2, <1>3, ListsRest DEF TwiceKept
<1> QED BY <1>2, <1>3, <1>4, TwiceRests

LEMMA TwiceChecks ==
  ASSUME Twice, TypeOK, TwiceKept, NEW r \in Req,
         Check(r) \/ LastCheck(r) \/ Listen(r) \/ WaitRemoved(r) \/ Reply(r) \/ RegenEnd(r)
  PROVE  TwiceKept'
<1>1. CASE Check(r)
  <2>1. PICK step : Goto(r, step) /\ step \in {"idle", "create", "last", "delete"}
    BY <1>1 DEF Check
  <2> QED BY <1>1, <2>1, TwiceMoves
      DEF Check, At, Active, Begun, clusterVars, envVars, hookVars, boundVars
<1>2. CASE LastCheck(r)
  <2>1. pc[r] = "last" /\ pc'[r] \in {"idle", "delete"} /\ \A q \in Req \ {r} : pc'[q] = pc[q]
    BY <1>2, OthersStay DEF LastCheck, At
  <2>2. /\ UNCHANGED <<services, db, env, ask, hpc, hview, issued>>
        /\ \A q \in Req \ {r} : view'[q] = view[q]
    BY <1>2 DEF LastCheck, clusterVars, envVars, hookVars, boundVars, TypeOK
  <2>3. \A q \in Req : /\ (Active(q)' => Active(q)) /\ (Begun(q)' => Begun(q))
                       /\ (Starts(q)' => Starts(q))
                       /\ (Lists(q)' => Lists(q) /\ Hosts(q)' = Hosts(q))
                       /\ (pc'[q] = "writeEnv" => pc[q] = "writeEnv" /\ view'[q] = view[q])
    BY <2>1, <2>2 DEF Active, Begun, Starts, Lists, Hosts, At
  <2>4. Centrals' = Centrals
    BY <2>2, ViewSame
  <2>5. ListsKept'
    BY <2>2, <2>3, <2>4, ListsRest DEF TwiceKept
  <2> QED BY <2>2, <2>3, <2>4, <2>5, TwiceRests
<1>3. CASE Listen(r)
  <2>1. PICK step : Goto(r, step) /\ step \in {"reply", "rollback"}
    BY <1>3 DEF Listen
  <2> QED BY <1>3, <2>1, TwiceMoves
      DEF Listen, At, Active, clusterVars, envVars, hookVars
<1>4. CASE WaitRemoved(r)
  <2>1. Goto(r, "rename")
    BY <1>4 DEF WaitRemoved
  <2> QED BY <1>4, <2>1, TwiceMoves
      DEF WaitRemoved, At, Active, clusterVars, envVars, hookVars
<1>5. CASE Reply(r)
  <2>1. PICK step : Goto(r, step) /\ step \in {"regen", "idle"}
    BY <1>5 DEF Reply, EndUncarried
  <2> QED BY <1>5, <2>1, TwiceMoves
      DEF Reply, At, Active, clusterVars, envVars, hookVars, boundVars
<1>6. CASE RegenEnd(r)
  <2>1. Goto(r, "idle")
    BY <1>6 DEF RegenEnd
  <2> QED BY <1>6, <2>1, TwiceMoves
      DEF RegenEnd, Active, clusterVars, envVars, hookVars, boundVars
<1> QED BY <1>1, <1>2, <1>3, <1>4, <1>5, <1>6

\* A change of the row of the node of r.
LEMMA RowMoves ==
  ASSUME TypeOK, Twice, NEW r \in Req, NEW n, n = ask[r].node,
         \/ AddService(n, ask[r].svc) \/ RemoveService(n, ask[r].svc)
         \/ services' = services
  PROVE  /\ ask[r].svc # "central" => Centrals' = Centrals
         /\ Centrals' \ {n} = Centrals \ {n}
         /\ AddService(n, ask[r].svc) /\ ask[r].svc = "central" =>
              Centrals' = Centrals \cup {n}
         /\ RemoveService(n, ask[r].svc) \/ services' = services =>
              Centrals' \subseteq Centrals
BY TwiceParts, CentralsMove, ViewSame

LEMMA TwiceCreates ==
  ASSUME Twice, TypeOK, HookConsistent, TwiceKept, NEW r \in Req, CreateRow(r)
  PROVE  TwiceKept'
<1>0. PICK n \in Node : n = ask[r].node
  BY TwiceParts
<1>1. /\ UNCHANGED <<db, env, ask, hpc, hview, view, issued>> /\ pc[r] = "create"
      /\ \A q \in Req \ {r} : pc'[q] = pc[q]
  BY OthersStay DEF CreateRow, At, clusterVars, hookVars, boundVars
<1>2. CASE services' = services /\ pc'[r] = "idle"
  <2>1. Goto(r, "idle")
    BY <1>1, <1>2 DEF Goto, CreateRow
  <2> QED BY <1>1, <1>2, <2>1, TwiceMoves DEF Active
<1>3. CASE AddService(n, ask[r].svc) /\ ~Enabled(n, ask[r].svc) /\ pc'[r] = "readEnv"
  <2>1. \A q \in Req : /\ (Active(q)' => Active(q)) /\ (Begun(q)' => Begun(q))
                       /\ (Begun(q)' \/ Starts(q)' => Begun(q) \/ Starts(q))
                       /\ (Lists(q)' => Lists(q) /\ Hosts(q)' = Hosts(q))
                       /\ (pc'[q] = "writeEnv" => pc[q] = "writeEnv")
                       /\ (Starts(q)' => Starts(q) \/ (q = r /\ ask[r].svc = "central"))
    BY <1>1, <1>3 DEF Active, Begun, Starts, Lists, Hosts, At
  <2>2. CASE ask[r].svc = "central"
    <3>1. n \notin Centrals /\ Centrals' = Centrals \cup {n}
      BY <1>0, <1>3, <2>2, RowMoves DEF Centrals
    <3>2. PairKept' /\ EraKept'
      BY <1>0, <1>1, <1>3, <2>2, <3>1, EraCreates DEF TwiceKept, At
    <3>3. ListsKept'
      <4>1. Active(r) /\ pc[r] # "regen" /\ Centrals' \ {n} = Centrals \ {n}
        BY <1>1, <3>1 DEF Active
      <4> QED BY <1>0, <1>1, <2>1, <2>2, <4>1, ListsMove DEF TwiceKept
    <3> QED BY <3>2, <3>3 DEF TwiceKept
  <2>3. CASE ask[r].svc # "central"
    <3>1. Centrals' = Centrals
      BY <1>0, <1>3, <2>3, RowMoves
    <3>2. ListsKept'
      BY <1>1, <2>1, <3>1, ListsRest DEF TwiceKept
    <3> QED BY <1>1, <2>1, <2>3, <3>1, <3>2, TwiceRests
  <2> QED BY <2>2, <2>3
<1> QED
  <2>1. \/ services' = services /\ Goto(r, "idle")
        \/ AddService(n, ask[r].svc) /\ ~Enabled(n, ask[r].svc) /\ Goto(r, "readEnv")
    BY <1>0 DEF CreateRow
  <2> QED BY <1>2, <1>3, <2>1, OthersStay

\* A row is deleted by a disable, or by the rollback of an enable.
LEMMA TwiceDeletes ==
  ASSUME Twice, TypeOK, HookConsistent, TwiceKept, NEW r \in Req, Rollback(r) \/ DeleteRow(r)
  PROVE  TwiceKept'
<1>0. PICK n \in Node : n = ask[r].node
  BY TwiceParts
<1>1. /\ UNCHANGED <<db, env, ask, hpc, hview, view, issued>>
      /\ pc[r] \in {"rollback", "delete"} /\ pc'[r] \in {"idle", "leave", "stop"}
      /\ \A q \in Req \ {r} : pc'[q] = pc[q]
  BY OthersStay DEF Rollback, DeleteRow, EndUncarried, At, clusterVars, hookVars,
     boundVars
<1>2. RemoveService(n, ask[r].svc) \/ services' = services
  BY <1>0 DEF Rollback, DeleteRow
<1>3. \A q \in Req : /\ (Active(q)' => Active(q)) /\ (Begun(q)' => Begun(q) /\ q # r)
                     /\ (Starts(q)' => Starts(q) /\ q # r)
                     /\ (Lists(q)' => Lists(q) /\ Hosts(q)' = Hosts(q))
                     /\ (pc'[q] = "writeEnv" => pc[q] = "writeEnv")
  BY <1>1 DEF Active, Begun, Starts, Lists, Hosts, At
<1>4. Active(r) /\ pc[r] # "regen"
  BY <1>1 DEF Active
<1>5. Centrals' \subseteq Centrals /\ Centrals' \ {n} = Centrals \ {n}
  BY <1>0, <1>2, RowMoves
<1>6. ListsKept'
  <2>1. CASE ask[r].svc = "central"
    BY <1>0, <1>1, <1>3, <1>4, <1>5, <2>1, ListsMove DEF TwiceKept
  <2>2. CASE ask[r].svc # "central"
    <3>1. Centrals' = Centrals
      BY <1>0, <1>2, <2>2, RowMoves
    <3> QED BY <1>1, <1>3, <3>1, ListsRest DEF TwiceKept
  <2> QED BY <2>1, <2>2
<1>7. \A m \in Node \ {n} : Untouched(m) => Untouched(m)'
  BY <1>1, <1>5 DEF Untouched
<1>8. PairKept' /\ \A m \in Node : Only(m) => Only(m)'
  BY <1>0, <1>1, <1>3, <1>4, <1>7, PairRests, OnlyKept, TwiceParts DEF TwiceKept
<1>9. \A q \in Req : Begun(q)' \/ Starts(q)' =>
        (ask[q].node \in Centrals => ask[q].node \in Centrals' \/ Only(ask[q].node))
  <2> SUFFICES ASSUME NEW q \in Req, Begun(q)' \/ Starts(q)', ask[q].node = n PROVE Only(n)
    BY <1>5
  <2>1. Active(q) /\ q # r
    BY <1>3 DEF Begun, Starts, Active
  <2> QED BY <1>0, <1>4, <2>1 DEF TwiceKept, PairKept
<1>10. PICK E \in SUBSET Node : EraOf(E)
  BY DEF TwiceKept, EraKept
<1>11. Centrals' \subseteq E
  BY <1>5, <1>10 DEF EraOf
<1>12. EraOf(E)'
  BY <1>1, <1>3, <1>8, <1>9, <1>10, <1>11, EraRests DEF Serves
<1> QED BY <1>6, <1>8, <1>12 DEF TwiceKept, EraKept

\* The table is read for the environment file of the node of r ...
LEMMA TwiceReads ==
  ASSUME Twice, TypeOK, TwiceKept, NEW r \in Req, ReadEnv(r)
  PROVE  TwiceKept'
<1>0. PICK n \in Node : n = ask[r].node
  BY TwiceParts
<1>1. /\ UNCHANGED <<services, db, env, ask, hpc, hview, issued>>
      /\ pc[r] = "readEnv" /\ \A q \in Req \ {r} : pc'[q] = pc[q]
      /\ Centrals' = Centrals
  BY OthersStay, ViewSame
     DEF ReadEnv, EndUncarried, At, clusterVars, envVars, hookVars, boundVars
<1>2. CASE UNCHANGED view /\ Goto(r, "idle")
  BY <1>1, <1>2, TwiceMoves DEF Active
<1>3. CASE view' = [view EXCEPT ![r] = Centrals] /\ Goto(r, "writeEnv")
  <2>1. /\ view'[r] = Centrals /\ \A q \in Req \ {r} : view'[q] = view[q]
        /\ pc'[r] = "writeEnv"
    BY <1>3, OthersStay DEF TypeOK
  <2>2. \A q \in Req : /\ (Active(q)' => Active(q)) /\ (Begun(q)' => Begun(q))
                       /\ (Starts(q)' => Starts(q))
                       /\ (Lists(q)' => \/ Lists(q) /\ Hosts(q)' = Hosts(q)
                                        \/ Starts(q) /\ q = r /\ Hosts(q)' = Centrals)
                       /\ (pc'[q] = "writeEnv" =>
                             (pc[q] = "writeEnv" /\ view'[q] = view[q]) \/ view'[q] = Centrals)
    BY <1>1, <2>1 DEF Active, Begun, Starts, Lists, Hosts, At
  <2>3. ListsKept'
    BY <1>1, <2>2, ListsRest DEF TwiceKept
  <2>4. PairKept'
    BY <1>1, <2>2, AllRest DEF TwiceKept
  <2>5. EraKept'
    BY <1>0, <1>1, <2>2, EraTold DEF TwiceKept, Told
  <2> QED BY <2>3, <2>4, <2>5 DEF TwiceKept
<1> QED BY <1>2, <1>3 DEF ReadEnv, EndUncarried

\* ... and the file is written.
LEMMA TwiceWrites ==
  ASSUME Twice, TypeOK, TwiceKept, NEW r \in Req, WriteEnv(r)
  PROVE  TwiceKept'
<1>0. PICK n \in Node : n = ask[r].node
  BY TwiceParts
<1>1. /\ UNCHANGED <<services, db, ask, hpc, hview, view, issued>>
      /\ pc[r] = "writeEnv" /\ pc'[r] = "start" /\ \A q \in Req \ {r} : pc'[q] = pc[q]
      /\ Centrals' = Centrals
      /\ env'[n] = view[r] /\ \A m \in Node \ {n} : env'[m] = env[m]
  BY <1>0, OthersStay, ViewSame
     DEF WriteEnv, At, clusterVars, hookVars, boundVars, TypeOK, EnvTypeOK
<1>2. \A q \in Req : ask[q].node \in Node
  BY TwiceParts
<1>3. \A q \in Req : /\ (Active(q)' => Active(q)) /\ (Begun(q)' => Begun(q))
                     /\ (Starts(q)' => Starts(q))
                     /\ (pc'[q] = "writeEnv" => pc[q] = "writeEnv")
                     /\ (Lists(q)' => Lists(q))
  BY <1>1 DEF Active, Begun, Starts, Lists
<1>4. ASSUME NEW q \in Req, Lists(q)'
      PROVE  Hosts(q)' = Hosts(q) \/ (ask[q].node = n /\ Hosts(q)' = view[r])
  <2>1. CASE q = r
    BY <1>0, <1>1, <2>1 DEF Hosts, At
  <2>2. CASE q # r /\ ask[q].node = n
    BY <1>1, <2>2 DEF Hosts, At
  <2>3. CASE q # r /\ ask[q].node # n
    BY <1>1, <1>2, <2>3 DEF Hosts, At
  <2> QED BY <2>1, <2>2, <2>3
<1>5. ListsKept'
  BY <1>1, <1>3, ListsRest DEF TwiceKept
<1>6. PairKept' /\ \A m \in Node : Only(m) => Only(m)'
  BY <1>1, <1>3, AllRest DEF TwiceKept
<1>7. EraKept'
  <2>1. CASE ask[r].svc = "central"
    <3>1. Lists(r) /\ Hosts(r) = view[r]
      BY <1>1, <2>1 DEF Lists, Hosts, At
    <3>2. \A q \in Req : Lists(q)' =>
            \E s \in Req : Lists(s) /\ ask[s].node = ask[q].node /\ Hosts(q)' = Hosts(s)
      BY <1>0, <1>3, <1>4, <3>1
    <3>3. PICK E \in SUBSET Node : EraOf(E)
      BY DEF TwiceKept, EraKept
    <3>4. Centrals' \subseteq E
      BY <1>1, <3>3 DEF EraOf
    <3>5. EraOf(E)'
      BY <1>1, <1>3, <1>6, <3>2, <3>3, <3>4, EraRests DEF Serves
    <3> QED BY <3>5 DEF EraKept
  <2>2. CASE ask[r].svc # "central"
    <3>1. Told(n, view[r])
      BY <1>0, <1>1, <2>2 DEF TwiceKept, ListsKept, At
    <3>2. \A q \in Req : Lists(q)' => Starts(q)
      BY <1>3 DEF Lists, Starts
    <3> QED BY <1>0, <1>1, <1>3, <1>4, <3>1, <3>2, EraTold DEF TwiceKept
  <2> QED BY <2>1, <2>2
<1> QED BY <1>5, <1>6, <1>7 DEF TwiceKept

\* The snap services are started.
LEMMA TwiceStarts ==
  ASSUME Twice, TypeOK, TwiceKept, NEW r \in Req, StartApps(r)
  PROVE  TwiceKept'
<1>0. PICK n \in Node : n = ask[r].node
  BY TwiceParts
<1>1. /\ UNCHANGED <<services, env, ask, hpc, hview, view, issued>> /\ At(r, "start")
      /\ Centrals' = Centrals
  BY ViewSame DEF StartApps, envVars, hookVars
<1>2. PICK k \in 0..Len(AppsOf(ask[r].svc)) :
        /\ SnapStart(n, {AppsOf(ask[r].svc)[i] : i \in 1..k}, InitialHost(n, env[n]))
        /\ Goto(r, IF k < Len(AppsOf(ask[r].svc)) THEN "rollback"
                   ELSE IF ask[r].svc = "central" THEN "listen" ELSE "reply")
  BY <1>0 DEF StartApps
<1>3. PICK step : Goto(r, step) /\ step \in {"rollback", "listen", "reply"}
                  /\ (ask[r].svc = "central" => step \in {"rollback", "listen"})
  BY <1>2
<1>4. db' = db \/ (ServerStarted(n, InitialHost(n, env[n])) /\ ask[r].svc = "central")
  <2>1. ask[r].svc # "central" => "ovsdb" \notin {AppsOf(ask[r].svc)[i] : i \in 1..k}
    BY <1>2, TwiceParts DEF AppsOf
  <2> QED BY <1>2, <2>1 DEF SnapStart
<1>5. CASE db' = db
  BY <1>1, <1>3, <1>5, TwiceMoves DEF At, Active
<1>6. CASE ServerStarted(n, InitialHost(n, env[n])) /\ ask[r].svc = "central"
  <2>1. pc'[r] \in {"rollback", "listen"} /\ \A q \in Req \ {r} : pc'[q] = pc[q]
    BY <1>3, <1>6, OthersStay
  <2>2. PairKept' /\ EraKept'
    BY <1>0, <1>1, <1>6, <2>1, EraStarts DEF TwiceKept
  <2>3. \A q \in Req : /\ (Begun(q)' \/ Starts(q)' => Begun(q) \/ Starts(q))
                       /\ (pc'[q] = "writeEnv" => pc[q] = "writeEnv")
    BY <1>1, <2>1 DEF Begun, Starts
  <2>4. ListsKept'
    BY <1>1, <2>3, ListsRest DEF TwiceKept
  <2> QED BY <2>2, <2>4 DEF TwiceKept
<1> QED BY <1>4, <1>5, <1>6

\* Databases are left, moved aside and stopped.
LEMMA TwiceStops ==
  ASSUME Twice, TypeOK, TwiceKept, NEW r \in Req, Leave(r) \/ Rename(r) \/ StopApps(r)
  PROVE  TwiceKept'
<1>0. PICK n \in Node : n = ask[r].node
  BY TwiceParts
<1>1. /\ UNCHANGED <<services, env, ask, hpc, hview, view, issued>>
      /\ pc[r] \in {"leave", "rename", "stop"}
      /\ Centrals' = Centrals
  BY ViewSame DEF Leave, Rename, StopApps, At, envVars, hookVars, boundVars
<1>2. PICK step : Goto(r, step) /\ step \in {"rename", "wait", "stop", "reply"}
  BY DEF Leave, Rename, StopApps
<1>3. /\ \A m \in Node \ {n} : db'[m] = db[m]
      /\ db'[n].st = "joining" => db[n].st = "joining" /\ db'[n].peer = db[n].peer
      /\ Serves(n)' => Serves(n) /\ db'[n].cid = db[n].cid
      /\ db[n].st = "none" => db'[n].st = "none"
  <2>0. db \in [Node -> Database] /\ db[n] \in Database
    BY DEF TypeOK, ClusterTypeOK
  <2>1. CASE db' = db
    BY <2>1 DEF Serves
  <2>2. CASE LeaveCommand(n)
    BY <2>0, <2>2 DEF LeaveCommand, Serves, Database, DatabaseWith
  <2>3. CASE MoveAside(n)
    BY <2>0, <2>3 DEF MoveAside, NoDatabase, Serves, Database, DatabaseWith
  <2>4. CASE \E S : SnapStop(n, S)
    BY <2>0, <2>4 DEF SnapStop, NoDatabase, Serves
  <2> QED BY <1>0, <2>1, <2>2, <2>3, <2>4 DEF Leave, Rename, StopApps, clusterVars
<1>4. pc'[r] = step /\ \A q \in Req \ {r} : pc'[q] = pc[q]
  BY <1>2, OthersStay
<1>5. \A q \in Req : /\ (Active(q)' => Active(q)) /\ (Begun(q)' => Begun(q))
                     /\ (Starts(q)' => Starts(q))
                     /\ (Lists(q)' => Lists(q) /\ Hosts(q)' = Hosts(q))
                     /\ (pc'[q] = "writeEnv" => pc[q] = "writeEnv")
  BY <1>1, <1>2, <1>4 DEF Active, Begun, Starts, Lists, Hosts, At
<1>6. ListsKept'
  BY <1>1, <1>5, ListsRest DEF TwiceKept
<1>7. Active(r) /\ \A m \in Node \ {n} : Untouched(m) => Untouched(m)'
  BY <1>1, <1>3 DEF Active, Untouched
<1>8. PairKept' /\ \A m \in Node : Only(m) => Only(m)'
  BY <1>0, <1>1, <1>5, <1>7, PairRests, OnlyKept, TwiceParts DEF TwiceKept
<1>9. PICK E \in SUBSET Node : EraOf(E)
  BY DEF TwiceKept, EraKept
<1>10. Centrals' \subseteq E
  BY <1>1, <1>9 DEF EraOf
<1>11. \A m \in Node :
        /\ db'[m].st = "joining" => db[m].st = "joining" /\ db'[m].peer = db[m].peer
        /\ Serves(m)' => Serves(m) /\ db'[m].cid = db[m].cid
        /\ db[m].st = "none" => db'[m].st = "none"
  BY <1>3 DEF Serves
<1>12. EraOf(E)'
  BY <1>1, <1>5, <1>8, <1>9, <1>10, <1>11, EraRests
<1> QED BY <1>6, <1>8, <1>12 DEF TwiceKept, EraKept

\* A refresh reads the table, or writes the environment file of its node.
LEMMA TwiceRefreshes ==
  ASSUME Twice, TypeOK, TwiceKept, NEW n \in Node, RefreshStep(n)
  PROVE  TwiceKept'
<1>1. UNCHANGED <<services, db, ask, pc, view, issued>> /\ Centrals' = Centrals
  BY ViewSame DEF RefreshStep, RefreshRead, RefreshEnv, RefreshRemoteRead, RefreshRemoteSet,
     clusterVars, envVars, boundVars
<1>2. \A m \in Node : hpc'[m] = "env" =>
        (hpc[m] = "env" /\ hview'[m] = hview[m]) \/ hview'[m] = Centrals
  BY DEF RefreshStep, RefreshRead, RefreshEnv, RefreshRemoteRead, RefreshRemoteSet, Unlock,
     TypeOK
<1>3. \A q \in Req : /\ (Active(q)' <=> Active(q)) /\ (Begun(q)' <=> Begun(q))
                     /\ (Starts(q)' <=> Starts(q)) /\ (Lists(q)' <=> Lists(q))
  BY <1>1 DEF Active, Begun, Starts, Lists
<1>4. ListsKept'
  BY <1>1, <1>2, <1>3, ListsRest DEF TwiceKept
<1>5. CASE env' = env
  <2>1. \A q \in Req : Hosts(q)' = Hosts(q)
    BY <1>1, <1>5 DEF Hosts, At
  <2> QED BY <1>1, <1>3, <1>4, <2>1, TwiceRests
<1>6. CASE RefreshEnv(n)
  <2>1. Told(n, hview[n])
    BY <1>6 DEF RefreshEnv, TwiceKept, ListsKept
  <2>2. env'[n] = hview[n] /\ \A m \in Node \ {n} : env'[m] = env[m]
    BY <1>6 DEF RefreshEnv, TypeOK, EnvTypeOK
  <2>3. \A q \in Req : Lists(q) =>
          \/ Hosts(q)' = Hosts(q)
          \/ Starts(q) /\ ask[q].node = n /\ Hosts(q)' = hview[n]
    BY <1>1, <2>2, TwiceParts DEF Hosts, Lists, Starts, At
  <2>4. PairKept'
    BY <1>1, <1>3, AllRest DEF TwiceKept
  <2>5. EraKept'
    BY <1>1, <1>3, <2>1, <2>3, EraTold DEF TwiceKept
  <2> QED BY <1>4, <2>4, <2>5 DEF TwiceKept
<1> QED BY <1>5, <1>6 DEF RefreshStep, RefreshRead, RefreshRemoteRead, RefreshRemoteSet, envVars

\* A server joins or leaves its cluster.
LEMMA TwiceDatabases ==
  ASSUME Twice, TypeOK, TwiceKept, NEW n \in Node, DatabaseStep(n)
  PROVE  TwiceKept'
<1>1. /\ UNCHANGED <<services, env, ask, pc, view, hpc, hview, issued>>
      /\ Centrals' = Centrals
  BY ViewSame DEF DatabaseStep, envVars, reqVars, hookVars, boundVars
<1>2. \A q \in Req : /\ (Active(q)' <=> Active(q)) /\ (Begun(q)' <=> Begun(q))
                     /\ (Starts(q)' <=> Starts(q)) /\ (Lists(q)' <=> Lists(q))
                     /\ Hosts(q)' = Hosts(q)
  BY <1>1 DEF Active, Begun, Starts, Lists, Hosts, At
<1>3. ListsKept'
  BY <1>1, <1>2, ListsRest DEF TwiceKept
<1>4. CASE Joined(n)
  BY <1>3, <1>4, EraJoined DEF DatabaseStep, TwiceKept
<1>5. CASE Departed(n)
  <2>1. db[n] \in Database /\ db \in [Node -> Database]
    BY DEF TypeOK, ClusterTypeOK
  <2>2. /\ \A m \in Node \ {n} : db'[m] = db[m]
        /\ db[n].st = "leaving" /\ db'[n].st = "left"
    BY <1>5, <2>1 DEF Departed, CanDepart, Database, DatabaseWith
  <2>3. \A m \in Node : Untouched(m) => Untouched(m)'
    BY <1>1, <2>2 DEF Untouched
  <2>4. PairKept' /\ \A m \in Node : Only(m) => Only(m)'
    BY <1>1, <1>2, <2>3, PairRests, OnlyKept, TwiceParts DEF TwiceKept
  <2>5. PICK E \in SUBSET Node : EraOf(E)
    BY DEF TwiceKept, EraKept
  <2>6. Centrals' \subseteq E
    BY <1>1, <2>5 DEF EraOf
  <2>7. \A m \in Node :
          /\ db'[m].st = "joining" => db[m].st = "joining" /\ db'[m].peer = db[m].peer
          /\ Serves(m)' => Serves(m) /\ db'[m].cid = db[m].cid
          /\ db[m].st = "none" => db'[m].st = "none"
    BY <2>2 DEF Serves
  <2>8. EraOf(E)'
    BY <1>1, <1>2, <2>4, <2>5, <2>6, <2>7, EraRests
  <2> QED BY <1>3, <2>4, <2>8 DEF TwiceKept, EraKept
<1> QED BY <1>4, <1>5 DEF DatabaseStep

LEMMA TwiceNext ==
  ASSUME Twice, TypeOK, HookConsistent, DaemonsUp, DaemonsUp', TwiceKept, [Next]_vars
  PROVE  TwiceKept'
<1>1. ASSUME NEW r \in Req, Issue(r) \/ Handle(r) PROVE TwiceKept'
  BY <1>1, TwiceIssued, TwiceChecks, TwiceCreates, TwiceDeletes, TwiceReads,
         TwiceWrites, TwiceStarts, TwiceStops DEF Handle
<1>2. ASSUME NEW r \in Req, NEW n \in Node, RefreshLock(r, n) \/ RefreshLost(r, n)
      PROVE  TwiceKept'
  <2>1. /\ UNCHANGED <<services, db, env, ask, pc, view, hview, issued>>
        /\ Centrals' = Centrals
    BY <1>2, ViewSame DEF RefreshLock, RefreshLost, clusterVars, envVars, reqVars,
       hookVars, boundVars
  <2>2. \A m \in Node : hpc'[m] = "env" => hpc[m] = "env"
    BY <1>2 DEF RefreshLock, RefreshLost, hookVars, TypeOK
  <2>3. \A q \in Req : /\ (Active(q)' <=> Active(q)) /\ (Begun(q)' <=> Begun(q))
                       /\ (Starts(q)' <=> Starts(q)) /\ (Lists(q)' <=> Lists(q))
                       /\ Hosts(q)' = Hosts(q)
    BY <2>1 DEF Active, Begun, Starts, Lists, Hosts, At
  <2>4. ListsKept'
    BY <2>1, <2>2, <2>3, ListsRest DEF TwiceKept
  <2> QED BY <2>1, <2>3, <2>4, TwiceRests
<1>3. ASSUME NEW n \in Node, RefreshStep(n) \/ Crash(n) \/ BootStep(n) \/ DatabaseStep(n)
      PROVE  TwiceKept'
  <2>1. ~Crash(n) /\ ~BootStep(n)
    BY DEF DaemonsUp, TypeOK, Crash, BootStep, Restart, BootActivate, BootRead,
       BootWrite, BootRemoteRead, BootRemoteSet
  <2> QED BY <1>3, <2>1, TwiceRefreshes, TwiceDatabases
<1>4. CASE UNCHANGED vars \/ \E r \in Req : Cancel(r)
  <2>1. /\ UNCHANGED <<services, db, env, ask, pc, view, hpc, hview, issued>>
        /\ Centrals' = Centrals
    BY <1>4, ViewSame DEF vars, Cancel, clusterVars, envVars, reqVars, hookVars, boundVars
  <2>2. \A q \in Req : /\ (Active(q)' <=> Active(q)) /\ (Begun(q)' <=> Begun(q))
                       /\ (Starts(q)' <=> Starts(q)) /\ (Lists(q)' <=> Lists(q))
                       /\ Hosts(q)' = Hosts(q)
    BY <2>1 DEF Active, Begun, Starts, Lists, Hosts, At
  <2>3. ListsKept'
    BY <2>1, <2>2, ListsRest DEF TwiceKept
  <2> QED BY <2>1, <2>2, <2>3, TwiceRests
<1> QED BY <1>1, <1>2, <1>3, <1>4 DEF Next, Settled

\* A settled cluster is an era.
LEMMA TwiceInit ==
  ASSUME Twice, Init
  PROVE  TwiceKept
<1>1. PICK C \in SUBSET Node : InitWith(C)
  BY DEF Init
<1>2. Centrals = C
  BY <1>1, ServiceAssumption DEF InitWith, Centrals, Enabled
<1>3. \A n \in Node : db[n] = IF n \in C THEN MemberOf(FirstOf(Cluster)) ELSE NoDatabase
  BY <1>1 DEF InitWith
<1>4. \A n \in Node : Untouched(n)
  BY <1>2, <1>3 DEF Untouched, MemberOf, NoDatabase
<1>5. /\ \A r \in Req : ~Active(r) /\ ~Begun(r) /\ ~Starts(r) /\ ~Lists(r) /\ ~Creates(r)
      /\ \A r \in Req : ~At(r, "writeEnv")
  BY DEF Init, Active, Begun, Starts, Lists, Creates, At
<1>6. PairKept
  BY <1>4, <1>5 DEF Init, PairKept
<1>7. ListsKept
  BY <1>5 DEF Init, ListsKept
<1>8. EraOf(C)
  <2>1. \A n \in Node \ C : db[n].st = "none"
    BY <1>3 DEF NoDatabase
  <2>2. Agree(C) /\ PeersKept(C)
    BY <1>3 DEF Agree, PeersKept, MemberOf
  <2> QED BY <1>2, <1>5, <2>1, <2>2
      DEF EraOf, BegunKept, StartsKept, HostsKept, FirstKept
<1> QED BY <1>6, <1>7, <1>8 DEF TwiceKept, EraKept

\* Whatever two requests do to a settled cluster of any size, at once or one after
\* the other, and whichever of their commands fail or are cancelled, no two central
\* nodes that serve databases serve different ones, as long as no daemon crashes
\* (EnableService, DisableService and the regeneration that follows them).
THEOREM TwoRequestsOneDatabase ==
  ASSUME Twice
  PROVE  Spec /\ []DaemonsUp => []NoSplitBrain
<1>1. Init => TwiceKept
  BY TwiceInit
<1>2. /\ TypeOK /\ EnvInductive /\ DaemonsUp /\ DaemonsUp' /\ TwiceKept /\ [Next]_vars
      => TwiceKept'
  BY TwiceNext DEF EnvInductive
<1>3. TwiceKept => NoSplitBrain
  <2> SUFFICES ASSUME TwiceKept, NEW m \in Centrals, NEW n \in Centrals,
                      Connected(m), Connected(n)
               PROVE  db[m].cid = db[n].cid
    BY DEF NoSplitBrain
  <2>1. PICK E \in SUBSET Node : EraOf(E)
    BY DEF TwiceKept, EraKept
  <2> QED BY <2>1 DEF EraOf, Agree, Serves, Connected
<1> QED BY <1>1, <1>2, <1>3, TypeCorrect, EnvAccountedAlways, PTL DEF Spec

\* Without faults no daemon crashes, so that two requests leave one cluster of
\* databases: what the commands of two users who know nothing of each other do.
THEOREM NoFaultOneDatabase ==
  ASSUME Twice, MaxFaults = 0
  PROVE  Spec => []NoSplitBrain
<1>1. Init => DaemonsUp
  BY DEF Init, DaemonsUp
<1>2. TypeOK /\ DaemonsUp /\ [Next]_vars => DaemonsUp'
  <2> SUFFICES ASSUME TypeOK, DaemonsUp, [Next]_vars PROVE DaemonsUp'
    OBVIOUS
  <2>1. daemon' = daemon
    <3>1. \A n \in Node : ~Crash(n) /\ ~BootStep(n)
      BY DEF DaemonsUp, TypeOK, Crash, Fault, BootStep, Restart, BootActivate, BootRead,
         BootWrite, BootRemoteRead, BootRemoteSet
    <3>2. ASSUME NEW r \in Req, Issue(r) \/ Cancel(r) \/ Handle(r) PROVE daemon' = daemon
      BY <3>2 DEF Issue, Cancel, Handle, Check, LastCheck, CreateRow, ReadEnv, WriteEnv,
         StartApps, Listen, Rollback, DeleteRow, Leave, WaitRemoved, Rename, StopApps, Reply,
         RegenEnd, bootVars
    <3>3. ASSUME NEW r \in Req, NEW n \in Node, RefreshLock(r, n) \/ RefreshLost(r, n)
          PROVE  daemon' = daemon
      BY <3>3 DEF RefreshLock, RefreshLost, bootVars
    <3>4. ASSUME NEW n \in Node, RefreshStep(n) \/ DatabaseStep(n) PROVE daemon' = daemon
      BY <3>4 DEF RefreshStep, RefreshRead, RefreshEnv, RefreshRemoteRead, RefreshRemoteSet,
         DatabaseStep, bootVars
    <3> QED BY <3>1, <3>2, <3>3, <3>4 DEF Next, Settled, vars, bootVars
  <2> QED BY <2>1 DEF DaemonsUp
<1> QED BY <1>1, <1>2, TypeCorrect, TwoRequestsOneDatabase, PTL DEF Spec
===========================================================================
