---------------------------- MODULE RemoteProofs --------------------------
(***************************************************************************)
(* No interleaving leaves ovn-remote behind the table unnoticed:           *)
(* RemoteInductive is an inductive invariant and implies                   *)
(* RemoteFollowsCentrals.  The argument is that of EnvironmentProofs with  *)
(* the second read of a refresh in the place of the first.                 *)
(***************************************************************************)
EXTENDS EnvironmentProofs

---------------------------------------------------------------------------
(* Only requests for central regenerate.                                   *)

LEMMA RegenCentralInit == Init => RegenCentral
BY DEF Init, RegenCentral

LEMMA RegenCentralNext ==
  TypeOK /\ RegenCentral /\ [Next]_vars => RegenCentral'
<1> SUFFICES ASSUME TypeOK, RegenCentral, [Next]_vars,
                    NEW q \in Req, pc'[q] = "regen"
             PROVE  ask'[q].svc = "central"
  BY DEF RegenCentral
<1>1. CASE ask' = ask /\ pc[q] = "regen"
  BY <1>1 DEF RegenCentral
<1>2. ASSUME NEW r \in Req, Handle(r) PROVE ask' = ask
  BY <1>2 DEF Handle, Check, LastCheck, CreateRow, ReadEnv, WriteEnv, StartApps,
              Listen, Rollback, DeleteRow, Leave, WaitRemoved, Rename,
              StopApps, Reply, RegenEnd
<1>3. ASSUME NEW r \in Req, Handle(r), pc[q] # "regen"
      PROVE  ask[q].svc = "central"
  <2>1. ASSUME Reply(r) PROVE ask[q].svc = "central"
    <3>1. PICK step \in {"regen", "idle"} :
            Goto(r, step) /\ (step = "regen" => Regenerates(r))
      BY <2>1 DEF Reply, EndUncarried
    <3>2. q = r
      BY <1>3, <3>1 DEF Goto, TypeOK
    <3>3. pc'[r] = step
      BY <3>1 DEF Goto, TypeOK
    <3> QED BY <3>1, <3>2, <3>3 DEF Regenerates
  <2>2. CASE ~Reply(r)
    <3>1. CASE \/ Check(r) \/ LastCheck(r) \/ CreateRow(r) \/ DeleteRow(r)
      BY <1>3, <3>1 DEF Check, LastCheck, CreateRow, DeleteRow, Goto, TypeOK
    <3>2. CASE \/ WriteEnv(r) \/ StartApps(r) \/ Listen(r) \/ Leave(r)
               \/ WaitRemoved(r) \/ Rename(r) \/ StopApps(r)
      BY <1>3, <3>2 DEF WriteEnv, StartApps, Listen, Leave, WaitRemoved,
                        Rename, StopApps, Goto, TypeOK
    <3>3. CASE ReadEnv(r) \/ Rollback(r) \/ RegenEnd(r)
      BY <1>3, <3>3 DEF ReadEnv, Rollback, RegenEnd, EndUncarried, Goto, TypeOK
    <3> QED BY <1>3, <2>2, <3>1, <3>2, <3>3 DEF Handle
  <2> QED BY <2>1, <2>2
<1>4. ASSUME NEW r \in Req, Issue(r) PROVE ask'[q].svc = "central"
  BY <1>4 DEF Issue, Goto, TypeOK, RegenCentral
<1>5. ASSUME NEW r \in Req, Cancel(r) PROVE ask' = ask /\ pc' = pc
  BY <1>5 DEF Cancel
<1>6. ASSUME NEW r \in Req, NEW n \in Node,
             RefreshLock(r, n) \/ RefreshLost(r, n)
      PROVE  ask' = ask /\ pc' = pc
  BY <1>6 DEF RefreshLock, RefreshLost, reqVars
<1>7. ASSUME NEW n \in Node, RefreshStep(n) PROVE ask' = ask /\ pc' = pc
  BY <1>7 DEF RefreshStep, RefreshRead, RefreshEnv, RefreshRemoteRead,
              RefreshRemoteSet
<1>8. ASSUME NEW n \in Node, Crash(n) PROVE ask' = ask /\ pc[q] = "regen"
  <2>1. /\ ask' = ask
        /\ pc'[q] = "idle" \/ pc'[q] = pc[q]
    BY <1>8 DEF Crash
  <2> QED BY <2>1
<1>9. ASSUME NEW n \in Node, BootStep(n) \/ DatabaseStep(n)
      PROVE  ask' = ask /\ pc' = pc
  BY <1>9 DEF BootStep, Restart, BootActivate, BootRead, BootWrite,
              BootRemoteRead, BootRemoteSet, DatabaseStep, reqVars
<1>10. CASE UNCHANGED vars
  BY <1>1, <1>10 DEF vars, reqVars
<1> QED BY <1>1, <1>2, <1>3, <1>4, <1>5, <1>6, <1>7, <1>8, <1>9, <1>10
        DEF Next, Settled

---------------------------------------------------------------------------
(* Steps of a handler that is not regenerating.                            *)

LEMMA RemoteOwedApart ==
  ASSUME TypeOK, NEW r \in Req, NEW step, NEW n \in Node, RemoteOwed(n),
         pc[r] # "regen", Goto(r, step), UNCHANGED <<ask, hook, hpc, todo>>,
         ask[r].svc = "central" /\ pc[r] \in Applied => step \in Applied
  PROVE  RemoteOwed(n)'
<1>1. PICK q \in Req :
        /\ ask[q].svc = "central"
        /\ \/ pc[q] \in Applied
           \/ pc[q] = "regen" /\ n \in todo[q]
              /\ (hook[n] = q => hpc[n] # "set")
  BY DEF RemoteOwed
<1>2. pc' = [pc EXCEPT ![r] = step] /\ r \in DOMAIN pc /\ q \in DOMAIN pc
  BY DEF Goto, TypeOK
<1>3. CASE q = r
  <2>1. pc'[q] \in Applied
    BY <1>1, <1>2, <1>3
  <2> QED BY <1>1, <2>1 DEF RemoteOwed
<1>4. CASE q # r
  <2>1. pc'[q] = pc[q]
    BY <1>2, <1>4
  <2> QED BY <1>1, <2>1 DEF RemoteOwed
<1> QED BY <1>3, <1>4

LEMMA RemoteHandlerStep ==
  ASSUME \A m \in Node : RemoteAccounted(m), TypeOK, NEW r \in Req, NEW step,
         pc[r] # "regen", Goto(r, step),
         UNCHANGED <<ask, remote, hook, hpc, hview, todo>>,
         Centrals' = Centrals, lapsed \subseteq lapsed', missed \subseteq missed',
         \/ ask[r].svc = "central" /\ pc[r] \in Applied => step \in Applied
         \/ lapsed' = Node
  PROVE  \A m \in Node : RemoteAccounted(m)'
<1> SUFFICES ASSUME NEW n \in Node PROVE RemoteAccounted(n)'
  OBVIOUS
<1>1. CASE n \in lapsed'
  BY <1>1 DEF RemoteAccounted
<1>2. CASE n \notin lapsed' /\ RemoteOwed(n)
  <2>1. RemoteOwed(n)'
    BY <1>2, RemoteOwedApart
  <2> QED BY <2>1 DEF RemoteAccounted
<1>3. CASE n \notin lapsed' /\ ~RemoteOwed(n)
  BY <1>3 DEF RemoteAccounted, RemoteFresh
<1> QED BY <1>1, <1>2, <1>3

LEMMA RemoteChangeCarried ==
  ASSUME TypeOK, NEW r \in Req, NEW step, Goto(r, step), UNCHANGED ask,
         ask[r].svc = "central", step \in Applied \/ lapsed' = Node
  PROVE  \A m \in Node : RemoteAccounted(m)'
<1>1. pc'[r] = step
  BY DEF Goto, TypeOK
<1> QED BY <1>1 DEF RemoteAccounted, RemoteOwed

---------------------------------------------------------------------------
(* Steps of a refresh.                                                     *)

\* A node keeps its account when its list, its refresh and the table stay.
LEMMA RemoteFrame ==
  ASSUME NEW n \in Node, RemoteAccounted(n), Centrals' = Centrals,
         n \in lapsed => n \in lapsed' \/ RemoteOwed(n)',
         n \in missed => n \in missed', remote'[n] = remote[n],
         \/ hpc'[n] = hpc[n] /\ hview'[n] = hview[n]
         \/ hpc[n] # "set" /\ hpc'[n] # "set",
         RemoteOwed(n) => RemoteOwed(n)'
  PROVE  RemoteAccounted(n)'
BY DEF RemoteAccounted, RemoteFresh

\* The refresh that releases muHook on n owed nothing to the other nodes.
LEMMA RemoteUnlockApart ==
  ASSUME TypeOK, NEW n \in Node, hook[n] \in Req, Unlock(n),
         UNCHANGED <<ask, pc>>, NEW m \in Node, m # n, RemoteOwed(m)
  PROVE  RemoteOwed(m)'
<1>1. PICK q \in Req :
        /\ ask[q].svc = "central"
        /\ \/ pc[q] \in Applied
           \/ pc[q] = "regen" /\ m \in todo[q]
              /\ (hook[m] = q => hpc[m] # "set")
  BY DEF RemoteOwed
<1>2. hook'[m] = hook[m] /\ hpc'[m] = hpc[m] /\ (m \in todo[q] => m \in todo'[q])
  BY DEF Unlock, TypeOK
<1> QED BY <1>1, <1>2 DEF RemoteOwed

\* A refresh that stops leaves its node marked and the other nodes alone.
LEMMA RemoteUnlockStep ==
  ASSUME \A m \in Node : RemoteAccounted(m), TypeOK, NEW n \in Node,
         hook[n] \in Req, Unlock(n), UNCHANGED <<ask, pc, remote>>,
         Centrals' = Centrals, lapsed \subseteq lapsed',
         missed \subseteq missed', n \in lapsed' \cup missed'
  PROVE  \A m \in Node : RemoteAccounted(m)'
<1>1. ASSUME NEW m \in Node, m # n PROVE RemoteAccounted(m)'
  <2>1. hpc'[m] = hpc[m] /\ hview'[m] = hview[m]
    BY <1>1 DEF Unlock, TypeOK
  <2>2. RemoteOwed(m) => RemoteOwed(m)'
    BY <1>1, RemoteUnlockApart
  <2> QED BY <2>1, <2>2, RemoteFrame
<1>2. hpc'[n] = "free"
  BY DEF Unlock, TypeOK
<1>3. RemoteAccounted(n)'
  BY <1>2 DEF RemoteAccounted
<1> QED BY <1>1, <1>3

\* A refresh that goes on to a step before its second read of the table still
\* owes its node ovn-remote.
LEMMA RemoteOnward ==
  ASSUME RemoteInductive, TypeOK, NEW n \in Node,
         hpc[n] \in {"read", "env"}, hpc'[n] \in {"env", "remote"},
         UNCHANGED <<ask, pc, remote, hook, todo>>,
         Centrals' = Centrals, lapsed \ {n} \subseteq lapsed',
         missed \subseteq missed',
         \A m \in Node \ {n} : hpc'[m] = hpc[m] /\ hview'[m] = hview[m]
  PROVE  \A m \in Node : RemoteAccounted(m)'
<1>1. hook[n] \in Req /\ pc[hook[n]] = "regen" /\ n \in todo[hook[n]]
  BY DEF RemoteInductive, HookConsistent, TypeOK
<1>2. hpc'[n] # "set"
  OBVIOUS
<1>3. RemoteAccounted(n)'
  BY <1>1, <1>2 DEF RemoteInductive, RegenCentral, RemoteAccounted, RemoteOwed
<1>4. ASSUME NEW m \in Node, m # n PROVE RemoteAccounted(m)'
  <2>1. RemoteAccounted(m) /\ hpc'[m] = hpc[m] /\ hview'[m] = hview[m]
    BY <1>4 DEF RemoteInductive, TypeOK
  <2>2. RemoteOwed(m) => RemoteOwed(m)'
    BY <2>1 DEF RemoteOwed
  <2> QED BY <1>4, <2>1, <2>2, RemoteFrame
<1> QED BY <1>3, <1>4

LEMMA RemoteLockStep ==
  ASSUME RemoteInductive, TypeOK, NEW r \in Req, NEW n \in Node,
         RefreshLock(r, n)
  PROVE  \A m \in Node : RemoteAccounted(m)'
<1>1. /\ hook' = [hook EXCEPT ![n] = r] /\ hpc' = [hpc EXCEPT ![n] = "read"]
      /\ hook[n] = NoReq
      /\ UNCHANGED <<services, remote, lapsed, missed, ask, pc, todo, hview>>
  BY DEF RefreshLock, MayRefresh, clusterVars, envVars, ghostVars, reqVars
<1>2. hpc[n] = "free" /\ Centrals' = Centrals
  BY <1>1 DEF RemoteInductive, HookConsistent, Centrals, Enabled
<1> SUFFICES ASSUME NEW m \in Node PROVE RemoteAccounted(m)'
  OBVIOUS
<1>3. RemoteAccounted(m)
  BY DEF RemoteInductive
<1>4. RemoteOwed(m) => RemoteOwed(m)'
  BY <1>1 DEF RemoteOwed, TypeOK
<1>5. \/ hpc'[m] = hpc[m]
      \/ hpc[m] # "set" /\ hpc'[m] # "set"
  BY <1>1, <1>2 DEF TypeOK
<1> QED BY <1>1, <1>2, <1>3, <1>4, <1>5, RemoteFrame

LEMMA RemoteLostStep ==
  ASSUME RemoteInductive, TypeOK, NEW r \in Req, NEW n \in Node,
         RefreshLost(r, n)
  PROVE  \A m \in Node : RemoteAccounted(m)'
<1>1. /\ todo' = [todo EXCEPT ![r] = @ \ {n}] /\ lapsed' = lapsed \cup {n}
      /\ UNCHANGED <<services, remote, missed, ask, pc, hook, hpc, hview>>
  BY DEF RefreshLost, clusterVars, envVars, hookVars
<1>2. Centrals' = Centrals
  BY <1>1 DEF Centrals, Enabled
<1> SUFFICES ASSUME NEW m \in Node, m # n PROVE RemoteAccounted(m)'
  BY <1>1 DEF RemoteAccounted
<1>3. RemoteAccounted(m)
  BY DEF RemoteInductive
<1>4. \A q \in Req : m \in todo[q] => m \in todo'[q]
  BY <1>1 DEF TypeOK
<1>5. RemoteOwed(m) => RemoteOwed(m)'
  BY <1>1, <1>4 DEF RemoteOwed
<1> QED BY <1>1, <1>2, <1>3, <1>5, RemoteFrame

\* What RefreshRemoteRead reads is what RefreshRemoteSet sets.
LEMMA RemoteRefreshStep ==
  ASSUME RemoteInductive, TypeOK, NEW n \in Node, RefreshStep(n)
  PROVE  \A m \in Node : RemoteAccounted(m)'
<1>1. hook[n] \in Req /\ hook[n] # NoReq
  BY HookHeld DEF RefreshStep, RefreshRead, RefreshEnv, RefreshRemoteRead,
                  RefreshRemoteSet, RemoteInductive
<1>2. /\ UNCHANGED <<ask, pc, services>> /\ Centrals' = Centrals
      /\ \A m \in Node : RemoteAccounted(m)
  BY DEF RefreshStep, RefreshRead, RefreshEnv, RefreshRemoteRead,
         RefreshRemoteSet, envVars, RemoteInductive, Centrals, Enabled
<1>3. CASE RefreshRead(n)
  <2>1. hpc[n] = "read" /\ UNCHANGED <<remote, missed>>
    BY <1>3 DEF RefreshRead, envVars
  <2>2. CASE ctx[hook[n]]
    <3>1. /\ hpc' = [hpc EXCEPT ![n] = "env"] /\ lapsed' = lapsed \ {n}
          /\ hview' = [hview EXCEPT ![n] = Centrals]
          /\ UNCHANGED <<hook, todo>>
      BY <1>3, <2>2 DEF RefreshRead
    <3>2. /\ hpc'[n] \in {"env", "remote"}
          /\ \A m \in Node \ {n} : hpc'[m] = hpc[m] /\ hview'[m] = hview[m]
      BY <3>1 DEF TypeOK
    <3> QED BY <1>2, <2>1, <3>1, <3>2, RemoteOnward
  <2>3. CASE ~ctx[hook[n]]
    BY <1>1, <1>2, <1>3, <2>1, <2>3, RemoteUnlockStep DEF RefreshRead
  <2> QED BY <2>2, <2>3
<1>4. CASE RefreshEnv(n)
  <2>1. hpc[n] = "env" /\ UNCHANGED <<remote, lapsed>>
    BY <1>4 DEF RefreshEnv
  <2>2. CASE hpc' = [hpc EXCEPT ![n] = "remote"]
             /\ UNCHANGED <<hook, hview, todo, missed>>
    <3>1. /\ hpc[n] \in {"read", "env"} /\ lapsed \ {n} \subseteq lapsed'
          /\ missed \subseteq missed'
          /\ UNCHANGED <<ask, pc, remote, hook, todo>>
      BY <1>2, <2>1, <2>2
    <3>2. /\ hpc'[n] \in {"env", "remote"}
          /\ \A m \in Node \ {n} : hpc'[m] = hpc[m] /\ hview'[m] = hview[m]
      BY <2>2 DEF TypeOK
    <3> QED BY <1>2, <3>1, <3>2, RemoteOnward
  <2>3. CASE Unlock(n) /\ missed' = missed \cup {n}
    BY <1>1, <1>2, <2>1, <2>3, RemoteUnlockStep
  <2> QED BY <1>4, <2>2, <2>3 DEF RefreshEnv
<1>5. CASE RefreshRemoteRead(n)
  <2>1. hpc[n] = "remote" /\ UNCHANGED <<remote, lapsed>>
    BY <1>5 DEF RefreshRemoteRead, envVars
  <2>2. CASE /\ hview' = [hview EXCEPT ![n] = Centrals]
             /\ hpc' = [hpc EXCEPT ![n] = "set"]
             /\ UNCHANGED <<hook, todo, missed>>
    <3>1. hpc'[n] = "set" /\ hview'[n] = Centrals
      BY <2>2 DEF TypeOK
    <3>2. RemoteAccounted(n)'
      BY <1>2, <3>1 DEF RemoteAccounted
    <3>3. ASSUME NEW m \in Node, m # n PROVE RemoteAccounted(m)'
      <4>1. hpc'[m] = hpc[m] /\ hview'[m] = hview[m]
        BY <2>2, <3>3 DEF TypeOK
      <4>2. RemoteOwed(m) => RemoteOwed(m)'
        BY <1>2, <2>2, <4>1 DEF RemoteOwed
      <4> QED BY <1>2, <2>1, <2>2, <4>1, <4>2, RemoteFrame
    <3> QED BY <3>2, <3>3
  <2>3. CASE Unlock(n) /\ missed' = missed \cup {n}
    BY <1>1, <1>2, <2>1, <2>3, RemoteUnlockStep
  <2> QED BY <1>5, <2>2, <2>3 DEF RefreshRemoteRead
<1>6. CASE RefreshRemoteSet(n)
  <2>1. hpc[n] = "set" /\ Unlock(n) /\ UNCHANGED lapsed
    BY <1>6 DEF RefreshRemoteSet
  <2>2. CASE UNCHANGED remote /\ missed' = missed \cup {n}
    BY <1>1, <1>2, <2>1, <2>2, RemoteUnlockStep
  <2>3. CASE SetRemote(n, hview[n]) /\ missed' = missed \ {n}
    <3>1. /\ remote'[n] = hview[n] /\ hpc'[n] = "free"
          /\ \A m \in Node \ {n} : remote'[m] = remote[m]
      BY <2>1, <2>3 DEF SetRemote, Unlock, TypeOK, EnvTypeOK
    <3>2. RemoteAccounted(n)'
      <4>1. CASE n \in lapsed
        BY <2>1, <4>1 DEF RemoteAccounted
      <4>2. CASE RemoteOwed(n)
        <5>1. PICK q \in Req :
                /\ ask[q].svc = "central"
                /\ \/ pc[q] \in Applied
                   \/ pc[q] = "regen" /\ n \in todo[q] /\ hook[n] # q
          BY <2>1, <4>2 DEF RemoteOwed
        <5>2. n \in todo[q] /\ hook[n] # q => n \in todo'[q]
          BY <1>1, <2>1 DEF Unlock, TypeOK
        <5> QED BY <1>2, <3>1, <5>1, <5>2 DEF RemoteAccounted, RemoteOwed
      <4>3. CASE hview[n] = Centrals
        BY <1>2, <3>1, <4>3 DEF RemoteAccounted, RemoteFresh
      <4> QED BY <1>2, <2>1, <4>1, <4>2, <4>3 DEF RemoteAccounted
    <3>3. ASSUME NEW m \in Node, m # n PROVE RemoteAccounted(m)'
      <4>1. hpc'[m] = hpc[m] /\ hview'[m] = hview[m]
        BY <2>1, <3>3 DEF Unlock, TypeOK
      <4>2. RemoteOwed(m) => RemoteOwed(m)'
        BY <1>1, <1>2, <2>1, <3>3, RemoteUnlockApart
      <4> QED BY <1>2, <2>1, <2>3, <3>1, <3>3, <4>1, <4>2, RemoteFrame
    <3> QED BY <3>2, <3>3
  <2> QED BY <1>6, <2>2, <2>3 DEF RefreshRemoteSet
<1> QED BY <1>3, <1>4, <1>5, <1>6 DEF RefreshStep

---------------------------------------------------------------------------
(* Steps of the daemon.                                                    *)

LEMMA RemoteCrashStep ==
  ASSUME RemoteInductive, TypeOK, NEW n \in Node, Crash(n)
  PROVE  \A m \in Node : RemoteAccounted(m)'
<1> DEFINE killed == {r \in Req : pc[r] \in Undecided \cup Applied
                                   /\ ask[r].node = n}
           orphaned == {r \in killed : pc[r] \in Applied
                                        /\ ask[r].svc = "central"}
<1>1. /\ UNCHANGED <<services, remote, ask, missed>> /\ Centrals' = Centrals
      /\ pc' = [r \in Req |-> IF r \in killed THEN "idle" ELSE pc[r]]
      /\ lapsed' = IF orphaned # {} THEN Node
                   ELSE IF hook[n] # NoReq THEN lapsed \cup {n} ELSE lapsed
      /\ IF hook[n] # NoReq THEN Unlock(n)
                            ELSE UNCHANGED <<hook, hpc, hview, todo>>
  BY DEF Crash, envVars, hookVars, Centrals, Enabled
<1> SUFFICES ASSUME NEW m \in Node, m \notin lapsed' PROVE RemoteAccounted(m)'
  BY DEF RemoteAccounted
<1>2. RemoteAccounted(m) /\ m \notin lapsed /\ orphaned = {}
  BY <1>1 DEF RemoteInductive
<1>3. /\ hook'[m] = hook[m] /\ hpc'[m] = hpc[m] /\ hview'[m] = hview[m]
      /\ \A q \in Req : m \in todo[q] => m \in todo'[q]
  BY <1>1 DEF Unlock, TypeOK
<1>4. ASSUME RemoteOwed(m) PROVE RemoteOwed(m)'
  <2>1. PICK q \in Req :
          /\ ask[q].svc = "central"
          /\ \/ pc[q] \in Applied
             \/ pc[q] = "regen" /\ m \in todo[q]
                /\ (hook[m] = q => hpc[m] # "set")
    BY <1>4 DEF RemoteOwed
  <2>2. q \notin killed
    BY <1>2, <2>1 DEF Undecided, Applied
  <2>3. pc'[q] = pc[q]
    BY <1>1, <2>2
  <2> QED BY <1>1, <1>3, <2>1, <2>3 DEF RemoteOwed
<1> QED BY <1>1, <1>2, <1>3, <1>4, RemoteFrame

\* A step that leaves requests, refreshes, the table and ovn-remote alone.
LEMMA RemoteIdleStep ==
  ASSUME RemoteInductive,
         UNCHANGED <<ask, pc, todo, hook, hpc, hview, services, remote, lapsed,
                     missed>>
  PROVE  \A m \in Node : RemoteAccounted(m)'
BY DEF RemoteInductive, RemoteAccounted, RemoteOwed, RemoteFresh, Centrals,
       Enabled

\* Start sets what it read, and is counted as missed when that is outdated.
LEMMA RemoteBootStep ==
  ASSUME RemoteInductive, TypeOK, NEW n \in Node, BootStep(n)
  PROVE  \A m \in Node : RemoteAccounted(m)'
<1>1. CASE BootRemoteSet(n) /\ "switch" \in apps[n]
  <2>1. /\ UNCHANGED <<services, lapsed, ask, pc, todo, hook, hpc, hview>>
        /\ remote' = [remote EXCEPT ![n] = bview[n]]
        /\ missed' = IF bview[n] = Centrals THEN missed \ {n}
                                            ELSE missed \cup {n}
    BY <1>1 DEF BootRemoteSet, SetRemote, reqVars, hookVars
  <2>2. Centrals' = Centrals
    BY <2>1 DEF Centrals, Enabled
  <2>3. ASSUME NEW m \in Node PROVE RemoteAccounted(m)'
    <3>1. RemoteAccounted(m) /\ (RemoteOwed(m) => RemoteOwed(m)')
      BY <2>1 DEF RemoteInductive, RemoteOwed
    <3>2. m # n => remote'[m] = remote[m] /\ (m \in missed <=> m \in missed')
      BY <2>1 DEF EnvTypeOK, TypeOK
    <3>3. m = n => m \in missed' \/ remote'[m] = Centrals
      BY <2>1 DEF EnvTypeOK, TypeOK
    <3> QED BY <2>1, <2>2, <3>1, <3>2, <3>3 DEF RemoteAccounted, RemoteFresh
  <2> QED BY <2>3
<1>2. CASE ~(BootRemoteSet(n) /\ "switch" \in apps[n])
  BY <1>2, RemoteIdleStep
     DEF BootStep, Restart, BootActivate, BootRead, BootRemoteRead, BootWrite,
         BootRemoteSet, envVars, ghostVars, reqVars, hookVars
<1> QED BY <1>1, <1>2

---------------------------------------------------------------------------
(* Every step.                                                             *)

LEMMA RemoteHandleStep ==
  ASSUME RemoteInductive, TypeOK, NEW r \in Req, Handle(r)
  PROVE  \A m \in Node : RemoteAccounted(m)'
<1> USE DEF At
<1>1. ask[r].node \in Node /\ \A m \in Node : RemoteAccounted(m)
  BY DEF TypeOK, Ask, RemoteInductive
<1>2. UNCHANGED services => Centrals' = Centrals
  BY DEF Centrals, Enabled
<1>3. CASE Check(r) \/ LastCheck(r)
  <2>1. PICK step : Goto(r, step)
    BY <1>3 DEF Check, LastCheck
  <2>2. pc[r] \notin Applied /\ pc[r] # "regen"
    BY <1>3 DEF Check, LastCheck, Applied
  <2> QED BY <1>1, <1>2, <1>3, <2>1, <2>2, RemoteHandlerStep
          DEF Check, LastCheck, envVars, ghostVars, hookVars
<1>4. CASE CreateRow(r) \/ DeleteRow(r)
  <2>1. pc[r] \notin Applied /\ pc[r] # "regen"
    BY <1>4 DEF CreateRow, DeleteRow, Applied
  <2>2. PICK step :
          /\ Goto(r, step)
          /\ \/ UNCHANGED services
             \/ /\ step \in Applied
                /\ \/ AddService(ask[r].node, ask[r].svc)
                   \/ RemoveService(ask[r].node, ask[r].svc)
    BY <1>4 DEF CreateRow, DeleteRow, Applied
  <2>3. UNCHANGED <<ask, remote, lapsed, missed, hook, hpc, hview, todo>>
    BY <1>4 DEF CreateRow, DeleteRow, ghostVars, hookVars
  <2>4. CASE Centrals' = Centrals
    BY <1>1, <2>1, <2>2, <2>3, <2>4, RemoteHandlerStep
  <2>5. CASE Centrals' # Centrals
    <3>1. ask[r].svc = "central" /\ step \in Applied
      BY <1>1, <1>2, <2>2, <2>5, OtherRows
    <3> QED BY <2>2, <2>3, <3>1, RemoteChangeCarried
  <2> QED BY <2>4, <2>5
<1>5. CASE ReadEnv(r)
  <2>1. pc[r] # "regen"
    BY <1>5 DEF ReadEnv
  <2>2. /\ UNCHANGED <<ask, remote, missed, hook, hpc, hview, todo>>
        /\ Centrals' = Centrals
    BY <1>2, <1>5 DEF ReadEnv, envVars, hookVars
  <2>3. CASE Goto(r, "writeEnv") /\ UNCHANGED lapsed
    BY <1>1, <2>1, <2>2, <2>3, RemoteHandlerStep DEF Applied
  <2>4. CASE EndUncarried(r)
    BY <1>1, <2>1, <2>2, <2>4, RemoteHandlerStep
       DEF EndUncarried, TypeOK, EnvTypeOK
  <2> QED BY <1>5, <2>3, <2>4 DEF ReadEnv
<1>6. CASE \/ WriteEnv(r) \/ StartApps(r) \/ Listen(r) \/ Leave(r)
           \/ WaitRemoved(r) \/ Rename(r) \/ StopApps(r)
  <2>1. PICK step \in Applied : Goto(r, step)
    BY <1>6 DEF WriteEnv, StartApps, Listen, Leave, WaitRemoved, Rename,
                StopApps, Applied
  <2>2. pc[r] # "regen"
    BY <1>6 DEF WriteEnv, StartApps, Listen, Leave, WaitRemoved, Rename, StopApps
  <2>3. /\ UNCHANGED <<ask, remote, lapsed, missed, hook, hpc, hview, todo>>
        /\ UNCHANGED services
    BY <1>6 DEF WriteEnv, StartApps, Listen, Leave, WaitRemoved, Rename,
                StopApps, envVars, ghostVars, hookVars
  <2> QED BY <1>1, <1>2, <2>1, <2>2, <2>3, RemoteHandlerStep
<1>7. CASE Rollback(r)
  <2>1. pc[r] # "regen" /\ EndUncarried(r)
    BY <1>7 DEF Rollback
  <2>2. UNCHANGED <<ask, remote, missed, hook, hpc, hview, todo>>
    BY <1>7 DEF Rollback, hookVars
  <2>3. CASE ask[r].svc = "central"
    BY <2>1, <2>2, <2>3, RemoteChangeCarried DEF EndUncarried
  <2>4. CASE ask[r].svc # "central"
    <3>1. Centrals' = Centrals
      BY <1>1, <1>7, <2>4, OtherRows DEF Rollback
    <3> QED BY <1>1, <2>1, <2>2, <2>4, <3>1, RemoteHandlerStep DEF EndUncarried
  <2> QED BY <2>3, <2>4
<1>8. CASE Reply(r)
  <2>1. pc[r] # "regen"
    BY <1>8 DEF Reply
  <2>2. /\ UNCHANGED <<ask, remote, missed, hook, hpc, hview>>
        /\ Centrals' = Centrals
    BY <1>2, <1>8 DEF Reply, envVars, hookVars
  <2>3. CASE /\ Regenerates(r) /\ Goto(r, "regen")
             /\ todo' = [todo EXCEPT ![r] = Refreshed(r)]
    <3>1. ask[r].svc = "central" /\ pc'[r] = "regen"
      BY <2>3 DEF Regenerates, Goto, TypeOK
    <3>2. \A n \in Node : n \in todo'[r]
      BY <2>3 DEF Refreshed, TypeOK
    <3>3. \A n \in Node : hook'[n] # r
      BY <2>1, <2>2, RequestAssumption DEF RemoteInductive, HookConsistent
    <3> QED BY <2>2, <3>1, <3>2, <3>3 DEF RemoteAccounted, RemoteOwed
  <2>4. CASE ~Regenerates(r) /\ Goto(r, "idle") /\ UNCHANGED <<todo, lapsed>>
    BY <1>1, <2>1, <2>2, <2>4, RemoteHandlerStep DEF Regenerates
  <2>5. CASE EndUncarried(r) /\ UNCHANGED todo
    BY <1>1, <2>1, <2>2, <2>5, RemoteHandlerStep
       DEF EndUncarried, TypeOK, EnvTypeOK
  <2> QED BY <1>8, <2>3, <2>4, <2>5 DEF Reply
<1>9. CASE RegenEnd(r)
  <2>1. /\ UNCHANGED <<services, remote, lapsed, missed, ask, hook, hpc, hview,
                       todo>>
        /\ Goto(r, "idle") /\ todo[r] = {} /\ pc[r] = "regen"
    BY <1>9 DEF RegenEnd, envVars, ghostVars, hookVars
  <2>2. \A q \in Req \ {r} : pc'[q] = pc[q]
    BY <2>1 DEF Goto, TypeOK
  <2>3. ASSUME NEW n \in Node, RemoteOwed(n) PROVE RemoteOwed(n)'
    BY <2>1, <2>2, <2>3 DEF RemoteOwed, Applied
  <2> QED BY <1>1, <1>2, <2>1, <2>3, RemoteFrame
<1> QED BY <1>3, <1>4, <1>5, <1>6, <1>7, <1>8, <1>9 DEF Handle

LEMMA RemoteIssueStep ==
  ASSUME RemoteInductive, TypeOK, NEW r \in Req, Issue(r)
  PROVE  \A m \in Node : RemoteAccounted(m)'
<1>1. /\ UNCHANGED <<services, remote, lapsed, missed, hook, hpc, hview, todo>>
      /\ Goto(r, "check") /\ pc[r] = "idle"
      /\ \A q \in Req \ {r} : ask'[q] = ask[q]
  BY DEF Issue, envVars, ghostVars, hookVars, TypeOK
<1>2. \A q \in Req \ {r} : pc'[q] = pc[q]
  BY <1>1 DEF Goto, TypeOK
<1>3. ASSUME NEW n \in Node, RemoteOwed(n) PROVE RemoteOwed(n)'
  BY <1>1, <1>2, <1>3 DEF RemoteOwed, Applied
<1>4. Centrals' = Centrals
  BY <1>1 DEF Centrals, Enabled
<1> QED BY <1>1, <1>3, <1>4, RemoteFrame DEF RemoteInductive

LEMMA RemoteInductiveInit == Init => RemoteInductive
<1> SUFFICES ASSUME Init PROVE RemoteInductive
  OBVIOUS
<1>1. PICK C \in SUBSET Node : InitWith(C)
  BY DEF Init
<1>2. Centrals = C
  BY <1>1 DEF InitWith, Centrals, Enabled
<1>3. \A n \in Node : RemoteFresh(n) /\ hpc[n] = "free"
  BY <1>1, <1>2 DEF InitWith, Init, RemoteFresh
<1> QED BY <1>3, EnvInductiveInit, RegenCentralInit
        DEF RemoteInductive, EnvInductive, RemoteAccounted

LEMMA RemoteInductiveNext ==
  TypeOK /\ EnvInductive /\ RemoteInductive /\ [Next]_vars => RemoteInductive'
<1> SUFFICES ASSUME TypeOK, EnvInductive, RemoteInductive, [Next]_vars
             PROVE  \A m \in Node : RemoteAccounted(m)'
  BY EnvInductiveNext, RegenCentralNext DEF EnvInductive, RemoteInductive
<1> DEFINE Goal == \A m \in Node : RemoteAccounted(m)'
<1> HIDE DEF Goal
<1>1. ASSUME NEW r \in Req, Issue(r) PROVE Goal
  BY <1>1, RemoteIssueStep DEF Goal
<1>2. ASSUME NEW r \in Req, Cancel(r) PROVE Goal
  BY <1>2, RemoteIdleStep DEF Cancel, envVars, ghostVars, hookVars, Goal
<1>3. ASSUME NEW r \in Req, Handle(r) PROVE Goal
  BY <1>3, RemoteHandleStep DEF Goal
<1>4. ASSUME NEW r \in Req, NEW n \in Node,
             RefreshLock(r, n) \/ RefreshLost(r, n)
      PROVE  Goal
  BY <1>4, RemoteLockStep, RemoteLostStep DEF Goal
<1>5. ASSUME NEW n \in Node, RefreshStep(n) PROVE Goal
  BY <1>5, RemoteRefreshStep DEF Goal
<1>6. ASSUME NEW n \in Node, Crash(n) PROVE Goal
  BY <1>6, RemoteCrashStep DEF Goal
<1>7. ASSUME NEW n \in Node, BootStep(n) PROVE Goal
  BY <1>7, RemoteBootStep DEF Goal
<1>8. ASSUME NEW n \in Node, DatabaseStep(n) PROVE Goal
  BY <1>8, RemoteIdleStep DEF DatabaseStep, envVars, ghostVars, reqVars, hookVars, Goal
<1>9. ASSUME UNCHANGED vars PROVE Goal
  BY <1>9, RemoteIdleStep DEF vars, envVars, ghostVars, reqVars, hookVars, Goal
<1>10. Goal
  BY <1>1, <1>2, <1>3, <1>4, <1>5, <1>6, <1>7, <1>8, <1>9 DEF Next, Settled
<1> QED BY <1>10 DEF Goal

\* However handlers, refreshes, cancellations and crashes interleave, a node
\* whose ovn-remote is not the table is owed a refresh or given up, in every
\* state.
THEOREM RemoteAccountedAlways == Spec => []RemoteInductive
<1>1. Init => RemoteInductive
  BY RemoteInductiveInit
<1>2. TypeOK /\ EnvInductive /\ RemoteInductive /\ [Next]_vars
      => RemoteInductive'
  BY RemoteInductiveNext
<1> QED BY <1>1, <1>2, TypeCorrect, EnvAccountedAlways, PTL DEF Spec

\* Between requests ovn-remote of every node that was not given up lists
\* exactly the nodes whose central service is enabled.
THEOREM RemoteFollows == Spec => []RemoteFollowsCentrals
<1>1. TypeOK /\ RemoteInductive => RemoteFollowsCentrals
  <2> SUFFICES ASSUME TypeOK, RemoteInductive, Quiet, NEW n \in Node
               PROVE  n \in lapsed \cup missed \/ RemoteFresh(n)
    BY DEF RemoteFollowsCentrals
  <2>1. RemoteAccounted(n)
    BY DEF RemoteInductive
  <2>2. ~RemoteOwed(n)
    BY DEF RemoteOwed, Quiet, Applied
  <2>3. hpc[n] # "set"
    BY HookHeld DEF RemoteInductive, HookConsistent, Quiet
  <2> QED BY <2>1, <2>2, <2>3 DEF RemoteAccounted
<1> QED BY <1>1, TypeCorrect, RemoteAccountedAlways, PTL
===========================================================================
