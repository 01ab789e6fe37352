------------------------------- MODULE MCBgp -------------------------------
EXTENDS Bgp, TLC

CONSTANTS n1, n2

Ids == n1 :> 1 @@ n2 :> 2
NamesNested == {<<n1, n2>>}

\* One interface or one bridge.
OneLink == {o \in Options : ~o.manual /\ Cardinality(o.ifaces \cup o.bridges) = 1}

\* An interface, or nothing at all: then only BIRD is started.
Offered == {o \in OneLink : o.ifaces # {}} \cup {NoOptions}

\* A bridge of a user is taken up, or was.
TakesUp ==
  \/ \E r \in Req : ask[r].op = "tags"
  \/ node[n1].tagged \cap UserBridge # {}
  \/ ~(UserBridge \subseteq node[n1].bridges)

AtMost(events) == issued + faults <= events

\* All requests are sent to n1.  A setup of the cluster, or bridges that a user
\* tagged, share with one more request or fault; otherwise there are two, and a
\* third request does not overlap both others.
Scenario ==
  /\ \A r \in Req : pc[r] # "idle" => ask[r].node = n1
  /\ IF conf.cluster \/ (\E r \in Req : ask[r].op = "setup") \/ TakesUp
     THEN AtMost(2)
     ELSE AtMost(3) /\ (issued > 0 => plugged = [n \in Node |-> Iface])
  /\ issued = 3 => \E r \in Req : pc[r] = "idle"

Symmetry == Permutations(Req) \cup Permutations(UserBridge)
===========================================================================
