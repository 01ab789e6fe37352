-------------------------- MODULE MCCertificates --------------------------
EXTENDS Certificates, TLC

\* The chassis service on every node, the switch on one of them.
OneSwitch ==
  {(Node \X {"chassis"}) \cup {<<CHOOSE n \in Node : TRUE, "switch">>}}

\* Nodes that have the chassis service; the switch is there to be enabled.
Chassis == {Node \X {"chassis"}}

\* Faults happen while MicroOVN's own CA is in use.
FewFaults == ca \in Custom => faults = 0

CertSymmetry == Permutations(Req) \cup Permutations(Node)
===========================================================================
