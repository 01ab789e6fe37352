--------------------------- MODULE MCMembership ---------------------------
EXTENDS Membership, TLC

\* Automatic, a node for workloads, a node for the databases.
Choices == {AutoChoice, {"chassis", "switch"}, {"central"}}

Asked == {life[n].ask : n \in members}

\* Two nodes share two removals, changes of the option and faults, and the second
\* chooses its services.  With a third either all nodes are automatic, and there
\* is one fault, or all are for the databases, one leaves, and the third joins
\* when the second has.
Scenario ==
  IF At(3, "out")
  THEN /\ life[1].ask = AutoChoice \/ Asked = {{"central"}}
       /\ changes + leaves + faults <= 2
  ELSE \/ Asked = {AutoChoice} /\ faults <= 1 /\ changes + leaves = 0
       \/ Asked = {{"central"}} /\ changes + faults = 0 /\ ~Joins(2)
===========================================================================
