---------------------------- MODULE Replication ---------------------------
(***************************************************************************)
(* A value that lives in one place and is copied to others.                *)
(*                                                                         *)
(* The source may change at any moment, and then no copy is known to be    *)
(* good any more.  A copy may be overwritten with anything while its place *)
(* is not settled; a place becomes settled only together with a copy of    *)
(* what the source holds at that moment.  So a settled copy never differs  *)
(* from the source.                                                        *)
(***************************************************************************)
CONSTANTS Place, Value

VARIABLES
  source,    \* the value
  copy,      \* copy[p]: what place p holds
  settled    \* places whose copy is known to be good

vars == <<source, copy, settled>>

Init ==
  /\ source \in Value
  /\ copy = [p \in Place |-> source]
  /\ settled \in SUBSET Place

\* The source changes: nobody is settled.
Change ==
  /\ source' \in Value
  /\ settled' = {}
  /\ UNCHANGED copy

\* Place p receives the current value and may settle.
Deliver(p) ==
  /\ copy' = [copy EXCEPT ![p] = source]
  /\ settled' \in SUBSET (settled \cup {p})
  /\ UNCHANGED source

\* Place p receives any other value.
Overwrite(p) ==
  /\ \E v \in Value : copy' = [copy EXCEPT ![p] = v]
  /\ settled' \in SUBSET (settled \ {p})
  /\ UNCHANGED source

\* Places are given up.
Unsettle ==
  /\ settled' \in SUBSET settled
  /\ UNCHANGED <<source, copy>>

Next ==
  \/ Change
  \/ \E p \in Place : Deliver(p) \/ Overwrite(p)
  \/ Unsettle

Spec == Init /\ [][Next]_vars

\* A settled copy is the value.
SettledIsCurrent == \A p \in settled : copy[p] = source
===========================================================================
