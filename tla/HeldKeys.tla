------------------------------ MODULE HeldKeys ------------------------------
(***************************************************************************)
(* What the key buffer promises: a set of at most Capacity held keys.      *)
(* Pressing one key too many drops them all (the host is told              *)
(* ErrorRollOver); releasing a key leaves every other key held.            *)
(***************************************************************************)
EXTENDS Naturals, FiniteSets

CONSTANTS Keys, Capacity,
          Bodies   \* what whole-state reports may ask for

VARIABLE held

HInit == held = {}

HPress(k) ==
  \/ k \in held /\ UNCHANGED held
  \/ /\ k \notin held
     /\ Cardinality(held) < Capacity
     /\ held' = held \cup {k}
  \/ /\ k \notin held
     /\ Cardinality(held) = Capacity
     /\ held' = {}

HRelease(k) == held' = held \ {k}

HReport(S) == held' = S

HNext ==
  \/ \E k \in Keys : HPress(k) \/ HRelease(k)
  \/ \E S \in Bodies : HReport(S)

HSpec == HInit /\ [][HNext]_held
============================================================================
