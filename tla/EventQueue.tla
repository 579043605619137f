----------------------------- MODULE EventQueue -----------------------------
(***************************************************************************)
(* What the bridge between the C code and the main process promises: one   *)
(* queue of events for each kind.  Events leave it in the order in which   *)
(* they were posted, each once; some of those that wait may be lost, and   *)
(* lossy says that this has happened.                                      *)
(***************************************************************************)
EXTENDS Naturals, Sequences

CONSTANT Kinds

VARIABLES
  posted,    \* per kind: events posted so far, which are numbered from 1
  waiting,   \* per kind: the numbers of those that may still be handled
  handled,   \* per kind: the numbers of those that were, in that order
  lossy      \* events may have been lost

qvars == <<posted, waiting, handled, lossy>>

QInit ==
  /\ posted = [k \in Kinds |-> 0] /\ waiting = [k \in Kinds |-> {}]
  /\ handled = [k \in Kinds |-> <<>>] /\ lossy = FALSE

Post(k) ==
  /\ posted' = [posted EXCEPT ![k] = @ + 1]
  /\ waiting' = [waiting EXCEPT ![k] = @ \cup {posted[k] + 1}]
  /\ UNCHANGED <<handled, lossy>>

\* The oldest event that waits is handled.
Deliver(k) ==
  /\ \E n \in waiting[k] :
       /\ \A m \in waiting[k] : n <= m
       /\ waiting' = [waiting EXCEPT ![k] = @ \ {n}]
       /\ handled' = [handled EXCEPT ![k] = Append(@, n)]
  /\ UNCHANGED <<posted, lossy>>

Lose ==
  /\ waiting' \in [Kinds -> SUBSET Nat]
  /\ \A k \in Kinds : waiting'[k] \subseteq waiting[k]
  /\ lossy' = TRUE
  /\ UNCHANGED <<posted, handled>>

QNext == Lose \/ \E k \in Kinds : Post(k) \/ Deliver(k)

QSpec == QInit /\ [][QNext]_qvars
==============================================================================
