--------------------------- MODULE MCNativeBridge ---------------------------
(***************************************************************************)
(* The bounds of the run: two calls against two ticks on one stream; a     *)
(* stream that fails while calls, or while ticks, report; and ticks enough *)
(* to fill every queue and leave one of them waiting with the lock held.   *)
(***************************************************************************)
EXTENDS NativeBridge

MCScopes ==
  {[tick |-> 1, touch |-> 1, other |-> 2, breaks |-> 0],
   [tick |-> 1, touch |-> 0, other |-> 2, breaks |-> 1],
   [tick |-> 2, touch |-> 1, other |-> 0, breaks |-> 1],
   [tick |-> 6, touch |-> 1, other |-> 0, breaks |-> 0]}
==============================================================================
