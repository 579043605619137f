----------------------------- MODULE MCKeyboard -----------------------------
(* Small instances of Keyboard for TLC. *)
EXTENDS Keyboard, TLC

CONSTANTS a, b, c, m, ctrl

\* Whole-state reports with no key twice: a clear, and for every key a body
\* with the modifiers, a hole or a media key, and then the key.
DistinctReports ==
  {[mods |-> {}, keys |-> EmptyBuffer]} \cup
  {[mods |-> Modifiers,
    keys |-> [i \in Slots |-> IF i = 1 /\ MediaKeys # {} THEN m
                              ELSE IF i = 2 THEN k ELSE NoKey]] : k \in NormalKeys}

Symmetry == Permutations(NormalKeys) \cup Permutations(Releasers)
============================================================================
