---------------------------- MODULE KeyboardMacro ----------------------------
(***************************************************************************)
(* Keyboard macro execution (jsonrpc.go, keyboard_macro_exec.go): one      *)
(* goroutine per caller of rpcExecuteKeyboardMacro (the HID queue, an MQTT *)
(* command), and the one global keyboardMacroCancel through which session  *)
(* close, session handoff and the cancel message stop "the" macro.         *)
(*                                                                         *)
(* A macro is the list convertConfigMacroToHidSteps builds: a press and a  *)
(* release for every configured step, each followed by a delay.  A report  *)
(* replaces the whole keyboard state, so it is enough to know whose press  *)
(* is down.                                                                *)
(***************************************************************************)
EXTENDS Naturals, FiniteSets

CONSTANTS Threads,   \* goroutines that execute macros
          None,
          MaxPairs   \* bound: configured steps of a macro

ASSUME MacroAssumption == None \notin Threads /\ MaxPairs \in Nat \ {0}

VARIABLES
  pc,        \* where each goroutine is in rpcExecuteKeyboardMacro
  pairs,     \* press/release pairs its macro has
  idx,       \* index of the step it is at
  cancelFn,  \* keyboardMacroCancel: whose context it cancels
  ctxDone,   \* goroutines whose current context is cancelled
  kbd,       \* whose press the keyboard state shows
  hidReady,  \* usbReadyForHidReports()
  spoiled    \* history: goroutines whose macro had a report fail, or whose
             \* final clear was skipped

macroVars == <<pc, pairs, idx, cancelFn, ctxDone, kbd, hidReady, spoiled>>

Running(t) == pc[t] \in {"report", "sleep"}
IsPress(i) == i % 2 = 0
LastStep(t) == 2 * pairs[t] - 1

MacroTypeOK ==
  /\ pc \in [Threads -> {"idle", "register", "report", "sleep", "finish"}]
  /\ pairs \in [Threads -> 0..MaxPairs]
  /\ idx \in [Threads -> 0..(2 * MaxPairs - 1)]
  /\ cancelFn \in Threads \cup {None}
  /\ ctxDone \subseteq Threads
  /\ kbd \in Threads \cup {None}
  /\ hidReady \in BOOLEAN
  /\ spoiled \subseteq Threads

MacroInit ==
  /\ pc = [t \in Threads |-> "idle"]
  /\ pairs = [t \in Threads |-> 0]
  /\ idx = [t \in Threads |-> 0]
  /\ cancelFn = None /\ ctxDone = {} /\ kbd = None
  /\ hidReady = TRUE /\ spoiled = {}

----------------------------------------------------------------------------

\* cancelKeyboardMacro(): call the registered cancel function and forget it.
cancelKeyboardMacro ==
  /\ cancelFn' = None
  /\ ctxDone' = IF cancelFn = None THEN ctxDone ELSE ctxDone \cup {cancelFn}

\* A cancel message, a session close or a session handoff.
CancelRequest ==
  /\ cancelKeyboardMacro
  /\ UNCHANGED <<pc, pairs, idx, kbd, hidReady, spoiled>>

\* rpcExecuteKeyboardMacro begins by cancelling what is registered.
Execute(t, n) ==
  /\ pc[t] = "idle"
  /\ cancelKeyboardMacro
  /\ pc' = [pc EXCEPT ![t] = "register"]
  /\ pairs' = [pairs EXCEPT ![t] = n]
  /\ UNCHANGED <<idx, kbd, hidReady, spoiled>>

\* A new context; its cancel function replaces whatever is registered.
Register(t) ==
  /\ pc[t] = "register"
  /\ cancelFn' = t
  /\ ctxDone' = ctxDone \ {t}
  /\ spoiled' = spoiled \ {t}
  /\ idx' = [idx EXCEPT ![t] = 0]
  /\ pc' = [pc EXCEPT ![t] = "report"]
  /\ UNCHANGED <<pairs, kbd, hidReady>>

\* rpcKeyboardReport of the step: a write error still changes the keyboard
\* state, and then ends the macro.  While USB is not ready the report is
\* skipped without an error; a release step then still marks every key as up
\* (UpdateKeysDown), a press step changes nothing.
Report(t) ==
  /\ pc[t] = "report"
  /\ \/ /\ hidReady
        /\ kbd' = IF IsPress(idx[t]) THEN t ELSE None
        /\ \/ pc' = [pc EXCEPT ![t] = "sleep"] /\ UNCHANGED spoiled
           \/ pc' = [pc EXCEPT ![t] = "finish"] /\ spoiled' = spoiled \cup {t}
     \/ /\ ~hidReady
        /\ pc' = [pc EXCEPT ![t] = "sleep"]
        /\ kbd' = IF IsPress(idx[t]) THEN kbd ELSE None
        /\ UNCHANGED spoiled
  /\ UNCHANGED <<pairs, idx, cancelFn, ctxDone, hidReady>>

\* The delay runs out: on to the next step.  When the context is cancelled as
\* well, the select takes either, so a cancelled macro may send more reports.
DelayElapses(t) ==
  /\ pc[t] = "sleep"
  /\ IF idx[t] = LastStep(t)
       THEN pc' = [pc EXCEPT ![t] = "finish"] /\ UNCHANGED idx
       ELSE pc' = [pc EXCEPT ![t] = "report"] /\ idx' = [idx EXCEPT ![t] = @ + 1]
  /\ UNCHANGED <<pairs, cancelFn, ctxDone, kbd, hidReady, spoiled>>

\* Mutant: a cancelled macro returns without resetting the keyboard.
CancelledNoClear(t) ==
  /\ pc[t] = "sleep"
  /\ t \in ctxDone
  /\ pc' = [pc EXCEPT ![t] = "finish"]
  /\ UNCHANGED <<pairs, idx, cancelFn, ctxDone, kbd, hidReady, spoiled>>

\* Mutant: a cancelled macro resets the keyboard and goes on.
CancelledGoesOn(t) ==
  /\ pc[t] = "sleep"
  /\ t \in ctxDone
  /\ kbd' = None
  /\ pc' = [pc EXCEPT ![t] = "report"]
  /\ UNCHANGED <<pairs, idx, cancelFn, ctxDone, hidReady, spoiled>>

\* The context is done: clear the keyboard state and return.
Cancelled(t) ==
  /\ pc[t] = "sleep"
  /\ t \in ctxDone
  /\ IF hidReady THEN kbd' = None /\ UNCHANGED spoiled
                 ELSE spoiled' = spoiled \cup {t} /\ UNCHANGED kbd
  /\ pc' = [pc EXCEPT ![t] = "finish"]
  /\ UNCHANGED <<pairs, idx, cancelFn, ctxDone, hidReady>>

\* setKeyboardMacroCancel(nil), whoever is registered by now.
Finish(t) ==
  /\ pc[t] = "finish"
  /\ cancelFn' = None
  /\ pc' = [pc EXCEPT ![t] = "idle"]
  /\ UNCHANGED <<pairs, idx, ctxDone, kbd, hidReady, spoiled>>

ReadyChange ==
  /\ hidReady' = ~hidReady
  /\ UNCHANGED <<pc, pairs, idx, cancelFn, ctxDone, kbd, spoiled>>

MacroStep(t) ==
  Register(t) \/ Report(t) \/ DelayElapses(t) \/ Cancelled(t) \/ Finish(t)

MacroNext ==
  \/ \E t \in Threads : MacroStep(t) \/ \E n \in 1..MaxPairs : Execute(t, n)
  \/ CancelRequest
  \/ ReadyChange

MacroSpec == MacroInit /\ [][MacroNext]_macroVars

\* A macro that was started runs on: its delays elapse and its calls return.
FairMacroSpec == MacroSpec /\ \A t \in Threads : WF_macroVars(MacroStep(t))

----------------------------------------------------------------------------

\* A macro that has ended, run to its last step or cancelled anywhere, leaves
\* no press of its own down, unless a report failed or its clear was skipped.
EndedMacroHoldsNothing ==
  \A t \in Threads : pc[t] = "idle" /\ t \notin spoiled => kbd # t

\* A cancelled macro comes to its end.
CancelledMacroEnds ==
  \A t \in Threads : (t \in ctxDone /\ Running(t)) ~> (pc[t] = "idle")
============================================================================
