-------------------------------- MODULE Panel --------------------------------
(***************************************************************************)
(* How the display of the device is set up (screen.c) and what it says     *)
(* about the HDMI input (display.go), while the native process, which      *)
(* owns it, may be replaced by a new one.                                  *)
(*                                                                         *)
(* A UI call is one step (cgoLock).  The USB label is kept up to date the  *)
(* same way as the HDMI label.                                             *)
(***************************************************************************)
EXTENDS Naturals, FiniteSets

CONSTANTS Rotations,   \* rotations users ask for
          Updates      \* bound: display updates running at the same time

VARIABLES
  native,   \* the native process runs (shared with the host display)
  panel,    \* the state of screen.c
  option,   \* NativeOptions.DisplayRotation, read when the program starts
  wanted,   \* config.DisplayRotation
  turn,     \* the handler of rpcSetDisplayRotation
  ready,    \* lastVideoState.Ready
  label,    \* hdmi_status_label: its text and LV_STATE_CHECKED
  update,   \* the goroutines of requestDisplayUpdate
  mixed     \* history: the last update did not run alone

vars == <<native, panel, option, wanted, turn, ready, label, update, mixed>>

----------------------------------------------------------------------------
(* screen.c *)

LvRotations == {0, 90, 180, 270}

\* apply_touch_calibration: the offset of 90 degrees, or none.
Calibrated(p) ==
  IF ~p.touch THEN p ELSE [p EXCEPT !.offset = p.rotation = 90]

\* get_style_flex_screen and get_style_flex_screen_menu create a style, with
\* its default padding, when they are first asked for it.
GetStyle(p) == IF p.pads = "none" THEN [p EXCEPT !.pads = "44/24"] ELSE p

Pads(p) ==
  CASE p.rotation = 90  -> [p EXCEPT !.pads = "24/44"]
    [] p.rotation = 270 -> [p EXCEPT !.pads = "44/24"]
    [] OTHER            -> p

\* lvgl_set_rotation: an invalid rotation is not shown, but kept.
Turned(p, r) ==
  Pads(GetStyle(Calibrated([p EXCEPT !.shown = IF r \in LvRotations THEN r ELSE @,
                                     !.rotation = r])))

\* lvgl_init: the rotation is set before ui_init creates the screens.
Fresh(r) ==
  GetStyle(Turned([shown |-> 0, rotation |-> 270, touch |-> FALSE, offset |-> FALSE,
                   pads |-> "none"], r))

\* evdev_discovery_cb, some time after lvgl_init has started the discovery.
\* (Mutant: without calibrating what was found.)
TouchFoundRaw ==
  /\ native /\ ~panel.touch
  /\ panel' = [panel EXCEPT !.touch = TRUE]
  /\ UNCHANGED <<native, option, wanted, turn, ready, label, update, mixed>>
TouchFound ==
  /\ native /\ ~panel.touch
  /\ panel' = Calibrated([panel EXCEPT !.touch = TRUE])
  /\ UNCHANGED <<native, option, wanted, turn, ready, label, update, mixed>>

----------------------------------------------------------------------------
(* rpcSetDisplayRotation: the configuration first, then the panel. *)

SetRotation(r) ==
  /\ ~turn /\ r # wanted
  /\ wanted' = r /\ turn' = TRUE
  /\ UNCHANGED <<native, panel, option, ready, label, update, mixed>>

Turn ==
  /\ turn
  /\ panel' = IF native THEN Turned(panel, wanted) ELSE panel
  /\ turn' = FALSE
  /\ UNCHANGED <<native, option, wanted, ready, label, update, mixed>>

----------------------------------------------------------------------------
(* updateDisplay: the text and the colour of a status are two calls. *)

Idle == [pc |-> "idle", value |-> FALSE]
Running(u) == update[u].pc # "idle"
Requested == \E u \in Updates : ~Running(u) /\ update' = [update EXCEPT ![u].pc = "text"]

\* OnVideoStateChange.
VideoState ==
  /\ ready' = ~ready
  /\ Requested
  /\ UNCHANGED <<native, panel, option, wanted, turn, label, mixed>>

\* Calls of ctrl.c; without a native process they fail.
jetkvm_ui_set_text(text) == label' = IF native THEN [label EXCEPT !.text = text] ELSE label
\* jetkvm_ui_add_state or jetkvm_ui_clear_state.
jetkvm_ui_state(on) == label' = IF native THEN [label EXCEPT !.checked = on] ELSE label

\* UpdateLabelIfChanged, after the branch on lastVideoState.Ready.
UpdateText(u) ==
  /\ update[u].pc = "text"
  /\ jetkvm_ui_set_text(ready)
  /\ update' = [update EXCEPT ![u] = [pc |-> "state", value |-> ready]]
  /\ mixed' = \E v \in Updates \ {u} : update[v].pc = "state"
  /\ UNCHANGED <<native, panel, option, wanted, turn, ready>>

\* UIObjAddState or UIObjClearState.
UpdateState(u) ==
  /\ update[u].pc = "state"
  /\ jetkvm_ui_state(update[u].value)
  /\ update' = [update EXCEPT ![u] = Idle]
  /\ UNCHANGED <<native, panel, option, wanted, turn, ready, mixed>>

----------------------------------------------------------------------------
NewLabel == [text |-> FALSE, checked |-> FALSE]

\* Start-up: initUI and initDisplay.
Init ==
  /\ native = TRUE
  /\ option \in Rotations /\ wanted = option
  /\ panel = Fresh(option)
  /\ turn = FALSE /\ ready = FALSE
  /\ label = NewLabel
  /\ LET first == CHOOSE u \in Updates : TRUE
     IN update = [u \in Updates |-> IF u = first THEN [Idle EXCEPT !.pc = "text"] ELSE Idle]
  /\ mixed = FALSE

Stimulus == VideoState \/ \E r \in Rotations : SetRotation(r)
Step == TouchFound \/ Turn \/ \E u \in Updates : UpdateText(u) \/ UpdateState(u)

----------------------------------------------------------------------------
(* Properties. *)

\* Every variable has its type.
TypeOK ==
  /\ {native, turn, ready, mixed} \subseteq BOOLEAN
  /\ panel \in [shown : LvRotations, rotation : Rotations, touch : BOOLEAN,
                offset : BOOLEAN, pads : {"44/24", "24/44"}]
  /\ option \in Rotations /\ wanted \in Rotations
  /\ label \in [text : BOOLEAN, checked : BOOLEAN]
  /\ update \in [Updates -> [pc : {"idle", "text", "state"}, value : BOOLEAN]]

Rest == ~turn /\ \A u \in Updates : ~Running(u)

\* What is shown, where the touch screen is touched and how wide the margins
\* are go together, in both orientations the program offers: the touch screen
\* is found at any time, and styles exist before there are screens.
PanelOriented ==
  native /\ panel.rotation \in {90, 270} =>
    /\ panel.shown = panel.rotation
    /\ panel.pads = (IF panel.rotation = 90 THEN "24/44" ELSE "44/24")
    /\ panel.touch => panel.offset = (panel.rotation = 90)

\* At rest, when the last update ran alone, the label's text and its colour
\* both say what the main process knows, also in a new native process.
LabelFollowsVideo ==
  native /\ Rest /\ ~mixed => label = [text |-> ready, checked |-> ready]
============================================================================
