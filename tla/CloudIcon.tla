------------------------------ MODULE CloudIcon ------------------------------
(***************************************************************************)
(* What the home screen says about the cloud connection: updateDisplay     *)
(* shows or hides an icon, names a picture for it and starts or stops its  *)
(* blinking (display.go), while the connection changes (cloud.go) and the  *)
(* native process, which owns the icon, may be replaced by a new one.      *)
(*                                                                         *)
(* Two of these calls miss: the name of the picture is taken for the path  *)
(* of a file, and the blinking fades an object that no screen has.         *)
(*                                                                         *)
(* cloudConnectionState is read without its lock, twice in an update.      *)
(***************************************************************************)
EXTENDS Naturals, FiniteSets

CONSTANTS Drawers,    \* bound: display updates running at the same time
          Blinkers    \* bound: blinking goroutines that have not ended

VARIABLES
  native,      \* the native process runs (shared with the host display)
  configured,  \* there is a cloud token
  cloud,       \* cloudConnectionState
  icon,        \* cloud_status_icon: its flags and the source of its picture
  draw,        \* the goroutines of requestDisplayUpdate
  blink,       \* cloudBlinkTicker and the goroutine of cloudBlinkCancel
  blinker,     \* the goroutines of doCloudBlink
  overlapped   \* history: the last update did not run alone

CloudStates == {"not_configured", "disconnected", "connecting", "connected"}
None == "none"

----------------------------------------------------------------------------
(* ctrl.c: calls by name.  Without a native process they fail. *)

\* str_to_lv_obj_flag; any other name is refused.
LvObjFlags ==
  {"LV_OBJ_FLAG_HIDDEN", "LV_OBJ_FLAG_CLICKABLE", "LV_OBJ_FLAG_SCROLLABLE",
   "LV_OBJ_FLAG_CLICK_FOCUSABLE", "LV_OBJ_FLAG_SCROLL_ON_FOCUS",
   "LV_OBJ_FLAG_SCROLL_CHAIN", "LV_OBJ_FLAG_PRESS_LOCK", "LV_OBJ_FLAG_OVERFLOW_VISIBLE"}

jetkvm_ui_add_flag(flag) ==
  icon' = IF native THEN [icon EXCEPT !.flags = @ \cup ({flag} \cap LvObjFlags)] ELSE icon
jetkvm_ui_clear_flag(flag) ==
  icon' = IF native THEN [icon EXCEPT !.flags = @ \ ({flag} \cap LvObjFlags)] ELSE icon

\* Sources of lv_img_set_src: a compiled picture, or a string, which is the path
\* of a file.  There is no such file, and nothing is drawn.
Compiled(name) == [kind |-> "compiled", name |-> name]
File(path) == [kind |-> "file", name |-> path]
jetkvm_ui_set_image(image) ==
  icon' = IF native THEN [icon EXCEPT !.src = File(image)] ELSE icon

\* ui_get_obj finds no object of the name the blinking uses, so a fade changes
\* nothing.
jetkvm_ui_fade == UNCHANGED icon

\* create_screen_home_screen.
NewIcon == [flags |-> {}, src |-> Compiled("cloud")]

----------------------------------------------------------------------------
(* cloud.go *)

Drawing(d) == draw[d].pc # "idle"
Requested == \E d \in Drawers : ~Drawing(d) /\ draw' = [draw EXCEPT ![d].pc = "show"]

\* setCloudConnectionState looks at the state it leaves, not at the new one.
SetCloud(state) ==
  /\ cloud' = IF cloud = "disconnected" /\ ~configured THEN "not_configured" ELSE state
  /\ Requested
  /\ UNCHANGED <<native, icon, blink, blinker, overlapped>>

\* The client connects, is connected, loses the connection; the device is
\* registered (no update), or deregistered.
Connecting == configured /\ SetCloud("connecting") /\ UNCHANGED configured
Connected == cloud = "connecting" /\ SetCloud("connected") /\ UNCHANGED configured
Disconnected == SetCloud("disconnected") /\ UNCHANGED configured
Deregister == configured /\ configured' = FALSE /\ SetCloud("not_configured")
Register ==
  /\ ~configured /\ configured' = TRUE
  /\ UNCHANGED <<native, cloud, icon, draw, blink, blinker, overlapped>>

----------------------------------------------------------------------------
(* updateDisplay: the end of it. *)

Goto(d, pc) == draw' = [draw EXCEPT ![d].pc = pc]
Finish(d) == draw' = [draw EXCEPT ![d] = [pc |-> "idle", state |-> "not_configured"]]
Others(d) == {e \in Drawers \ {d} : draw[e].pc \in {"image", "stop", "start"}}

ShowOrHide(d) ==
  /\ draw[d].pc = "show"
  /\ IF cloud = "not_configured" THEN jetkvm_ui_add_flag("LV_OBJ_FLAG_HIDDEN")
                                 ELSE jetkvm_ui_clear_flag("LV_OBJ_FLAG_HIDDEN")
  /\ Goto(d, "image")
  /\ overlapped' = (Others(d) # {})
  /\ UNCHANGED <<native, configured, cloud, blink, blinker>>

\* The second read.  A state that is not configured has no case.
Picture(state) == IF state = "disconnected" THEN "cloud_disconnected" ELSE "cloud"

SetPicture(d) ==
  /\ draw[d].pc = "image"
  /\ IF cloud = "not_configured"
     THEN Finish(d) /\ UNCHANGED icon
     ELSE /\ jetkvm_ui_set_image(Picture(cloud))
          /\ draw' = [draw EXCEPT ![d] = [pc |-> "stop", state |-> cloud]]
  /\ UNCHANGED <<native, configured, cloud, blink, blinker, overlapped>>

\* Mutant: the goroutine is cancelled and its ticker goes on.
StopCancels(d) ==
  /\ draw[d].pc = "stop"
  /\ blinker' = [b \in Blinkers |-> [blinker[b] EXCEPT !.cancelled = @ \/ b = blink.cancel]]
  /\ blink' = [blink EXCEPT !.cancel = None]
  /\ IF draw[d].state = "connecting" THEN Goto(d, "start") ELSE Finish(d)
  /\ UNCHANGED <<native, configured, cloud, icon, overlapped>>
stopCloudBlink(d) ==
  /\ draw[d].pc = "stop"
  /\ blinker' = [b \in Blinkers |-> [blinker[b] EXCEPT !.cancelled = @ \/ b = blink.cancel]]
  /\ blink' = [cancel |-> None, ticker |-> FALSE]
  /\ IF draw[d].state = "connecting" THEN Goto(d, "start") ELSE Finish(d)
  /\ UNCHANGED <<native, configured, cloud, icon, overlapped>>

\* A cancel function that is still there is overwritten.
startCloudBlink(d) ==
  /\ draw[d].pc = "start"
  /\ \E b \in Blinkers :
       /\ b = CHOOSE e \in Blinkers : blinker[e].pc = "ended"
       /\ blink' = [cancel |-> b, ticker |-> TRUE]
       /\ blinker' = [blinker EXCEPT ![b] = [pc |-> "tick", cancelled |-> FALSE]]
  /\ Finish(d)
  /\ UNCHANGED <<native, configured, cloud, icon, overlapped>>

----------------------------------------------------------------------------
(* doCloudBlink. *)

\* A tick goes to one of the goroutines that wait for it, cancelled or not.
FadeOut(b) ==
  /\ blinker[b].pc = "tick" /\ blink.ticker /\ cloud = "connecting"
  /\ jetkvm_ui_fade
  /\ blinker' = [blinker EXCEPT ![b].pc = "out"]
  /\ UNCHANGED <<native, configured, cloud, draw, blink, overlapped>>

\* The pause has run out.  When the goroutine is cancelled as well its select
\* takes either.
FadeIn(b) ==
  /\ blinker[b].pc = "out"
  /\ jetkvm_ui_fade
  /\ blinker' = [blinker EXCEPT ![b].pc = "in"]
  /\ UNCHANGED <<native, configured, cloud, draw, blink, overlapped>>

\* The end of the second pause, or of a cancelled goroutine in either.
Pause(b) ==
  /\ \/ /\ blinker[b].pc \in {"out", "in"} /\ blinker[b].cancelled
        /\ blinker' = [blinker EXCEPT ![b].pc = "ended"]
     \/ /\ blinker[b].pc = "in"
        /\ blinker' = [blinker EXCEPT ![b].pc = "tick"]
  /\ UNCHANGED <<native, configured, cloud, icon, draw, blink, overlapped>>

----------------------------------------------------------------------------
Init ==
  /\ configured \in BOOLEAN /\ cloud = "not_configured"
  /\ icon = NewIcon
  /\ LET first == CHOOSE d \in Drawers : TRUE
     IN draw = [d \in Drawers |-> [pc |-> IF d = first THEN "show" ELSE "idle",
                                   state |-> "not_configured"]]
  /\ blink = [cancel |-> None, ticker |-> FALSE]
  /\ blinker = [b \in Blinkers |-> [pc |-> "ended", cancelled |-> FALSE]]
  /\ overlapped = FALSE

Stimulus == Connecting \/ Connected \/ Disconnected \/ Deregister \/ Register
Step == \E d \in Drawers : \/ ShowOrHide(d) \/ SetPicture(d)
                           \/ stopCloudBlink(d) \/ startCloudBlink(d)
Blinking == \E b \in Blinkers : FadeOut(b) \/ FadeIn(b) \/ Pause(b)

----------------------------------------------------------------------------
(* Properties. *)

\* Every variable has its type.
TypeOK ==
  /\ {native, configured, overlapped} \subseteq BOOLEAN
  /\ cloud \in CloudStates
  /\ icon \in [flags : SUBSET {"LV_OBJ_FLAG_HIDDEN"},
               src : [kind : {"compiled", "file"}, name : {"cloud", "cloud_disconnected"}]]
  /\ draw \in [Drawers -> [pc : {"idle", "show", "image", "stop", "start"}, state : CloudStates]]
  /\ blink \in [cancel : Blinkers \cup {None}, ticker : BOOLEAN]
  /\ blinker \in [Blinkers -> [pc : {"ended", "tick", "out", "in"}, cancelled : BOOLEAN]]

Rest == \A d \in Drawers : ~Drawing(d)

\* At rest, when the last update ran alone, the icon is hidden exactly when the
\* main process knows of no cloud, also in a new native process, and the ticker
\* of the blinking runs exactly while the connection is being made.  Which
\* picture is drawn, and that it blinks, is not part of it: see above.
IconFollowsCloud ==
  native /\ Rest /\ ~overlapped =>
    /\ "LV_OBJ_FLAG_HIDDEN" \in icon.flags <=> cloud = "not_configured"
    /\ cloud # "not_configured" => (blink.ticker <=> cloud = "connecting")
============================================================================
