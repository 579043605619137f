------------------------ MODULE NativeRestartProofs ------------------------
(***************************************************************************)
(* Theorems about NativeRestart: whatever the main process is doing when   *)
(* the native process dies, the panel, the label, whether there is an icon *)
(* and the chip end up as the main process wants them, and a status of the *)
(* chip is whole.  For any number of goroutines, restarts and events, any  *)
(* EDID and any size of the buffer for the kernel log.                     *)
(***************************************************************************)
EXTENDS NativeRestart, FiniteSetTheorems, WellFoundedInduction, TLAPS

----------------------------------------------------------------------------
(* The panel (screen.c). *)

PanelState == [shown : Int, rotation : Rotations \cup {270}, touch : BOOLEAN,
               offset : BOOLEAN, pads : {"none", "44/24", "24/44"}]

\* The picture, the margins and the touch screen go together.
Oriented(p) ==
  p.rotation \in {90, 270} =>
    /\ p.shown = p.rotation
    /\ p.pads = (IF p.rotation = 90 THEN "24/44" ELSE "44/24")
    /\ p.touch => p.offset = (p.rotation = 90)

\* apply_touch_calibration changes the offset of a touch screen and nothing else.
LEMMA CalibratedFacts ==
  ASSUME NEW p \in PanelState
  PROVE  /\ Disp!Calibrated(p) \in PanelState
         /\ Disp!Calibrated(p).shown = p.shown
         /\ Disp!Calibrated(p).rotation = p.rotation
         /\ Disp!Calibrated(p).pads = p.pads
         /\ Disp!Calibrated(p).touch = p.touch
         /\ p.touch => Disp!Calibrated(p).offset = (p.rotation = 90)
<1>1. CASE ~p.touch
  BY <1>1 DEF Disp!Calibrated
<1>2. CASE p.touch
  <2>1. PICK o \in BOOLEAN : o = (p.rotation = 90)
    BY Zenon
  <2>2. Disp!Calibrated(p) = [p EXCEPT !.offset = o]
    BY <1>2, <2>1 DEF Disp!Calibrated
  <2>3. [p EXCEPT !.offset = o] \in PanelState
    BY DEF PanelState
  <2>4. /\ [p EXCEPT !.offset = o].shown = p.shown
        /\ [p EXCEPT !.offset = o].rotation = p.rotation
        /\ [p EXCEPT !.offset = o].pads = p.pads
        /\ [p EXCEPT !.offset = o].touch = p.touch
        /\ [p EXCEPT !.offset = o].offset = o
    BY DEF PanelState
  <2> QED BY <2>1, <2>2, <2>3, <2>4
<1> QED BY <1>1, <1>2

\* lvgl_set_rotation leaves the panel oriented.
LEMMA TurnedFacts ==
  ASSUME NEW p \in PanelState, NEW r \in Rotations
  PROVE  /\ Disp!Turned(p, r) \in PanelState
         /\ Oriented(Disp!Turned(p, r))
<1> DEFINE p1 == [p EXCEPT !.shown = IF r \in Disp!LvRotations THEN r ELSE @, !.rotation = r]
           p2 == Disp!Calibrated(p1)
           p3 == Disp!GetStyle(p2)
           p4 == Disp!Pads(p3)
<1>1. /\ p1 \in PanelState /\ p1.rotation = r /\ p1.touch = p.touch
      /\ r \in {90, 270} => p1.shown = r
  <2> DEFINE sh == IF r \in Disp!LvRotations THEN r ELSE p.shown
  <2>1. sh \in Int /\ (r \in {90, 270} => sh = r)
    BY DEF PanelState, Disp!LvRotations
  <2>2. p1 = [p EXCEPT !.shown = sh, !.rotation = r]
    BY DEF PanelState
  <2> HIDE DEF sh, p1
  <2> QED BY <2>1, <2>2, ZenonT(30) DEF PanelState
<1> HIDE DEF p1
<1>2. /\ p2 \in PanelState /\ p2.rotation = r /\ p2.touch = p.touch /\ p2.shown = p1.shown
      /\ p2.touch => p2.offset = (r = 90)
  BY <1>1, CalibratedFacts
<1> HIDE DEF p2
<1>3. /\ p3 \in PanelState /\ p3.rotation = r /\ p3.touch = p.touch /\ p3.shown = p1.shown
      /\ p3.touch => p3.offset = (r = 90)
  BY <1>2 DEF Disp!GetStyle, PanelState
<1> HIDE DEF p3
<1>4. /\ p4 \in PanelState /\ p4.rotation = r /\ p4.touch = p.touch /\ p4.shown = p1.shown
      /\ p4.touch => p4.offset = (r = 90)
      /\ r = 90 => p4.pads = "24/44"
      /\ r = 270 => p4.pads = "44/24"
  BY <1>3 DEF Disp!Pads, PanelState
<1>5. Disp!Turned(p, r) = p4
  BY DEF Disp!Turned, p1, p2, p3, p4
<1> HIDE DEF p4
<1> QED BY <1>1, <1>4, <1>5 DEF Oriented

\* lvgl_init leaves the panel of a new process oriented.
LEMMA FreshFacts ==
  ASSUME NEW r \in Rotations
  PROVE  Disp!Fresh(r) \in PanelState /\ Oriented(Disp!Fresh(r))
<1> DEFINE p0 == [shown |-> 0, rotation |-> 270, touch |-> FALSE, offset |-> FALSE, pads |-> "none"]
           p1 == Disp!Turned(p0, r)
<1>1. p0 \in PanelState
  BY DEF PanelState
<1>2. p1 \in PanelState /\ Oriented(p1)
  BY <1>1, TurnedFacts
<1>3. Disp!Fresh(r) = Disp!GetStyle(p1)
  BY DEF Disp!Fresh
<1> HIDE DEF p1
<1>4. Disp!GetStyle(p1) \in PanelState
  BY <1>2 DEF Disp!GetStyle, PanelState
<1>5. Oriented(Disp!GetStyle(p1))
  <2>1. CASE p1.pads # "none"
    BY <1>2, <2>1 DEF Disp!GetStyle
  <2>2. CASE p1.pads = "none"
    <3>1. p1.rotation \notin {90, 270}
      BY <1>2, <2>2 DEF Oriented
    <3>2. Disp!GetStyle(p1).rotation = p1.rotation
      BY <1>2, <2>2 DEF Disp!GetStyle, PanelState
    <3> QED BY <3>1, <3>2 DEF Oriented
  <2> QED BY <2>1, <2>2
<1> QED BY <1>3, <1>4, <1>5

----------------------------------------------------------------------------
(* How the steps of the composition look from one of its parts. *)

\* Nobody but the proxy starts or loses the native process.
LEMMA PartsKeepNative ==
  /\ Host!Stimulus \/ Host!Step => UNCHANGED native
  /\ Disp!Stimulus \/ Disp!Step => UNCHANGED native
  /\ Cloud!Stimulus \/ Cloud!Step \/ Cloud!Blinking => UNCHANGED native
  /\ Stat!Stimulus \/ Stat!Step => UNCHANGED native
<1>1. Host!Stimulus \/ Host!Step => UNCHANGED native
  BY DEF Host!Stimulus, Host!Step, Host!rpcSetEDID, Host!rpcSetHostDisplayIdleMode, Host!Begin,
         Host!SessionEdge, Host!RpcApply, Host!RpcSave, Host!RpcUndo, Host!RpcRollback,
         Host!EdgeApply, Host!Reapply
<1>2. Disp!Stimulus \/ Disp!Step => UNCHANGED native
  BY DEF Disp!Stimulus, Disp!Step, Disp!VideoState, Disp!SetRotation, Disp!TouchFound,
         Disp!Turn, Disp!UpdateText, Disp!UpdateState
<1>3. Cloud!Stimulus \/ Cloud!Step \/ Cloud!Blinking => UNCHANGED native
  BY DEF Cloud!Stimulus, Cloud!Step, Cloud!Blinking, Cloud!Connecting, Cloud!Connected,
         Cloud!Disconnected, Cloud!Deregister, Cloud!Register, Cloud!SetCloud,
         Cloud!ShowOrHide, Cloud!SetPicture, Cloud!stopCloudBlink, Cloud!startCloudBlink,
         Cloud!FadeOut, Cloud!FadeIn, Cloud!Pause
<1>4. Stat!Stimulus \/ Stat!Step => UNCHANGED native
  BY DEF Stat!Stimulus, Stat!Step, Stat!rpcGetVideoLogStatus, Stat!Message, Stat!Ask,
         Stat!DriverLogs, Stat!Read
<1> QED BY <1>1, <1>2, <1>3, <1>4

\* The panel moves by itself, or the process it belongs to comes or goes, or
\* OnNativeRestart asks for an update.
LEMMA PanelCases ==
  ASSUME [Next]_vars
  PROVE  /\ UNCHANGED scope
         /\ \/ UNCHANGED <<panelVars, native, callback>>
            \/ (Disp!Stimulus \/ Disp!Step) /\ Moves("panel") /\ UNCHANGED <<native, callback>>
            \/ native' = FALSE /\ UNCHANGED <<panelVars, callback>>
            \/ Restart
            \/ OnNativeRestart
<1>1. CASE External
  BY <1>1, PartsKeepNative DEF External
<1>2. CASE Internal
  BY <1>2, PartsKeepNative DEF Internal, own
<1>3. CASE Blinking
  BY <1>3, PartsKeepNative DEF Blinking, own
<1>4. CASE Crash
  BY <1>4 DEF Crash
<1>5. CASE RestartFails \/ RestartHangs \/ HungExits
  BY <1>5 DEF RestartFails, RestartHangs, HungExits, Attempt
<1>6. CASE Restart
  BY <1>6 DEF Restart, Attempt
<1>7. CASE OnNativeRestart
  BY <1>7 DEF OnNativeRestart
<1>8. CASE UNCHANGED vars
  BY <1>8 DEF vars, own
<1> QED BY <1>1, <1>2, <1>3, <1>4, <1>5, <1>6, <1>7, <1>8 DEF Next

----------------------------------------------------------------------------
(* The panel is oriented, and its label follows the video state. *)

UpdateStates == [pc : {"idle", "text", "state"}, value : BOOLEAN]

PanelType ==
  /\ option \in Rotations /\ wanted \in Rotations
  /\ panel \in PanelState
  /\ label \in [text : BOOLEAN, checked : BOOLEAN]
  /\ update \in [Updates -> UpdateStates]
  /\ ready \in BOOLEAN

\* Nobody reads lastVideoState from now on.
NobodyReads == \A u \in Updates : update[u].pc # "text"

\* What the label says once the running updates have ended: the last one to
\* read lastVideoState has written its text, and, when it runs alone, is
\* about to set the colour or has done so.
LabelInv ==
  /\ ~Moves("panel") => /\ ready = FALSE /\ label = Disp!NewLabel
                        /\ \A u \in Updates : update[u].pc # "state"
  /\ native /\ callback = 0 /\ NobodyReads =>
       /\ label.text = ready
       /\ ~mixed =>
            /\ \A u \in Updates : update[u].pc = "state" => update[u].value = ready
            /\ (\A u \in Updates : update[u].pc # "state") => label.checked = ready

PanelInv == PanelType /\ Oriented(panel) /\ callback \in Nat /\ LabelInv

\* The invariant of the panel holds initially ...
LEMMA PanelInvInit == Init => PanelInv
<1> SUFFICES ASSUME Init PROVE PanelInv
  OBVIOUS
<1>0. Disp!Init /\ callback = 0
  BY DEF Init
<1>1. option \in Rotations /\ wanted \in Rotations /\ panel = Disp!Fresh(option)
  BY <1>0 DEF Disp!Init
<1>2. panel \in PanelState /\ Oriented(panel)
  BY <1>1, FreshFacts
<1>3. ready = FALSE /\ ready \in BOOLEAN
  BY <1>0, Zenon DEF Disp!Init
<1>4. /\ label \in [text : BOOLEAN, checked : BOOLEAN] /\ label = Disp!NewLabel
      /\ label.text = FALSE /\ label.checked = FALSE
  BY <1>0 DEF Disp!Init, Disp!NewLabel
<1>5. PICK first : update = [u \in Updates |-> IF u = first THEN [Disp!Idle EXCEPT !.pc = "text"]
                                                          ELSE Disp!Idle]
  BY <1>0 DEF Disp!Init
<1>6. /\ Disp!Idle \in UpdateStates /\ Disp!Idle.pc = "idle"
      /\ [Disp!Idle EXCEPT !.pc = "text"] \in UpdateStates
      /\ [Disp!Idle EXCEPT !.pc = "text"].pc = "text"
  BY DEF Disp!Idle, UpdateStates
<1>7. update \in [Updates -> UpdateStates] /\ \A u \in Updates : update[u].pc # "state"
  BY <1>5, <1>6
<1>8. LabelInv
  BY <1>3, <1>4, <1>7 DEF LabelInv
<1> QED BY <1>0, <1>1, <1>2, <1>3, <1>4, <1>7, <1>8 DEF PanelInv, PanelType

\* ... and every step preserves it.
LEMMA PanelInvStep == PanelInv /\ [Next]_vars => PanelInv'
<1> SUFFICES ASSUME PanelInv, [Next]_vars PROVE PanelInv'
  OBVIOUS
<1>0. /\ PanelType /\ Oriented(panel) /\ callback \in Nat /\ LabelInv
      /\ UNCHANGED scope
  BY PanelCases DEF PanelInv
<1>1. CASE UNCHANGED <<panelVars, native, callback>>
  BY <1>0, <1>1 DEF PanelInv, PanelType, LabelInv, NobodyReads, panelVars, Moves
<1>2. CASE native' = FALSE /\ UNCHANGED <<panelVars, callback>>
  BY <1>0, <1>2 DEF PanelInv, PanelType, LabelInv, NobodyReads, panelVars, Moves
<1>3. CASE Restart
  <2>1. /\ panel' = Disp!Fresh(option) /\ label' = Disp!NewLabel /\ callback' = callback + 1
        /\ UNCHANGED <<option, wanted, ready, update>>
    BY <1>3 DEF Restart, Attempt
  <2>2. panel' \in PanelState /\ Oriented(panel')
    BY <1>0, <2>1, FreshFacts DEF PanelType
  <2>3. label' \in [text : BOOLEAN, checked : BOOLEAN]
    BY <2>1 DEF Disp!NewLabel
  <2>4. callback' \in Nat /\ callback' # 0
    BY <1>0, <2>1
  <2> QED BY <1>0, <2>1, <2>2, <2>3, <2>4 DEF PanelInv, PanelType, LabelInv, Moves
<1>4. ASSUME NEW u \in Updates, update[u].pc = "idle", update' = [update EXCEPT ![u].pc = "text"],
             UNCHANGED <<panel, option, wanted, label>>, ready' \in BOOLEAN, callback' \in Nat,
             Moves("panel")
      PROVE  PanelInv'
  <2>1. update' \in [Updates -> UpdateStates] /\ update'[u].pc = "text"
    BY <1>0, <1>4 DEF PanelType, UpdateStates
  <2> QED BY <1>0, <1>4, <2>1 DEF PanelInv, PanelType, LabelInv, NobodyReads, Moves
<1>5. CASE OnNativeRestart
  <2>1. /\ UNCHANGED <<panel, option, wanted, label, ready, native, mixed>>
        /\ callback > 0 /\ callback' = callback - 1
    BY <1>5 DEF OnNativeRestart
  <2>2. callback' \in Nat
    BY <1>0, <2>1
  <2>3. CASE Moves("panel")
    <3>1. PICK u \in Updates : update[u].pc = "idle" /\ update' = [update EXCEPT ![u].pc = "text"]
      BY <1>5, <2>3 DEF OnNativeRestart, Disp!Requested, Disp!Running
    <3> QED BY <1>0, <1>4, <2>1, <2>2, <2>3, <3>1 DEF PanelType
  <2>4. CASE ~Moves("panel")
    <3>1. UNCHANGED update
      BY <1>5, <2>4 DEF OnNativeRestart
    <3>2. /\ ready = FALSE /\ label.text = FALSE /\ label.checked = FALSE
          /\ \A u \in Updates : update[u].pc # "state"
      BY <1>0, <2>4 DEF LabelInv, Disp!NewLabel
    <3> QED BY <1>0, <2>1, <2>2, <3>1, <3>2 DEF PanelInv, PanelType, LabelInv, Moves
  <2> QED BY <2>3, <2>4
<1>6. ASSUME UNCHANGED <<native, callback>>, Moves("panel"), Disp!VideoState
      PROVE  PanelInv'
  <2>1. PICK u \in Updates : update[u].pc = "idle" /\ update' = [update EXCEPT ![u].pc = "text"]
    BY <1>6 DEF Disp!VideoState, Disp!Requested, Disp!Running
  <2>2. ready' \in BOOLEAN
    BY <1>6, Zenon DEF Disp!VideoState
  <2> QED BY <1>0, <1>4, <1>6, <2>1, <2>2 DEF Disp!VideoState
<1>7. ASSUME UNCHANGED <<native, callback>>, NEW r \in Rotations, Disp!SetRotation(r)
      PROVE  PanelInv'
  BY <1>0, <1>7 DEF Disp!SetRotation, PanelInv, PanelType, LabelInv, NobodyReads, Moves
<1>8. ASSUME UNCHANGED <<native, callback>>, panel' \in PanelState, Oriented(panel'),
             UNCHANGED <<option, wanted, ready, label, update, mixed>>
      PROVE  PanelInv'
  BY <1>0, <1>8 DEF PanelInv, PanelType, LabelInv, NobodyReads, Moves
<1>9. ASSUME UNCHANGED <<native, callback>>, Disp!TouchFound
      PROVE  PanelInv'
  <2> DEFINE p == [panel EXCEPT !.touch = TRUE]
  <2>1. TRUE \in BOOLEAN
    BY Zenon
  <2>2. /\ p \in PanelState /\ p.touch /\ p.shown = panel.shown
        /\ p.rotation = panel.rotation /\ p.pads = panel.pads
    BY <1>0, <2>1, ZenonT(30) DEF PanelType, PanelState
  <2>3. panel' = Disp!Calibrated(p)
    BY <1>9 DEF Disp!TouchFound
  <2> HIDE DEF p
  <2>4. panel' \in PanelState /\ Oriented(panel')
    BY <1>0, <2>2, <2>3, CalibratedFacts DEF Oriented
  <2> QED BY <1>8, <1>9, <2>4 DEF Disp!TouchFound
<1>10. ASSUME UNCHANGED <<native, callback>>, Disp!Turn
       PROVE  PanelInv'
  <2>1. panel' \in PanelState /\ Oriented(panel')
    BY <1>0, <1>10, TurnedFacts DEF Disp!Turn, PanelType
  <2> QED BY <1>8, <1>10, <2>1 DEF Disp!Turn
<1>11. ASSUME UNCHANGED <<native, callback>>, Moves("panel"), NEW u \in Updates, Disp!UpdateText(u)
       PROVE  PanelInv'
  <2>1. /\ update[u].pc = "text" /\ UNCHANGED <<panel, option, wanted, ready>>
        /\ update' = [update EXCEPT ![u] = [pc |-> "state", value |-> ready]]
        /\ label' = IF native THEN [label EXCEPT !.text = ready] ELSE label
    BY <1>11 DEF Disp!UpdateText, Disp!jetkvm_ui_set_text
  <2>2. mixed' = \E v \in Updates \ {u} : update[v].pc = "state"
    BY <1>11 DEF Disp!UpdateText
  <2>3. [pc |-> "state", value |-> ready] \in UpdateStates
    BY <1>0 DEF PanelType, UpdateStates
  <2>4. /\ update' \in [Updates -> UpdateStates]
        /\ update'[u].pc = "state" /\ update'[u].value = ready
        /\ \A v \in Updates : v # u => update'[v] = update[v]
    BY <1>0, <2>1, <2>3 DEF PanelType
  <2>5. label' \in [text : BOOLEAN, checked : BOOLEAN] /\ (native => label'.text = ready)
    BY <1>0, <2>1 DEF PanelType
  <2>6. ~mixed' => \A v \in Updates : v # u => update'[v].pc # "state"
    BY <2>2, <2>4
  <2> QED BY <1>0, <1>11, <2>1, <2>4, <2>5, <2>6 DEF PanelInv, PanelType, LabelInv, Moves
<1>12. ASSUME UNCHANGED <<native, callback>>, Moves("panel"), NEW u \in Updates, Disp!UpdateState(u)
       PROVE  PanelInv'
  <2>1. /\ update[u].pc = "state" /\ UNCHANGED <<panel, option, wanted, ready, mixed>>
        /\ update' = [update EXCEPT ![u] = Disp!Idle]
        /\ label' = IF native THEN [label EXCEPT !.checked = update[u].value] ELSE label
    BY <1>12 DEF Disp!UpdateState, Disp!jetkvm_ui_state
  <2>2. Disp!Idle \in UpdateStates /\ Disp!Idle.pc = "idle"
    BY DEF Disp!Idle, UpdateStates
  <2>3. /\ update' \in [Updates -> UpdateStates] /\ update'[u].pc = "idle"
        /\ \A v \in Updates : v # u => update'[v] = update[v]
    BY <1>0, <2>1, <2>2 DEF PanelType
  <2>4. update[u].value \in BOOLEAN
    BY <1>0, Zenon DEF PanelType, UpdateStates
  <2>5. /\ label' \in [text : BOOLEAN, checked : BOOLEAN]
        /\ label'.text = label.text
        /\ native => label'.checked = update[u].value
    BY <1>0, <2>1, <2>4 DEF PanelType
  <2>6. NobodyReads' => NobodyReads
    BY <2>1, <2>3 DEF NobodyReads
  <2> QED BY <1>0, <1>12, <2>1, <2>3, <2>5, <2>6 DEF PanelInv, PanelType, LabelInv, Moves
<1> QED BY <1>1, <1>2, <1>3, <1>5, <1>6, <1>7, <1>9, <1>10, <1>11, <1>12, PanelCases
        DEF Disp!Stimulus, Disp!Step

\* Picture, margins and touch screen of the panel agree in every native
\* process, whenever its touch screen is found, the panel is turned, and the
\* process is replaced.
THEOREM PanelStaysOriented == Spec => []PanelOriented
<1>1. PanelInv => PanelOriented
  BY DEF PanelInv, PanelOriented, Disp!PanelOriented, Oriented
<1> QED BY <1>1, PanelInvInit, PanelInvStep, PTL DEF Spec

----------------------------------------------------------------------------
(* The cloud icon. *)

\* The icon moves by itself, or the process it belongs to comes or goes, or
\* OnNativeRestart asks for an update.
LEMMA CloudCases ==
  ASSUME [Next]_vars
  PROVE  /\ UNCHANGED scope
         /\ \/ UNCHANGED <<cloudVars, native, callback>>
            \/ (Cloud!Stimulus \/ Cloud!Step \/ Cloud!Blinking) /\ UNCHANGED <<native, callback>>
            \/ native' = FALSE /\ UNCHANGED <<cloudVars, callback>>
            \/ Restart
            \/ OnNativeRestart
<1>1. CASE External
  BY <1>1, PartsKeepNative DEF External
<1>2. CASE Internal
  BY <1>2, PartsKeepNative DEF Internal, own
<1>3. CASE Blinking
  BY <1>3, PartsKeepNative DEF Blinking, own
<1>4. CASE Crash
  BY <1>4 DEF Crash
<1>5. CASE RestartFails \/ RestartHangs \/ HungExits
  BY <1>5 DEF RestartFails, RestartHangs, HungExits, Attempt
<1>6. CASE Restart
  BY <1>6 DEF Restart, Attempt
<1>7. CASE OnNativeRestart
  BY <1>7 DEF OnNativeRestart
<1>8. CASE UNCHANGED vars
  BY <1>8 DEF vars, own
<1> QED BY <1>1, <1>2, <1>3, <1>4, <1>5, <1>6, <1>7, <1>8 DEF Next

DrawStates == [pc : {"idle", "show", "image", "stop", "start"}, state : Cloud!CloudStates]
IconStates == [flags : SUBSET {"LV_OBJ_FLAG_HIDDEN"},
               src : [kind : {"compiled", "file"}, name : {"cloud", "cloud_disconnected"}]]

CloudType ==
  /\ cloud \in Cloud!CloudStates
  /\ icon \in IconStates
  /\ draw \in [Drawers -> DrawStates]
  /\ DOMAIN blink = {"cancel", "ticker"} /\ blink.ticker \in BOOLEAN
  /\ callback \in Nat

Active(d) == draw[d].pc \in {"image", "stop", "start"}
Shown == "LV_OBJ_FLAG_HIDDEN" \notin icon.flags

\* An update that did not overlap another one is the only one between its
\* two reads of cloudConnectionState and its end.
AloneInv == ~overlapped => \A d, e \in Drawers : Active(d) /\ Active(e) => d = e

\* Nobody has the first read of cloudConnectionState before him, and the
\* process has had the updates it is due.
Settled == native /\ callback = 0 /\ \A d \in Drawers : draw[d].pc # "show"

\* Where a lone update is after its second read, and what it has done.
DrawnInv ==
  /\ \A d \in Drawers : draw[d].pc \in {"stop", "start"} => draw[d].state = cloud
  /\ (\A d \in Drawers : ~Active(d)) => (blink.ticker <=> cloud = "connecting")

IconInv ==
  /\ \A d \in Drawers : draw[d].pc = "start" => draw[d].state = "connecting"
  /\ Moves("cloud") /\ Settled =>
       /\ Shown <=> cloud # "not_configured"
       /\ ~overlapped /\ cloud # "not_configured" => DrawnInv

CloudInv == CloudType /\ AloneInv /\ IconInv

\* The invariant of the icon holds initially ...
LEMMA CloudInvInit == Init => CloudInv
<1> SUFFICES ASSUME Init PROVE CloudInv
  OBVIOUS
<1>0. Cloud!Init /\ callback = 0
  BY DEF Init
<1>1. PICK first \in Drawers :
        draw = [d \in Drawers |-> [pc |-> IF d = first THEN "show" ELSE "idle",
                                  state |-> "not_configured"]]
  <2>1. (CHOOSE d \in Drawers : TRUE) \in Drawers
    BY RestartAssumption
  <2> QED BY <1>0, <2>1 DEF Cloud!Init
<1>2. /\ draw \in [Drawers -> DrawStates] /\ draw[first].pc = "show"
      /\ \A d \in Drawers : ~Active(d) /\ draw[d].pc # "start"
  BY <1>1 DEF DrawStates, Active, Cloud!CloudStates
<1>3. icon \in IconStates
  BY <1>0 DEF Cloud!Init, Cloud!NewIcon, Cloud!Compiled, IconStates
<1>4. DOMAIN blink = {"cancel", "ticker"} /\ blink.ticker \in BOOLEAN
  BY <1>0 DEF Cloud!Init
<1>5. cloud \in Cloud!CloudStates
  BY <1>0 DEF Cloud!Init, Cloud!CloudStates
<1> QED BY <1>0, <1>2, <1>3, <1>4, <1>5 DEF CloudInv, CloudType, AloneInv, IconInv, Settled

\* A request for an update leaves everything to that update.
LEMMA RequestStep ==
  ASSUME CloudInv, UNCHANGED scope, Cloud!Requested,
         UNCHANGED <<icon, blink, overlapped>>,
         cloud' \in Cloud!CloudStates, callback' \in Nat
  PROVE  CloudInv'
<1>0. CloudType /\ AloneInv /\ IconInv
  BY DEF CloudInv
<1>1. PICK d \in Drawers : draw[d].pc = "idle" /\ draw' = [draw EXCEPT ![d].pc = "show"]
  BY DEF Cloud!Requested, Cloud!Drawing
<1>2. /\ draw' \in [Drawers -> DrawStates] /\ draw'[d].pc = "show"
      /\ \A e \in Drawers : e # d => draw'[e] = draw[e]
  BY <1>0, <1>1 DEF CloudType, DrawStates
<1>3. \A e \in Drawers : Active(e)' => Active(e)
  BY <1>1, <1>2 DEF Active
<1>4. AloneInv'
  BY <1>0, <1>3 DEF AloneInv
<1>5. ~Settled'
  BY <1>2 DEF Settled
<1>6. IconInv'
  BY <1>0, <1>2, <1>5 DEF IconInv
<1>7. CloudType'
  BY <1>0, <1>2 DEF CloudType
<1> QED BY <1>4, <1>6, <1>7 DEF CloudInv

\* The connection changes, and an update is asked for.
LEMMA StimulusStep ==
  ASSUME CloudInv, UNCHANGED <<scope, native, callback>>, Cloud!Stimulus
  PROVE  CloudInv'
<1>0. CloudType /\ AloneInv /\ IconInv
  BY DEF CloudInv
<1>1. ASSUME NEW state \in Cloud!CloudStates, Cloud!SetCloud(state)
      PROVE  CloudInv'
  <2>1. /\ cloud' \in Cloud!CloudStates /\ Cloud!Requested
        /\ UNCHANGED <<icon, blink, overlapped>>
    BY <1>1 DEF Cloud!SetCloud, Cloud!CloudStates
  <2>2. callback' \in Nat
    BY <1>0 DEF CloudType
  <2> QED BY <2>1, <2>2, RequestStep
<1>2. CASE Cloud!Register
  BY <1>0, <1>2 DEF Cloud!Register, CloudInv, CloudType, AloneInv, IconInv, Settled, DrawnInv,
                    Active, Shown, Moves
<1> QED BY <1>1, <1>2 DEF Cloud!Stimulus, Cloud!Connecting, Cloud!Connected,
           Cloud!Disconnected, Cloud!Deregister, Cloud!CloudStates

\* The first read: a lone update shows or hides the icon.
LEMMA ShowStep ==
  ASSUME CloudInv, UNCHANGED <<scope, native, callback>>,
         NEW d \in Drawers, Cloud!ShowOrHide(d)
  PROVE  CloudInv'
<1>0. CloudType /\ AloneInv /\ IconInv
  BY DEF CloudInv
<1>1. /\ draw[d].pc = "show" /\ draw' = [draw EXCEPT ![d].pc = "image"]
      /\ UNCHANGED <<cloud, blink>>
  BY DEF Cloud!ShowOrHide, Cloud!Goto
<1>2. ~overlapped' => \A e \in Drawers : e # d => ~Active(e)
  BY DEF Cloud!ShowOrHide, Cloud!Others, Active
<1>3. /\ draw' \in [Drawers -> DrawStates] /\ draw'[d].pc = "image"
      /\ \A e \in Drawers : e # d => draw'[e] = draw[e]
  BY <1>0, <1>1 DEF CloudType, DrawStates
<1>4. ~overlapped' => \A e \in Drawers : e # d => ~Active(e)'
  BY <1>2, <1>3 DEF Active
<1>5. AloneInv'
  BY <1>4 DEF AloneInv
<1>6. icon' = IF ~native THEN icon
              ELSE IF cloud = "not_configured"
              THEN [icon EXCEPT !.flags = @ \cup {"LV_OBJ_FLAG_HIDDEN"}]
              ELSE [icon EXCEPT !.flags = @ \ {"LV_OBJ_FLAG_HIDDEN"}]
  <2>1. {"LV_OBJ_FLAG_HIDDEN"} \cap Cloud!LvObjFlags = {"LV_OBJ_FLAG_HIDDEN"}
    BY DEF Cloud!LvObjFlags
  <2> QED BY <2>1 DEF Cloud!ShowOrHide, Cloud!jetkvm_ui_add_flag, Cloud!jetkvm_ui_clear_flag
<1>7. /\ icon' \in IconStates
      /\ native => ("LV_OBJ_FLAG_HIDDEN" \in icon'.flags <=> cloud = "not_configured")
  BY <1>0, <1>6 DEF CloudType, IconStates
<1>8. (\A e \in Drawers : draw'[e].pc \in {"stop", "start"} => overlapped')
  BY <1>3, <1>4 DEF Active
<1>9. ~overlapped' => DrawnInv'
  BY <1>3, <1>8 DEF DrawnInv, Active
<1>10. IconInv'
  BY <1>0, <1>1, <1>3, <1>7, <1>9 DEF IconInv, Settled, Shown, Moves
<1>11. CloudType'
  BY <1>0, <1>1, <1>3, <1>7 DEF CloudType
<1> QED BY <1>5, <1>10, <1>11 DEF CloudInv

\* The second read: it names a picture and keeps what it has read.
LEMMA PictureStep ==
  ASSUME CloudInv, UNCHANGED <<scope, native, callback>>,
         NEW d \in Drawers, Cloud!SetPicture(d)
  PROVE  CloudInv'
<1>0. CloudType /\ AloneInv /\ IconInv
  BY DEF CloudInv
<1>1. /\ draw[d].pc = "image" /\ Active(d)
      /\ UNCHANGED <<cloud, blink, overlapped>>
  BY DEF Cloud!SetPicture, Active
<1>2. /\ draw' \in [Drawers -> DrawStates]
      /\ \A e \in Drawers : e # d => draw'[e] = draw[e]
      /\ IF cloud = "not_configured" THEN draw'[d].pc = "idle"
         ELSE draw'[d].pc = "stop" /\ draw'[d].state = cloud
  BY <1>0 DEF Cloud!SetPicture, Cloud!Finish, CloudType, DrawStates, Cloud!CloudStates
<1>3. icon' \in IconStates /\ icon'.flags = icon.flags
  BY <1>0 DEF Cloud!SetPicture, Cloud!jetkvm_ui_set_image, Cloud!Picture, Cloud!File, CloudType,
              IconStates
<1>4. \A e \in Drawers : Active(e)' => Active(e)
  BY <1>1, <1>2 DEF Active
<1>5. AloneInv'
  BY <1>0, <1>1, <1>4 DEF AloneInv
<1>6. CloudType'
  BY <1>0, <1>1, <1>2, <1>3 DEF CloudType
<1>7. ASSUME native, ~overlapped, cloud # "not_configured" PROVE DrawnInv'
  <2>1. \A e \in Drawers : e # d => ~Active(e)
    BY <1>0, <1>1, <1>7 DEF AloneInv
  <2>2. \A e \in Drawers : e # d => ~Active(e)'
    BY <2>1, <1>4
  <2>3. \A e \in Drawers : draw'[e].pc \in {"stop", "start"} => e = d
    BY <2>2 DEF Active
  <2>4. draw'[d].pc = "stop" /\ draw'[d].state = cloud' /\ Active(d)'
    BY <1>1, <1>2, <1>7 DEF Active
  <2> QED BY <2>3, <2>4 DEF DrawnInv
<1>8. Settled' => Settled
  BY <1>1, <1>2 DEF Settled
<1>9. Shown' <=> Shown
  BY <1>3 DEF Shown
<1>10. IconInv'
  BY <1>0, <1>1, <1>2, <1>3, <1>7, <1>8, <1>9 DEF IconInv, Settled, Moves
<1> QED BY <1>5, <1>6, <1>10 DEF CloudInv

\* stopCloudBlink and startCloudBlink act on what the update has read.
LEMMA BlinkStep ==
  ASSUME CloudInv, UNCHANGED <<scope, native, callback>>, NEW d \in Drawers,
         Cloud!stopCloudBlink(d) \/ Cloud!startCloudBlink(d)
  PROVE  CloudInv'
<1>0. CloudType /\ AloneInv /\ IconInv
  BY DEF CloudInv
<1>1. /\ draw[d].pc \in {"stop", "start"} /\ Active(d)
      /\ draw[d].pc = "start" => draw[d].state = "connecting"
      /\ UNCHANGED <<cloud, icon, overlapped>>
  BY <1>0 DEF Cloud!stopCloudBlink, Cloud!startCloudBlink, Active, IconInv
<1>2. /\ draw' \in [Drawers -> DrawStates]
      /\ \A e \in Drawers : e # d => draw'[e] = draw[e]
      /\ \/ draw[d].pc = "stop" /\ draw[d].state = "connecting"
            /\ draw'[d].pc = "start" /\ draw'[d].state = draw[d].state
         \/ draw[d].pc = "stop" /\ draw[d].state # "connecting" /\ draw'[d].pc = "idle"
         \/ draw[d].pc = "start" /\ draw'[d].pc = "idle"
  BY <1>0 DEF Cloud!stopCloudBlink, Cloud!startCloudBlink, Cloud!Goto, Cloud!Finish,
              CloudType, DrawStates, Cloud!CloudStates
<1>3. /\ DOMAIN blink' = {"cancel", "ticker"}
      /\ blink'.ticker \in BOOLEAN
      /\ draw[d].pc = "stop" => blink'.ticker = FALSE
      /\ draw[d].pc = "start" => blink'.ticker = TRUE
  <2>1. CASE Cloud!stopCloudBlink(d)
    <3>1. draw[d].pc = "stop" /\ blink' = [cancel |-> Cloud!None, ticker |-> FALSE]
      BY <2>1 DEF Cloud!stopCloudBlink
    <3> QED BY <3>1
  <2>2. CASE Cloud!startCloudBlink(d)
    <3>1. draw[d].pc = "start" /\ \E b \in Blinkers : blink' = [cancel |-> b, ticker |-> TRUE]
      BY <2>2 DEF Cloud!startCloudBlink
    <3> QED BY <3>1
  <2> QED BY <2>1, <2>2
<1>4. \A e \in Drawers : Active(e)' => Active(e)
  BY <1>1, <1>2 DEF Active
<1>5. AloneInv'
  BY <1>0, <1>1, <1>4 DEF AloneInv
<1>6. CloudType'
  BY <1>0, <1>1, <1>2, <1>3 DEF CloudType
<1>7. ASSUME ~overlapped, DrawnInv PROVE DrawnInv'
  <2>1. \A e \in Drawers : e # d => ~Active(e)'
    BY <1>0, <1>1, <1>4, <1>7 DEF AloneInv
  <2>2. draw[d].state = cloud
    BY <1>1, <1>7 DEF DrawnInv
  <2>3. \A e \in Drawers : draw'[e].pc \in {"stop", "start"} => draw'[e].state = cloud'
    BY <1>1, <1>2, <2>1, <2>2 DEF Active
  <2>4. ~Active(d)' => (blink'.ticker <=> cloud' = "connecting")
    <3>1. CASE draw[d].pc = "stop" /\ draw[d].state = "connecting"
      BY <1>2, <3>1 DEF Active
    <3>2. CASE draw[d].pc = "stop" /\ draw[d].state # "connecting"
      BY <1>1, <1>3, <2>2, <3>2
    <3>3. CASE draw[d].pc = "start"
      BY <1>1, <1>3, <2>2, <3>3
    <3> QED BY <1>1, <3>1, <3>2, <3>3
  <2> QED BY <2>1, <2>3, <2>4 DEF DrawnInv
<1>8. Settled' => Settled
  BY <1>1, <1>2 DEF Settled
<1>9. Shown' <=> Shown
  BY <1>1 DEF Shown
<1>10. IconInv'
  BY <1>0, <1>1, <1>2, <1>7, <1>8, <1>9 DEF IconInv, Moves
<1> QED BY <1>5, <1>6, <1>10 DEF CloudInv

\* The invariant of the icon is preserved by every step.
LEMMA CloudInvStep == CloudInv /\ [Next]_vars => CloudInv'
<1> SUFFICES ASSUME CloudInv, [Next]_vars PROVE CloudInv'
  OBVIOUS
<1>0. CloudType /\ AloneInv /\ IconInv /\ UNCHANGED scope
  BY CloudCases DEF CloudInv
<1>1. CASE UNCHANGED <<cloudVars, native, callback>>
  BY <1>0, <1>1 DEF CloudInv, CloudType, AloneInv, IconInv, Settled, DrawnInv, Active, Shown,
                    cloudVars, Moves
<1>2. CASE native' = FALSE /\ UNCHANGED <<cloudVars, callback>>
  BY <1>0, <1>2 DEF CloudInv, CloudType, AloneInv, IconInv, Settled, Active, cloudVars, Moves
<1>3. CASE Restart
  <2>1. /\ icon' = Cloud!NewIcon /\ callback' = callback + 1
        /\ UNCHANGED <<cloud, draw, blink, overlapped>>
    BY <1>3 DEF Restart, Attempt
  <2>2. icon' \in IconStates
    BY <2>1 DEF Cloud!NewIcon, Cloud!Compiled, IconStates
  <2>3. callback' \in Nat /\ callback' # 0
    BY <1>0, <2>1 DEF CloudType
  <2> QED BY <1>0, <2>1, <2>2, <2>3 DEF CloudInv, CloudType, AloneInv, IconInv, Settled, Active
<1>4. CASE OnNativeRestart
  <2>1. /\ callback > 0 /\ callback' = callback - 1
        /\ UNCHANGED <<native, cloud, icon, blink, overlapped>>
    BY <1>4 DEF OnNativeRestart
  <2>2. callback' \in Nat
    BY <1>0, <2>1 DEF CloudType
  <2>3. CASE Moves("cloud")
    <3>1. Cloud!Requested
      BY <1>4, <2>3 DEF OnNativeRestart
    <3> QED BY <1>0, <2>1, <2>2, <3>1, RequestStep DEF CloudType
  <2>4. CASE ~Moves("cloud")
    <3>1. UNCHANGED draw
      BY <1>4, <2>4 DEF OnNativeRestart
    <3> QED BY <1>0, <2>1, <2>2, <2>4, <3>1 DEF CloudInv, CloudType, AloneInv, IconInv, Active, Moves
  <2> QED BY <2>3, <2>4
<1>5. ASSUME UNCHANGED <<native, callback>>, Cloud!Blinking
      PROVE  CloudInv'
  <2>1. UNCHANGED <<cloud, icon, draw, blink, overlapped>>
    BY <1>5 DEF Cloud!Blinking, Cloud!FadeOut, Cloud!FadeIn, Cloud!Pause,
                      Cloud!jetkvm_ui_fade
  <2> QED BY <1>0, <1>5, <2>1 DEF CloudInv, CloudType, AloneInv, IconInv, Settled, DrawnInv,
                                  Active, Shown, Moves
<1>6. ASSUME UNCHANGED <<native, callback>>, Cloud!Stimulus \/ Cloud!Step
      PROVE  CloudInv'
  BY <1>0, <1>6, StimulusStep, ShowStep, PictureStep, BlinkStep DEF Cloud!Step
<1> QED BY <1>1, <1>2, <1>3, <1>4, <1>5, <1>6, CloudCases

\* Once OnNativeRestart has run and the updates have ended, the label of the
\* HDMI input, whether the cloud icon is hidden, and the ticker of its blinking
\* follow what the main process knows, in whichever process draws them, unless
\* the last update overlapped another one.
THEOREM DisplayIsRestored == Spec => []DisplayRestored
<1>1. PanelInv => (callback = 0 => Disp!LabelFollowsVideo)
  <2> SUFFICES ASSUME PanelInv, callback = 0, native, Disp!Rest, ~mixed
               PROVE  label = [text |-> ready, checked |-> ready]
    BY DEF Disp!LabelFollowsVideo
  <2>1. \A u \in Updates : update[u].pc = "idle"
    BY DEF Disp!Rest, Disp!Running
  <2>2. label.text = ready /\ label.checked = ready
    BY <2>1 DEF PanelInv, LabelInv, NobodyReads
  <2> QED BY <2>2 DEF PanelInv, PanelType
<1>2. CloudInv => (callback = 0 /\ Moves("cloud") => Cloud!IconFollowsCloud)
  <2> SUFFICES ASSUME CloudInv, callback = 0, Moves("cloud"), native, Cloud!Rest, ~overlapped
               PROVE  /\ "LV_OBJ_FLAG_HIDDEN" \in icon.flags <=> cloud = "not_configured"
                      /\ cloud # "not_configured" => (blink.ticker <=> cloud = "connecting")
    BY DEF Cloud!IconFollowsCloud
  <2>1. \A d \in Drawers : draw[d].pc = "idle"
    BY DEF Cloud!Rest, Cloud!Drawing
  <2>2. Settled
    BY <2>1 DEF Settled
  <2>3. \A d \in Drawers : ~Active(d)
    BY <2>1 DEF Active
  <2>4. Shown <=> cloud # "not_configured"
    BY <2>2 DEF CloudInv, IconInv
  <2>5. cloud # "not_configured" => DrawnInv
    BY <2>2 DEF CloudInv, IconInv
  <2> QED BY <2>1, <2>3, <2>4, <2>5 DEF Shown, DrawnInv
<1>3. PanelInv /\ CloudInv => DisplayRestored
  BY <1>1, <1>2 DEF DisplayRestored
<1> QED BY <1>3, PanelInvInit, PanelInvStep, CloudInvInit, CloudInvStep, PTL DEF Spec

----------------------------------------------------------------------------
(* Bytes and digits (hex_to_bytes, bytes_to_hex). *)

Modulus == Radix * Radix

\* A byte is a number below the square of the radix.
LEMMA ModulusType == Modulus \in Nat \ {0} /\ Host!Byte = 0 .. Modulus - 1
BY EdidAssumption DEF Modulus, Host!Byte

\* Arithmetic of a uint8_t.
LEMMA ModFacts ==
  ASSUME NEW m \in Nat \ {0}
  PROVE  /\ \A x \in Int : x % m \in 0 .. m - 1
         /\ \A x \in 0 .. m - 1 : x % m = x
         /\ m % m = 0
OBVIOUS

\* A checksum byte makes a sum zero.
LEMMA ChecksumCancels ==
  ASSUME NEW m \in Nat \ {0}, NEW s \in 0 .. m - 1
  PROVE  (s + ((m - s) % m)) % m = 0
<1>1. CASE s = 0
  <2>1. (m - s) % m = 0
    BY <1>1, ModFacts
  <2> QED BY <1>1, <2>1, ModFacts
<1>2. CASE s # 0
  <2>1. m - s \in 0 .. m - 1 /\ s + (m - s) = m
    BY <1>2
  <2>2. (m - s) % m = m - s
    BY <2>1, ModFacts
  <2> QED BY <2>1, <2>2, ModFacts
<1> QED BY <1>1, <1>2

\* Two digits are a byte.
LEMMA PairIsByte ==
  ASSUME NEW c \in Host!Digit, NEW d \in Host!Digit
  PROVE  Radix * c + d \in Host!Byte
<1>1. /\ Radix \in Nat /\ c \in Nat /\ d \in Nat /\ c <= Radix - 1 /\ d <= Radix - 1
  BY EdidAssumption DEF Host!Digit
<1>2. Radix * c <= Radix * (Radix - 1)
  BY <1>1
<1>3. Radix * (Radix - 1) = Radix * Radix - Radix
  BY <1>1
<1>4. Radix * c \in Nat
  BY <1>1
<1> QED BY <1>1, <1>2, <1>3, <1>4 DEF Host!Byte

\* A byte is two digits.
LEMMA ByteIsPair ==
  ASSUME NEW b \in Host!Byte
  PROVE  /\ b \div Radix \in Host!Digit /\ b % Radix \in Host!Digit
         /\ Radix * (b \div Radix) + (b % Radix) = b
<1>1. Radix \in Nat \ {0} /\ b \in Nat /\ b < Radix * Radix
  BY EdidAssumption DEF Host!Byte
<1>2. b = Radix * (b \div Radix) + (b % Radix) /\ b % Radix \in 0 .. Radix - 1 /\ b \div Radix \in Int
  BY <1>1
<1>3. b \div Radix >= 0
  BY <1>1, <1>2
<1>4. b \div Radix < Radix
  BY <1>1, <1>2
<1> QED BY <1>1, <1>2, <1>3, <1>4 DEF Host!Digit

----------------------------------------------------------------------------
(* Sums of blocks (fix_edid_checksum). *)

\* A non-empty set of naturals has a least element.
LEMMA LeastOf ==
  ASSUME NEW S \in SUBSET Nat, S # {}
  PROVE  \E i \in S : \A j \in S : i <= j
<1>1. PICK i \in S : \A j \in S : ~(<<j, i>> \in OpToRel(<, Nat))
  BY NatLessThanWellFounded, WFMin, Zenon
<1>2. \A j \in S : ~(j < i)
  BY <1>1 DEF OpToRel
<1>3. i \in Nat /\ \A j \in S : j \in Nat
  OBVIOUS
<1> QED BY <1>2, <1>3

\* The sum of the first i bytes of a block, for i up to n.
IsSum(f, bytes, block, n) ==
  f = [i \in 0 .. n |-> IF i = 0 THEN 0 ELSE (f[i - 1] + bytes[block * BlockSize + i]) % Modulus]

\* The first n bytes of a block are numbers.
Numbers(bytes, block, n) == \A i \in 1 .. n : bytes[block * BlockSize + i] \in Int

\* Two blocks begin with the same n bytes.
Alike(bytes, other, block, n) ==
  \A i \in 1 .. n : bytes[block * BlockSize + i] = other[block * BlockSize + i]

\* The loop of fix_edid_checksum computes a sum ...
LEMMA BlockSumDef ==
  ASSUME NEW bytes, NEW block, NEW n
  PROVE  Host!BlockSum(bytes, block, n) = (CHOOSE f : IsSum(f, bytes, block, n))[n]
BY DEF Host!BlockSum, IsSum, Modulus

\* ... which always is a uint8_t, ...
LEMMA SumType ==
  ASSUME NEW bytes, NEW block, NEW n \in Nat, Numbers(bytes, block, n),
         NEW f, IsSum(f, bytes, block, n)
  PROVE  \A i \in 0 .. n : f[i] \in 0 .. Modulus - 1
<1> DEFINE S == {i \in 0 .. n : f[i] \notin 0 .. Modulus - 1}
<1> SUFFICES ASSUME S # {} PROVE FALSE
  OBVIOUS
<1>1. PICK i \in S : \A j \in S : i <= j
  <2>1. S \in SUBSET Nat
    OBVIOUS
  <2> HIDE DEF S
  <2> QED BY <2>1, LeastOf
<1>2. Modulus \in Nat \ {0} /\ 0 \in 0 .. Modulus - 1
  BY ModulusType
<1>3. i # 0
  BY <1>2 DEF IsSum
<1>4. i - 1 \in 0 .. n /\ i - 1 \notin S
  BY <1>1, <1>3
<1>5. f[i - 1] \in Int
  BY <1>2, <1>4
<1>6. f[i] = (f[i - 1] + bytes[block * BlockSize + i]) % Modulus
  BY <1>3 DEF IsSum
<1>7. f[i - 1] + bytes[block * BlockSize + i] \in Int
  BY <1>3, <1>5 DEF Numbers
<1> HIDE DEF S
<1>8. f[i] \in 0 .. Modulus - 1
  BY <1>2, <1>6, <1>7, ModFacts
<1> QED BY <1>8 DEF S

\* ... is the only one, for blocks that begin alike, ...
LEMMA SumUnique ==
  ASSUME NEW bytes, NEW other, NEW block, NEW n \in Nat, NEW m \in 0 .. n,
         NEW f, IsSum(f, bytes, block, n), NEW g, IsSum(g, other, block, m),
         Alike(bytes, other, block, m)
  PROVE  \A i \in 0 .. m : f[i] = g[i]
<1> DEFINE S == {i \in 0 .. m : f[i] # g[i]}
<1> SUFFICES ASSUME S # {} PROVE FALSE
  OBVIOUS
<1>1. PICK i \in S : \A j \in S : i <= j
  <2>1. S \in SUBSET Nat
    OBVIOUS
  <2> HIDE DEF S
  <2> QED BY <2>1, LeastOf
<1>2. i # 0
  <2>1. f[0] = 0 /\ g[0] = 0
    BY DEF IsSum
  <2> QED BY <2>1
<1>3. i - 1 \in 0 .. m /\ i - 1 \notin S
  BY <1>1, <1>2
<1>4. f[i - 1] = g[i - 1]
  BY <1>3
<1>5. /\ f[i] = (f[i - 1] + bytes[block * BlockSize + i]) % Modulus
      /\ g[i] = (g[i - 1] + other[block * BlockSize + i]) % Modulus
  BY <1>2 DEF IsSum
<1>6. bytes[block * BlockSize + i] = other[block * BlockSize + i]
  BY <1>2 DEF Alike
<1> QED BY <1>4, <1>5, <1>6

\* ... and there is one.
LEMMA SumExists ==
  ASSUME NEW bytes, NEW block, NEW n \in Nat
  PROVE  \E f : IsSum(f, bytes, block, n)
<1> DEFINE S == {k \in Nat : ~\E f : IsSum(f, bytes, block, k)}
<1> SUFFICES ASSUME S # {} PROVE FALSE
  OBVIOUS
<1>1. PICK k \in S : \A j \in S : k <= j
  <2>1. S \in SUBSET Nat
    OBVIOUS
  <2> HIDE DEF S
  <2> QED BY <2>1, LeastOf
<1>2. CASE k = 0
  <2> DEFINE f == [i \in 0 .. 0 |-> 0]
  <2>1. IsSum(f, bytes, block, 0)
    BY DEF IsSum
  <2> QED BY <1>2, <2>1
<1>3. CASE k # 0
  <2>1. k - 1 \in Nat /\ k - 1 \notin S
    BY <1>1, <1>3
  <2>2. PICK g : IsSum(g, bytes, block, k - 1)
    BY <2>1
  <2> DEFINE f == [i \in 0 .. k |->
                     IF i < k THEN g[i] ELSE (g[k - 1] + bytes[block * BlockSize + k]) % Modulus]
  <2>3. f[k] = (f[k - 1] + bytes[block * BlockSize + k]) % Modulus /\ f[0] = 0
    BY <1>3, <2>1, <2>2 DEF IsSum
  <2>4. \A i \in 1 .. k - 1 : f[i] = (f[i - 1] + bytes[block * BlockSize + i]) % Modulus
    BY <2>1, <2>2 DEF IsSum
  <2>5. f = [i \in 0 .. k |-> f[i]]
    OBVIOUS
  <2> HIDE DEF f
  <2>6. \A i \in 0 .. k : f[i] = IF i = 0 THEN 0
                                 ELSE (f[i - 1] + bytes[block * BlockSize + i]) % Modulus
    BY <2>3, <2>4
  <2>7. IsSum(f, bytes, block, k)
    BY <2>5, <2>6 DEF IsSum
  <2> QED BY <2>7
<1> QED BY <1>2, <1>3

\* The sum grows byte by byte, and does not look beyond the bytes it adds.
LEMMA BlockSumFacts ==
  ASSUME NEW bytes, NEW block, NEW n \in Nat, Numbers(bytes, block, n)
  PROVE  /\ Host!BlockSum(bytes, block, n) \in 0 .. Modulus - 1
         /\ n > 0 => Host!BlockSum(bytes, block, n) =
                       (Host!BlockSum(bytes, block, n - 1) + bytes[block * BlockSize + n]) % Modulus
         /\ \A other : Alike(bytes, other, block, n)
                => Host!BlockSum(other, block, n) = Host!BlockSum(bytes, block, n)
<1>1. \A m \in Nat : \A b : \E f : IsSum(f, b, block, m) /\ Host!BlockSum(b, block, m) = f[m]
  <2> SUFFICES ASSUME NEW m \in Nat, NEW b
               PROVE  \E f : IsSum(f, b, block, m) /\ Host!BlockSum(b, block, m) = f[m]
    OBVIOUS
  <2> DEFINE f == CHOOSE f : IsSum(f, b, block, m)
  <2>1. IsSum(f, b, block, m)
    BY SumExists
  <2> QED BY <2>1, BlockSumDef
<1>2. PICK f : IsSum(f, bytes, block, n) /\ Host!BlockSum(bytes, block, n) = f[n]
  BY <1>1
<1>3. Host!BlockSum(bytes, block, n) \in 0 .. Modulus - 1
  BY <1>2, SumType
<1>4. ASSUME n > 0
      PROVE  Host!BlockSum(bytes, block, n) =
               (Host!BlockSum(bytes, block, n - 1) + bytes[block * BlockSize + n]) % Modulus
  <2>1. PICK m \in Nat : m = n - 1 /\ m \in 0 .. n
    BY <1>4
  <2>2. PICK g : IsSum(g, bytes, block, m) /\ Host!BlockSum(bytes, block, m) = g[m]
    BY <1>1
  <2>3. \A i \in 0 .. m : f[i] = g[i]
    <3>1. Alike(bytes, bytes, block, m)
      BY DEF Alike
    <3> QED BY <1>2, <2>1, <2>2, <3>1, SumUnique
  <2>4. f[m] = g[m]
    BY <2>1, <2>3
  <2>5. f[n] = (f[n - 1] + bytes[block * BlockSize + n]) % Modulus
    BY <1>2, <1>4 DEF IsSum
  <2> QED BY <1>2, <2>1, <2>2, <2>4, <2>5
<1>5. ASSUME NEW other, Alike(bytes, other, block, n)
      PROVE  Host!BlockSum(other, block, n) = Host!BlockSum(bytes, block, n)
  <2>1. PICK g : IsSum(g, other, block, n) /\ Host!BlockSum(other, block, n) = g[n]
    BY <1>1
  <2>2. n \in 0 .. n
    OBVIOUS
  <2>3. \A i \in 0 .. n : f[i] = g[i]
    BY <1>2, <1>5, <2>1, <2>2, SumUnique
  <2> QED BY <1>2, <2>1, <2>2, <2>3
<1> QED BY <1>3, <1>4, <1>5

----------------------------------------------------------------------------
(* What fix_edid_checksum and set_edid leave in the chip. *)

\* No, one or two blocks.
EdidBytes == {b \in Seq(Host!Byte) : Len(b) \in {0, BlockSize, 2 * BlockSize}}

\* Where the checksums stand.
LEMMA BlockEnds ==
  /\ \A i \in 1 .. 2 * BlockSize : i % BlockSize = 0 =>
       (i = BlockSize /\ i \div BlockSize = 1) \/ (i = 2 * BlockSize /\ i \div BlockSize = 2)
  /\ BlockSize % BlockSize = 0 /\ (2 * BlockSize) % BlockSize = 0
  /\ BlockSize \div BlockSize = 1 /\ (2 * BlockSize) \div BlockSize = 2
  /\ 0 \div BlockSize = 0
  /\ \A j \in 1 .. BlockSize - 1 : j % BlockSize # 0 /\ (BlockSize + j) % BlockSize # 0
<1> DEFINE B == BlockSize
<1>1. B \in Nat \ {0}
  BY EdidAssumption
<1> HIDE DEF B
<1>2. ASSUME NEW i \in 1 .. 2 * B, i % B = 0
      PROVE  (i = B /\ i \div B = 1) \/ (i = 2 * B /\ i \div B = 2)
  <2>1. i = B * (i \div B) + (i % B) /\ i \div B \in Int
    BY <1>1
  <2>2. PICK q \in Int : q = i \div B /\ i = B * q
    BY <1>1, <1>2, <2>1
  <2>3. q > 0
    BY <1>1, <2>2
  <2>4. q <= 2
    BY <1>1, <2>2
  <2>5. q = 1 \/ q = 2
    BY <2>3, <2>4
  <2>6. CASE q = 1
    BY <1>1, <2>2, <2>6
  <2>7. CASE q = 2
    BY <1>1, <2>2, <2>7
  <2> QED BY <2>5, <2>6, <2>7
<1>3. B % B = 0 /\ (2 * B) % B = 0
  BY <1>1
<1>4. B \div B = 1 /\ (2 * B) \div B = 2 /\ 0 \div B = 0
  BY <1>1
<1>5. \A j \in 1 .. B - 1 : j % B # 0 /\ (B + j) % B # 0
  BY <1>1
<1> QED BY <1>2, <1>3, <1>4, <1>5 DEF B

\* The bytes in front of a checksum are bytes of the EDID.
LEMMA InBlock ==
  ASSUME NEW b \in EdidBytes, NEW i \in 1 .. Len(b), i % BlockSize = 0,
         NEW j \in 1 .. BlockSize - 1
  PROVE  /\ (i \div BlockSize - 1) * BlockSize + j \in 1 .. Len(b)
         /\ ((i \div BlockSize - 1) * BlockSize + j) % BlockSize # 0
         /\ (i \div BlockSize - 1) * BlockSize + BlockSize = i
<1>1. BlockSize \in Nat \ {0} /\ Len(b) \in {0, BlockSize, 2 * BlockSize}
  BY EdidAssumption DEF EdidBytes
<1>2. i \in 1 .. 2 * BlockSize
  BY <1>1
<1>3. CASE i = BlockSize /\ i \div BlockSize = 1
  <2>1. (i \div BlockSize - 1) * BlockSize = 0
    BY <1>1, <1>3
  <2> QED BY <1>1, <1>3, <2>1, BlockEnds, SMTT(30)
<1>4. CASE i = 2 * BlockSize /\ i \div BlockSize = 2
  <2>1. (i \div BlockSize - 1) * BlockSize = BlockSize
    BY <1>1, <1>4
  <2>2. Len(b) = 2 * BlockSize
    BY <1>1, <1>4
  <2>3. (BlockSize + j) % BlockSize # 0
    BY BlockEnds
  <2> QED BY <1>1, <1>4, <2>1, <2>2, <2>3
<1> QED BY <1>2, <1>3, <1>4, BlockEnds

\* set_edid changes the checksums and nothing else.
LEMMA FixFacts ==
  ASSUME NEW b \in EdidBytes
  PROVE  LET f == Host!fix_edid_checksum(b)
         IN  /\ f \in EdidBytes /\ Len(f) = Len(b)
             /\ \A i \in 1 .. Len(b) : i % BlockSize # 0 => f[i] = b[i]
             /\ \A i \in 1 .. Len(b) : i % BlockSize = 0 =>
                  f[i] = (Modulus - Host!BlockSum(b, i \div BlockSize - 1, BlockSize - 1)) % Modulus
<1> DEFINE f == Host!fix_edid_checksum(b)
           sum(i) == Host!BlockSum(b, i \div BlockSize - 1, BlockSize - 1)
<1>1. b \in Seq(Host!Byte) /\ Len(b) \in Nat /\ DOMAIN b = 1 .. Len(b)
  BY DEF EdidBytes
<1>2. f = [i \in 1 .. Len(b) |-> IF i % BlockSize # 0 THEN b[i] ELSE (Modulus - sum(i)) % Modulus]
  BY <1>1 DEF Host!fix_edid_checksum, Modulus
<1>3. ASSUME NEW i \in 1 .. Len(b), i % BlockSize = 0
      PROVE  (Modulus - sum(i)) % Modulus \in Host!Byte
  <2>1. Numbers(b, i \div BlockSize - 1, BlockSize - 1)
    <3>1. \A j \in 1 .. BlockSize - 1 : b[(i \div BlockSize - 1) * BlockSize + j] \in Host!Byte
      BY <1>1, <1>3, InBlock
    <3> QED BY <3>1, ModulusType DEF Numbers
  <2>2. BlockSize - 1 \in Nat
    BY EdidAssumption
  <2>3. sum(i) \in 0 .. Modulus - 1
    BY <2>1, <2>2, BlockSumFacts
  <2> HIDE DEF sum
  <2>4. Modulus - sum(i) \in Int
    BY <2>3, ModulusType
  <2> QED BY <2>4, ModFacts, ModulusType
<1>4. \A i \in 1 .. Len(b) : f[i] \in Host!Byte
  BY <1>1, <1>2, <1>3
<1>5. f \in Seq(Host!Byte) /\ Len(f) = Len(b)
  <2> HIDE DEF sum
  <2>1. f \in [1 .. Len(b) -> Host!Byte]
    BY <1>2, <1>4
  <2> HIDE DEF f
  <2> QED BY <1>1, <2>1
<1>6. f \in EdidBytes
  BY <1>5 DEF EdidBytes
<1> QED BY <1>2, <1>5, <1>6

\* A second set_edid with what the first one left changes nothing.
LEMMA FixTwice ==
  ASSUME NEW b \in EdidBytes
  PROVE  Host!fix_edid_checksum(Host!fix_edid_checksum(b)) = Host!fix_edid_checksum(b)
<1> DEFINE f == Host!fix_edid_checksum(b)
           g == Host!fix_edid_checksum(f)
           sum(x, i) == Host!BlockSum(x, i \div BlockSize - 1, BlockSize - 1)
<1>1. /\ f \in EdidBytes /\ Len(f) = Len(b)
      /\ \A i \in 1 .. Len(b) : i % BlockSize # 0 => f[i] = b[i]
      /\ \A i \in 1 .. Len(b) : i % BlockSize = 0 => f[i] = (Modulus - sum(b, i)) % Modulus
  BY FixFacts
<1> HIDE DEF f
<1>2. /\ g \in EdidBytes /\ Len(g) = Len(f)
      /\ \A i \in 1 .. Len(f) : i % BlockSize # 0 => g[i] = f[i]
      /\ \A i \in 1 .. Len(f) : i % BlockSize = 0 => g[i] = (Modulus - sum(f, i)) % Modulus
  BY <1>1, FixFacts
<1> HIDE DEF g
<1>3. ASSUME NEW i \in 1 .. Len(b), i % BlockSize = 0
      PROVE  sum(f, i) = sum(b, i)
  <2>1. \A j \in 1 .. BlockSize - 1 :
          /\ b[(i \div BlockSize - 1) * BlockSize + j] \in Host!Byte
          /\ b[(i \div BlockSize - 1) * BlockSize + j] = f[(i \div BlockSize - 1) * BlockSize + j]
    <3>1. \A k \in 1 .. Len(b) : b[k] \in Host!Byte
      BY DEF EdidBytes
    <3> QED BY <1>1, <1>3, <3>1, InBlock
  <2>2. Numbers(b, i \div BlockSize - 1, BlockSize - 1)
    BY <2>1, ModulusType DEF Numbers
  <2>3. Alike(b, f, i \div BlockSize - 1, BlockSize - 1)
    BY <2>1 DEF Alike
  <2>4. BlockSize - 1 \in Nat
    BY EdidAssumption
  <2> QED BY <2>2, <2>3, <2>4, BlockSumFacts
<1> HIDE DEF sum
<1>4. \A i \in 1 .. Len(b) : g[i] = f[i]
  BY <1>1, <1>2, <1>3
<1>5. /\ f = [i \in 1 .. Len(b) |-> f[i]]
      /\ g = [i \in 1 .. Len(b) |-> g[i]]
  BY <1>1, <1>2 DEF EdidBytes
<1>6. f = g
  BY <1>4, <1>5
<1> QED BY <1>6 DEF f, g

\* Blocks that are as set_edid leaves them add up to zero.
LEMMA ChecksumsOfFixed ==
  ASSUME NEW d \in EdidBytes, Host!fix_edid_checksum(d) = d
  PROVE  \A k \in 0 .. Len(d) \div BlockSize - 1 : Host!BlockSum(d, k, BlockSize) = 0
<1> SUFFICES ASSUME NEW k \in 0 .. Len(d) \div BlockSize - 1
             PROVE  Host!BlockSum(d, k, BlockSize) = 0
  OBVIOUS
<1>0. BlockSize \in Nat \ {0} /\ Len(d) \in {0, BlockSize, 2 * BlockSize}
  BY EdidAssumption DEF EdidBytes
<1>1. PICK i \in 1 .. Len(d) : i % BlockSize = 0 /\ i \div BlockSize - 1 = k
  <2>1. CASE Len(d) = 0
    BY <1>0, <2>1, BlockEnds
  <2>2. CASE Len(d) = BlockSize
    <3>1. k = 0
      BY <2>2, BlockEnds
    <3>2. BlockSize \in 1 .. Len(d)
      BY <1>0, <2>2
    <3> QED BY <1>0, <3>1, <3>2, BlockEnds
  <2>3. CASE Len(d) = 2 * BlockSize
    <3>1. k = 0 \/ k = 1
      BY <2>3, BlockEnds
    <3>2. BlockSize \in 1 .. Len(d) /\ 2 * BlockSize \in 1 .. Len(d)
      BY <1>0, <2>3
    <3> QED BY <1>0, <3>1, <3>2, BlockEnds
  <2> QED BY <1>0, <2>1, <2>2, <2>3
<1> DEFINE s == Host!BlockSum(d, k, BlockSize - 1)
<1>2. d[i] = (Modulus - s) % Modulus
  BY <1>1, FixFacts
<1>3. i = k * BlockSize + BlockSize
  <2>1. i \in 1 .. 2 * BlockSize
    BY <1>0
  <2>2. CASE i = BlockSize /\ i \div BlockSize = 1
    BY <1>0, <1>1, <2>2
  <2>3. CASE i = 2 * BlockSize /\ i \div BlockSize = 2
    <3>1. k = 1
      BY <1>1, <2>3
    <3> QED BY <1>0, <2>3, <3>1
  <2> QED BY <1>1, <2>1, <2>2, <2>3, BlockEnds
<1>4. \A j \in 1 .. BlockSize : k * BlockSize + j \in 1 .. Len(d)
  <2>1. \A j \in 1 .. BlockSize - 1 : k * BlockSize + j \in 1 .. Len(d)
    BY <1>1, InBlock
  <2>2. \A j \in 1 .. BlockSize : j = BlockSize \/ j \in 1 .. BlockSize - 1
    BY <1>0
  <2> QED BY <1>3, <2>1, <2>2
<1>5. \A j \in 1 .. BlockSize : d[k * BlockSize + j] \in Host!Byte
  BY <1>4 DEF EdidBytes
<1>6. Numbers(d, k, BlockSize) /\ Numbers(d, k, BlockSize - 1)
  <2>1. \A x \in Host!Byte : x \in Int
    BY ModulusType
  <2>2. \A j \in 1 .. BlockSize : d[k * BlockSize + j] \in Int
    BY <1>5, <2>1
  <2>3. \A j \in 1 .. BlockSize - 1 : j \in 1 .. BlockSize
    BY <1>0
  <2> QED BY <2>2, <2>3 DEF Numbers
<1>7. s \in 0 .. Modulus - 1
  BY <1>0, <1>6, BlockSumFacts
<1>8. Host!BlockSum(d, k, BlockSize) = (s + d[k * BlockSize + BlockSize]) % Modulus
  BY <1>0, <1>6, BlockSumFacts
<1> HIDE DEF s
<1> QED BY <1>2, <1>3, <1>7, <1>8, ChecksumCancels, ModulusType

\* jetkvm_video_get_edid_hex and hex_to_bytes undo each other.
LEMMA HexOfBytes ==
  ASSUME NEW d \in EdidBytes
  PROVE  Host!hex_to_bytes(Host!bytes_to_hex(d), BlockSize * Host!MaxBlocks) = d
<1> DEFINE hex == Host!bytes_to_hex(d)
<1>0. /\ BlockSize \in Nat \ {0} /\ Len(d) \in {0, BlockSize, 2 * BlockSize}
      /\ d \in Seq(Host!Byte) /\ Len(d) \in Nat
  BY EdidAssumption DEF EdidBytes
<1>1. hex = [i \in 1 .. 2 * Len(d) |->
               IF i % 2 = 1 THEN d[(i + 1) \div 2] \div Radix ELSE d[i \div 2] % Radix]
  BY DEF Host!bytes_to_hex
<1>2. \A i \in 1 .. Len(d) : /\ 2 * i - 1 \in 1 .. 2 * Len(d) /\ 2 * i \in 1 .. 2 * Len(d)
                             /\ (2 * i - 1) % 2 = 1 /\ (2 * i) % 2 = 0
                             /\ (2 * i - 1 + 1) \div 2 = i /\ (2 * i) \div 2 = i
  BY <1>0
<1>3. \A i \in 1 .. Len(d) : hex[2 * i - 1] = d[i] \div Radix /\ hex[2 * i] = d[i] % Radix
  BY <1>1, <1>2
<1>4. \A i \in 1 .. Len(d) : d[i] \in Host!Byte
  BY <1>0
<1>5. \A i \in 1 .. 2 * Len(d) : hex[i] \in Host!Digit
  <2>1. \A i \in 1 .. 2 * Len(d) : /\ i % 2 = 1 => (i + 1) \div 2 \in 1 .. Len(d)
                                   /\ i % 2 # 1 => i \div 2 \in 1 .. Len(d)
    BY <1>0
  <2> QED BY <1>1, <1>4, <2>1, ByteIsPair
<1>6. hex \in [1 .. 2 * Len(d) -> Host!Digit]
  BY <1>1, <1>5
<1> HIDE DEF hex
<1>7. Len(hex) = 2 * Len(d)
  BY <1>0, <1>6
<1>8. Len(hex) % 2 = 0 /\ Len(hex) \div 2 = Len(d) /\ Len(d) <= BlockSize * Host!MaxBlocks
  BY <1>0, <1>7 DEF Host!MaxBlocks
<1> DEFINE value == [i \in 1 .. Len(hex) \div 2 |-> Host!PairValue(hex[2 * i - 1], hex[2 * i])]
<1>9. ASSUME NEW i \in 1 .. Len(d)
      PROVE  Host!PairValue(hex[2 * i - 1], hex[2 * i]) = d[i]
  <2>1. d[i] \in Host!Byte /\ hex[2 * i - 1] = d[i] \div Radix /\ hex[2 * i] = d[i] % Radix
    BY <1>3, <1>4
  <2> QED BY <2>1, ByteIsPair DEF Host!PairValue
<1>10. value = [i \in 1 .. Len(d) |-> d[i]]
  BY <1>8, <1>9
<1>11. value = d
  <2>1. d = [i \in 1 .. Len(d) |-> d[i]]
    BY <1>0
  <2> HIDE DEF value
  <2> QED BY <1>10, <2>1
<1>12. \A i \in DOMAIN value : value[i] # -1
  BY <1>4, <1>11, <1>0, ModulusType
<1> HIDE DEF value
<1>13. Host!hex_to_bytes(hex, BlockSize * Host!MaxBlocks) = value
  BY <1>8, <1>12, <1>0 DEF Host!hex_to_bytes, value, Host!MaxBlocks
<1> QED BY <1>11, <1>13 DEF hex

\* What hex_to_bytes makes of two characters.
LEMMA PairValueType ==
  ASSUME NEW c, NEW d, Host!PairValue(c, d) # -1
  PROVE  Host!PairValue(c, d) \in Host!Byte
<1>1. 0 \in Host!Digit /\ Radix * 0 = 0 /\ \A x \in Host!Digit : x \in Int
  BY EdidAssumption DEF Host!Digit
<1>2. d \in Host!Digit
  BY DEF Host!PairValue
<1>3. CASE c \in Host!Digit
  BY <1>2, <1>3, PairIsByte DEF Host!PairValue
<1>4. CASE c \notin Host!Digit
  <2>1. Host!PairValue(c, d) = d
    BY <1>2, <1>4 DEF Host!PairValue
  <2>2. Radix * 0 + d \in Host!Byte
    BY <1>1, <1>2, PairIsByte
  <2> QED BY <1>1, <1>2, <2>1, <2>2
<1> QED BY <1>3, <1>4

\* What jetkvm_video_set_edid writes: whole blocks with their checksums, and,
\* when the string has digits only, the bytes they stand for.
LEMMA WriteFacts ==
  ASSUME NEW hex \in Seq(Int), NEW d \in Host!WriteEdid(hex)
  PROVE  /\ d \in EdidBytes /\ Host!fix_edid_checksum(d) = d
         /\ Host!WellFormed(hex) => Host!Denotes(hex, d)
         /\ hex = <<>> => d = <<>>
<1> DEFINE bytes == Host!hex_to_bytes(hex, BlockSize * Host!MaxBlocks)
           n == Len(hex) \div 2
           value == [i \in 1 .. n |-> Host!PairValue(hex[2 * i - 1], hex[2 * i])]
<1>0. BlockSize \in Nat \ {0} /\ Len(hex) \in Nat
  BY EdidAssumption
<1>1. /\ d = Host!fix_edid_checksum(bytes) /\ Host!Accepted(bytes)
  BY DEF Host!WriteEdid
<1>2. bytes # Host!Invalid /\ Len(bytes) \in {0, BlockSize, 2 * BlockSize}
  <2>1. 0 .. Host!MaxBlocks = {0, 1, 2}
    BY DEF Host!MaxBlocks
  <2> QED BY <1>0, <1>1, <2>1 DEF Host!Accepted
<1>3. bytes = value /\ Len(hex) % 2 = 0 /\ \A i \in 1 .. n : value[i] # -1
  BY <1>2 DEF Host!hex_to_bytes
<1>4. n \in Nat /\ 2 * n = Len(hex)
  BY <1>0, <1>3
<1>5. \A i \in 1 .. n : value[i] = Host!PairValue(hex[2 * i - 1], hex[2 * i])
  OBVIOUS
<1>6. value \in [1 .. n -> Host!Byte]
  <2>1. \A i \in 1 .. n : value[i] \in Host!Byte
    BY <1>3, <1>5, PairValueType
  <2>2. value = [i \in 1 .. n |-> value[i]]
    OBVIOUS
  <2> HIDE DEF value
  <2> QED BY <2>1, <2>2
<1> HIDE DEF bytes, value, n
<1>7. bytes \in Seq(Host!Byte) /\ Len(bytes) = n
  BY <1>3, <1>4, <1>6
<1>8. bytes \in EdidBytes
  BY <1>2, <1>7 DEF EdidBytes
<1>9. /\ d \in EdidBytes /\ Len(d) = n
      /\ \A i \in 1 .. n : i % BlockSize # 0 => d[i] = bytes[i]
  BY <1>1, <1>7, <1>8, FixFacts
<1>10. Host!fix_edid_checksum(d) = d
  BY <1>1, <1>8, FixTwice
<1>11. ASSUME Host!WellFormed(hex) PROVE Host!Denotes(hex, d)
  <2>1. \A i \in 1 .. n : 2 * i - 1 \in 1 .. Len(hex) /\ 2 * i \in 1 .. Len(hex)
    BY <1>4
  <2>2. \A i \in 1 .. Len(hex) : hex[i] \in Host!Digit
    BY <1>11, <1>0 DEF Host!WellFormed
  <2>3. \A i \in 1 .. n : Host!PairValue(hex[2 * i - 1], hex[2 * i]) = Radix * hex[2 * i - 1] + hex[2 * i]
    BY <2>1, <2>2 DEF Host!PairValue
  <2>4. DOMAIN d = 1 .. n
    BY <1>9 DEF EdidBytes
  <2>5. \A i \in DOMAIN d : i % BlockSize # 0 => d[i] = Radix * hex[2 * i - 1] + hex[2 * i]
    BY <1>3, <1>5, <1>9, <2>3, <2>4
  <2> QED BY <1>4, <1>9, <2>5 DEF Host!Denotes
<1>12. ASSUME hex = <<>> PROVE d = <<>>
  <2>1. Len(d) = 0
    BY <1>4, <1>9, <1>12
  <2> QED BY <1>9, <2>1 DEF EdidBytes
<1> QED BY <1>9, <1>10, <1>11, <1>12

----------------------------------------------------------------------------
(* The chip has the configured EDID. *)

Config == [edid : Inputs \cup {<<>>}, hide : BOOLEAN]

HostType ==
  /\ config \in Config
  /\ rpc \in [pc : {"idle", "apply", "save", "undo", "revert", "rollback"},
              force : BOOLEAN, prev : Config]
  /\ edge \in {"none", "first", "last"}

\* What is in the chip is whole blocks with right checksums.
ChipInv ==
  /\ device \in EdidBytes /\ Host!fix_edid_checksum(device) = device
  /\ advertised \in BOOLEAN

\* The call is between its change of the configuration and the write that
\* goes with it.
Pending == rpc.pc \in {"apply", "rollback"}

\* A chip shows what the configuration says.
Shows == Host!WellFormed(Host!configuredVideoEDID) => Host!Denotes(Host!configuredVideoEDID, device)

\* The calls and callbacks under way: the first session is there while its
\* callback runs; a call that takes its change back has seen a write fail; a
\* call that changes the idle mode leaves the EDID alone.
UnderWayInv ==
  /\ edge = "first" => session
  /\ rpc.pc = "undo" => stale
  /\ rpc.pc # "idle" /\ ~rpc.force => rpc.prev.edid = config.edid

\* Unless a write failed, the chip is hidden when it is said to be, has the
\* configured EDID unless a forced write of another one is due, and is
\* advertised when it should be unless somebody is about to see to it.
MatchInv ==
  ~stale =>
    /\ ~advertised => device = <<>>
    /\ advertised /\ ~(Pending /\ rpc.force) => Shows
    /\ edge = "none" /\ ~Pending => (advertised <=> Host!shouldAdvertise)

HostInv == HostType /\ ChipInv /\ UnderWayInv /\ MatchInv

\* The host's display moves by itself, or OnNativeRestart asks for it.
LEMMA HostCases ==
  ASSUME [Next]_vars
  PROVE  \/ UNCHANGED <<config, session, edge, rpc, advertised, device, stale>>
         \/ Host!Stimulus \/ Host!Step
<1>1. CASE External
  BY <1>1 DEF External, hostVars
<1>2. CASE Internal
  BY <1>2 DEF Internal, hostVars
<1>3. CASE Blinking
  BY <1>3 DEF Blinking, hostVars
<1>4. CASE Crash \/ RestartFails \/ RestartHangs \/ HungExits \/ Restart
  BY <1>4 DEF Crash, RestartFails, RestartHangs, HungExits, Restart, Attempt, hostVars
<1>5. CASE OnNativeRestart
  BY <1>5 DEF OnNativeRestart
<1>6. CASE UNCHANGED vars
  BY <1>6 DEF vars, hostVars
<1> QED BY <1>1, <1>2, <1>3, <1>4, <1>5, <1>6 DEF Next

\* The default EDID can be written.
LEMMA DefaultFacts ==
  LET d == Host!fix_edid_checksum(Host!hex_to_bytes(DefaultEDID, BlockSize * Host!MaxBlocks))
  IN  d \in EdidBytes /\ Host!fix_edid_checksum(d) = d
<1> DEFINE bytes == Host!hex_to_bytes(DefaultEDID, BlockSize * Host!MaxBlocks)
           n == Len(DefaultEDID) \div 2
           value == [i \in 1 .. n |-> Host!PairValue(DefaultEDID[2 * i - 1], DefaultEDID[2 * i])]
<1>1. /\ Len(DefaultEDID) \in Nat /\ Len(DefaultEDID) % 2 = 0
      /\ n \in {BlockSize, 2 * BlockSize} /\ n \in Nat /\ 2 * n = Len(DefaultEDID)
      /\ ~(n > BlockSize * Host!MaxBlocks)
  BY EdidAssumption DEF Host!MaxBlocks
<1>2. \A i \in 1 .. Len(DefaultEDID) : DefaultEDID[i] \in Host!Digit
  BY EdidAssumption
<1>3. \A i \in 1 .. n : 2 * i - 1 \in 1 .. Len(DefaultEDID) /\ 2 * i \in 1 .. Len(DefaultEDID)
  BY <1>1
<1> HIDE DEF n
<1>4. \A i \in 1 .. n : value[i] \in Host!Byte
  BY <1>2, <1>3, PairIsByte DEF Host!PairValue
<1>5. value \in [1 .. n -> Host!Byte]
  <2>1. value = [i \in 1 .. n |-> value[i]]
    OBVIOUS
  <2> HIDE DEF value
  <2> QED BY <1>4, <2>1
<1>6. \A i \in DOMAIN value : value[i] # -1
  BY <1>4, <1>5, ModulusType
<1>7. bytes = value
  BY <1>1, <1>6 DEF Host!hex_to_bytes, n
<1> HIDE DEF bytes, value
<1>8. bytes \in Seq(Host!Byte) /\ Len(bytes) = n
  BY <1>1, <1>5, <1>7
<1>9. bytes \in EdidBytes
  BY <1>1, <1>8 DEF EdidBytes
<1> QED BY <1>9, FixFacts, FixTwice DEF bytes

\* The invariant of the host's display holds initially ...
LEMMA HostInvInit == Init => HostInv
<1> SUFFICES ASSUME Init PROVE HostInv
  OBVIOUS
<1>0. Host!Init
  BY DEF Init
<1>1. config \in Config /\ rpc = Host!NoRpc /\ edge = "none"
  BY <1>0 DEF Host!Init, Config
<1>2. /\ Host!NoRpc \in [pc : {"idle", "apply", "save", "undo", "revert", "rollback"},
                         force : BOOLEAN, prev : Config]
      /\ Host!NoRpc.pc = "idle"
  BY DEF Host!NoRpc, Config
<1>3. stale
  BY <1>0 DEF Host!Init
<1>4. <<>> \in EdidBytes /\ Host!fix_edid_checksum(<<>>) = <<>>
  <2>1. <<>> \in Seq(Host!Byte) /\ Len(<<>>) = 0
    OBVIOUS
  <2>2. <<>> \in EdidBytes
    BY <2>1 DEF EdidBytes
  <2>3. Host!fix_edid_checksum(<<>>) \in EdidBytes /\ Len(Host!fix_edid_checksum(<<>>)) = 0
    BY <2>1, <2>2, FixFacts
  <2> QED BY <2>2, <2>3 DEF EdidBytes
<1>5. ChipInv
  <2>1. advertised \in BOOLEAN
    BY <1>0, Zenon DEF Host!Init
  <2> QED BY <1>0, <1>4, <2>1, DefaultFacts DEF Host!Init, ChipInv
<1> QED BY <1>1, <1>2, <1>3, <1>5 DEF HostInv, HostType, UnderWayInv, MatchInv

\* The strings setHostDisplayAdvertisedLocked hands to the native side.
LEMMA WireFacts ==
  ASSUME NEW c \in Config, config = c
  PROVE  /\ Host!Wire(Host!DisabledEDID) = <<>>
         /\ Host!Wire(Host!configuredVideoEDID) \in Seq(Int)
         /\ Host!WellFormed(Host!configuredVideoEDID) =>
              Host!Wire(Host!configuredVideoEDID) = Host!configuredVideoEDID
<1>1. Host!Digit \subseteq Int /\ Host!Sign \in Int /\ Host!Junk \in Int
  BY EdidAssumption DEF Host!Digit, Host!Sign, Host!Junk
<1>0. ASSUME NEW S \in SUBSET Int, NEW q \in Seq(S) PROVE q \in Seq(Int)
  <2>0. Len(q) \in Nat /\ q = [i \in 1 .. Len(q) |-> q[i]] /\ \A i \in 1 .. Len(q) : q[i] \in S
    OBVIOUS
  <2>1. q \in [1 .. Len(q) -> Int] /\ Len(q) \in Nat
    BY <2>0
  <2> QED BY <2>1
<1>2. DefaultEDID \in Seq(Int)
  BY <1>0, <1>1, EdidAssumption
<1>3. \A edid \in Inputs : edid \in Seq(Int)
  <2>1. Host!Digit \cup {Host!Sign, Host!Junk} \in SUBSET Int
    BY <1>1
  <2> QED BY <1>0, <2>1, EdidAssumption
<1>4. <<>> \in Seq(Int)
  OBVIOUS
<1>5. c.edid \in Inputs \cup {<<>>}
  BY DEF Config
<1>6. c.edid \in Seq(Int)
  BY <1>3, <1>4, <1>5
<1> DEFINE e == Host!configuredVideoEDID
<1>7. e = (IF c.edid \in {<<>>, Host!DisabledEDID} THEN DefaultEDID ELSE c.edid)
  BY DEF Host!configuredVideoEDID
<1>8. e \in Seq(Int) /\ (e = <<>> => DefaultEDID = <<>>)
  BY <1>2, <1>6, <1>7
<1> HIDE DEF e
<1>9. Host!Wire(e) \in Seq(Int)
  BY <1>2, <1>4, <1>8 DEF Host!Wire
<1>10. ASSUME Host!WellFormed(e) PROVE Host!Wire(e) = e
  <2>1. e # Host!DisabledEDID
    <3>1. /\ DOMAIN Host!DisabledEDID = {1} /\ Host!DisabledEDID[1] = -3 /\ -3 \notin Host!Digit
      BY EdidAssumption DEF Host!DisabledEDID, Host!Digit
    <3> QED BY <1>10, <3>1 DEF Host!WellFormed
  <2> QED BY <1>8, <2>1 DEF Host!Wire
<1>11. Host!Wire(Host!DisabledEDID) = <<>>
  BY DEF Host!Wire
<1> QED BY <1>9, <1>10, <1>11 DEF e

\* setHostDisplayAdvertisedLocked, asked for what should be: the chip stays
\* whole; and when nothing failed, now or before, it is as it should be,
\* provided that it was right or that the write was forced.
LEMMA UpdateFacts ==
  ASSUME HostInv, UNCHANGED <<config, session>>,
         NEW enabled \in BOOLEAN, enabled <=> Host!shouldAdvertise, NEW force \in BOOLEAN,
         Host!Update(enabled, force) \/ Host!UpdateFails(enabled, force)
  PROVE  /\ ChipInv'
         /\ rpc.pc = "undo" => stale'
         /\ ~stale' =>
              /\ advertised' <=> Host!shouldAdvertise
              /\ ~advertised' => device' = <<>>
              /\ advertised' /\ (force \/ (~stale /\ advertised => Shows)) => Shows'
<1>0. HostType /\ ChipInv /\ UnderWayInv /\ MatchInv
  BY DEF HostInv
<1>1. CASE Host!UpdateFails(enabled, force)
  <2>1. UNCHANGED <<device, advertised>> /\ stale'
    BY <1>1 DEF Host!UpdateFails, Host!WriteFails
  <2> QED BY <1>0, <2>1 DEF ChipInv
<1>2. CASE UNCHANGED <<device, advertised, stale>> /\ ~force /\ enabled = advertised
  <2>1. ChipInv'
    BY <1>0, <1>2 DEF ChipInv
  <2>2. Shows' <=> Shows
    BY <1>2 DEF Shows, Host!configuredVideoEDID, Host!WellFormed, Host!Denotes
  <2>3. advertised' <=> Host!shouldAdvertise
    BY <1>2
  <2> QED BY <1>0, <1>2, <2>1, <2>2, <2>3 DEF UnderWayInv, MatchInv
<1>3. CASE Host!WriteOk(enabled)
  <2> DEFINE edid == IF enabled THEN Host!configuredVideoEDID ELSE Host!DisabledEDID
  <2>1. PICK d \in Host!WriteEdid(Host!Wire(edid)) :
          device' = d /\ advertised' = enabled /\ stale' = (stale /\ Host!Undoing)
    BY <1>3 DEF Host!WriteOk
  <2>2. config \in Config
    BY <1>0 DEF HostType
  <2>3. Host!Wire(edid) \in Seq(Int)
    <3>1. <<>> \in Seq(Int)
      OBVIOUS
    <3>2. CASE enabled
      BY <2>2, <3>2, WireFacts
    <3>3. CASE ~enabled
      BY <2>2, <3>1, <3>3, WireFacts
    <3> QED BY <3>2, <3>3
  <2>4. /\ d \in EdidBytes /\ Host!fix_edid_checksum(d) = d
        /\ Host!WellFormed(Host!Wire(edid)) => Host!Denotes(Host!Wire(edid), d)
        /\ Host!Wire(edid) = <<>> => d = <<>>
    BY <2>1, <2>3, WriteFacts
  <2>5. ~enabled => device' = <<>>
    BY <2>1, <2>2, <2>4, WireFacts
  <2>6. enabled => Shows'
    <3> SUFFICES ASSUME enabled, Host!WellFormed(Host!configuredVideoEDID)
                 PROVE  Host!Denotes(Host!configuredVideoEDID, d)
      BY <2>1 DEF Shows, Host!configuredVideoEDID, Host!WellFormed, Host!Denotes
    <3>1. Host!Wire(edid) = Host!configuredVideoEDID
      BY <2>2, WireFacts
    <3> QED BY <2>4, <3>1
  <2>7. rpc.pc = "undo" => stale'
    BY <1>0, <2>1 DEF UnderWayInv, Host!Undoing
  <2>8. ChipInv'
    BY <2>1, <2>4 DEF ChipInv
  <2> QED BY <2>1, <2>5, <2>6, <2>7, <2>8
<1> QED BY <1>1, <1>2, <1>3 DEF Host!Update

\* What a step of a call leaves in rpc.
LEMMA RpcFacts ==
  ASSUME HostType
  PROVE  /\ Host!Return => /\ rpc'.pc = "idle" /\ rpc'.force = FALSE
                           /\ rpc' \in [pc : {"idle", "apply", "save", "undo", "revert", "rollback"},
                                        force : BOOLEAN, prev : Config]
         /\ \A pc \in {"save", "undo", "revert", "rollback"} :
              Host!Goto(pc) => /\ rpc'.pc = pc /\ rpc'.force = rpc.force /\ rpc'.prev = rpc.prev
                               /\ rpc' \in [pc : {"idle", "apply", "save", "undo", "revert", "rollback"},
                                            force : BOOLEAN, prev : Config]
<1>1. ASSUME Host!Return
      PROVE  /\ rpc'.pc = "idle" /\ rpc'.force = FALSE
             /\ rpc' \in [pc : {"idle", "apply", "save", "undo", "revert", "rollback"},
                          force : BOOLEAN, prev : Config]
  BY <1>1 DEF Host!Return, Host!NoRpc, Config
<1>2. ASSUME NEW pc \in {"save", "undo", "revert", "rollback"}, Host!Goto(pc)
      PROVE  /\ rpc'.pc = pc /\ rpc'.force = rpc.force /\ rpc'.prev = rpc.prev
             /\ rpc' \in [pc : {"idle", "apply", "save", "undo", "revert", "rollback"},
                          force : BOOLEAN, prev : Config]
  BY <1>2 DEF Host!Goto, HostType
<1> QED BY <1>1, <1>2

\* A call begins: nothing is asked of the chip until it has been applied.
LEMMA BeginStep ==
  ASSUME HostInv, NEW force \in BOOLEAN, NEW new \in Config, Host!Begin(force, new),
         ~force => new.edid = config.edid
  PROVE  HostInv'
<1>0. HostType /\ ChipInv /\ UnderWayInv /\ MatchInv
  BY DEF HostInv
<1>1. /\ rpc.pc = "idle" /\ rpc' = [pc |-> "apply", force |-> force, prev |-> config]
      /\ config' = new
      /\ UNCHANGED <<session, edge, advertised, device, stale>>
  BY DEF Host!Begin
<1>2. rpc'.pc = "apply" /\ rpc'.force = force /\ rpc'.prev = config
  BY <1>1
<1>3. HostType'
  BY <1>0, <1>1 DEF HostType
<1>4. ChipInv'
  BY <1>0, <1>1 DEF ChipInv
<1>5. UnderWayInv'
  BY <1>0, <1>1, <1>2 DEF UnderWayInv
<1>6. ~force => (Shows' <=> Shows)
  BY <1>1 DEF Shows, Host!configuredVideoEDID, Host!WellFormed, Host!Denotes
<1>7. MatchInv'
  BY <1>0, <1>1, <1>2, <1>6 DEF MatchInv, Pending
<1> QED BY <1>3, <1>4, <1>5, <1>7 DEF HostInv

\* ... and every step preserves it.
LEMMA HostInvStep == HostInv /\ [Next]_vars => HostInv'
<1> SUFFICES ASSUME HostInv, [Next]_vars PROVE HostInv'
  OBVIOUS
<1>0. HostType /\ ChipInv /\ UnderWayInv /\ MatchInv
  BY DEF HostInv
<1>1. CASE UNCHANGED <<config, session, edge, rpc, advertised, device, stale>>
  <2>1. Shows' <=> Shows
    BY <1>1 DEF Shows, Host!configuredVideoEDID, Host!WellFormed, Host!Denotes
  <2>2. Host!shouldAdvertise' <=> Host!shouldAdvertise
    BY <1>1 DEF Host!shouldAdvertise
  <2>3. MatchInv'
    BY <1>0, <1>1, <2>1, <2>2 DEF MatchInv, Pending
  <2> QED BY <1>0, <1>1, <2>3 DEF HostInv, HostType, ChipInv, UnderWayInv
<1>2. ASSUME NEW edid \in Inputs, Host!rpcSetEDID(edid) PROVE HostInv'
  <2>1. TRUE \in BOOLEAN
    BY Zenon
  <2>2. [config EXCEPT !.edid = edid] \in Config
    BY <1>0 DEF HostType, Config
  <2> QED BY <1>2, <2>1, <2>2, BeginStep DEF Host!rpcSetEDID
<1>3. ASSUME NEW enabled \in BOOLEAN, Host!rpcSetHostDisplayIdleMode(enabled) PROVE HostInv'
  <2>1. FALSE \in BOOLEAN
    BY Zenon
  <2>2. /\ [config EXCEPT !.hide = enabled] \in Config
        /\ [config EXCEPT !.hide = enabled].edid = config.edid
    BY <1>0 DEF HostType, Config
  <2> QED BY <1>3, <2>1, <2>2, BeginStep DEF Host!rpcSetHostDisplayIdleMode
<1>4. CASE Host!SessionEdge
  <2>1. /\ edge' \in {"first", "last"} /\ (edge' = "first" => session')
        /\ UNCHANGED <<config, rpc, advertised, device, stale>>
    BY <1>4 DEF Host!SessionEdge
  <2>2. Shows' <=> Shows
    BY <2>1 DEF Shows, Host!configuredVideoEDID, Host!WellFormed, Host!Denotes
  <2>3. MatchInv'
    BY <1>0, <2>1, <2>2 DEF MatchInv, Pending
  <2> QED BY <1>0, <2>1, <2>3 DEF HostInv, HostType, ChipInv, UnderWayInv
<1>5. CASE Host!RpcSave
  <2>1. /\ rpc.pc = "save" /\ (Host!Return \/ Host!Goto("revert"))
        /\ UNCHANGED <<config, session, edge, advertised, device, stale>>
    BY <1>5 DEF Host!RpcSave
  <2>2. /\ rpc'.pc \in {"idle", "revert"}
        /\ rpc'.pc = "revert" => rpc'.force = rpc.force /\ rpc'.prev = rpc.prev
        /\ HostType'
    BY <1>0, <2>1, RpcFacts DEF HostType
  <2>3. Shows' <=> Shows
    BY <2>1 DEF Shows, Host!configuredVideoEDID, Host!WellFormed, Host!Denotes
  <2>4. Host!shouldAdvertise' <=> Host!shouldAdvertise
    BY <2>1 DEF Host!shouldAdvertise
  <2>5. MatchInv'
    BY <1>0, <2>1, <2>2, <2>3, <2>4 DEF MatchInv, Pending
  <2>6. UnderWayInv'
    BY <1>0, <2>1, <2>2 DEF UnderWayInv
  <2> QED BY <1>0, <2>1, <2>2, <2>5, <2>6 DEF HostInv, ChipInv
<1>6. CASE Host!RpcUndo
  <2>1. /\ config' = rpc.prev /\ UNCHANGED <<session, edge, advertised, device, stale>>
        /\ \/ rpc.pc = "undo" /\ Host!Return
           \/ rpc.pc = "revert" /\ Host!Goto("rollback")
    BY <1>6 DEF Host!RpcUndo
  <2>2. HostType'
    BY <1>0, <2>1, RpcFacts DEF HostType
  <2>3. \/ rpc.pc = "undo" /\ rpc'.pc = "idle"
        \/ rpc.pc = "revert" /\ rpc'.pc = "rollback" /\ rpc'.force = rpc.force /\ rpc'.prev = rpc.prev
    BY <1>0, <2>1, RpcFacts
  <2>4. rpc.pc = "revert" /\ ~rpc.force => (Shows' <=> Shows)
    <3> SUFFICES ASSUME rpc.pc = "revert", ~rpc.force PROVE Shows' <=> Shows
      OBVIOUS
    <3>1. config'.edid = config.edid
      BY <1>0, <2>1 DEF UnderWayInv
    <3> QED BY <2>1, <3>1 DEF Shows, Host!configuredVideoEDID, Host!WellFormed, Host!Denotes
  <2>5. UnderWayInv'
    BY <1>0, <2>1, <2>3 DEF UnderWayInv
  <2>6. MatchInv'
    BY <1>0, <2>1, <2>3, <2>4 DEF MatchInv, Pending, UnderWayInv
  <2> QED BY <1>0, <2>1, <2>2, <2>5, <2>6 DEF HostInv, ChipInv
<1>7. ASSUME UNCHANGED <<config, session>>, NEW en \in BOOLEAN, en = Host!shouldAdvertise,
             NEW force \in BOOLEAN,
             ~force => ((~stale /\ advertised) => (Shows \/ (Pending /\ rpc.force))),
             Host!Update(en, force) \/ Host!UpdateFails(en, force),
             rpc' = rpc \/ (rpc.pc \in {"apply", "rollback"} /\ rpc.force = force),
             rpc'.pc \notin {"apply", "rollback"} \/ rpc' = rpc,
             HostType', UnderWayInv'
      PROVE  HostInv'
  <2>1. /\ ChipInv'
        /\ ~stale' => /\ advertised' <=> Host!shouldAdvertise
                      /\ ~advertised' => device' = <<>>
                      /\ (advertised' /\ (force \/ ((~stale /\ advertised) => Shows))) => Shows'
    BY <1>7, UpdateFacts
  <2>2. Host!shouldAdvertise' <=> Host!shouldAdvertise
    BY <1>7 DEF Host!shouldAdvertise
  <2>3. MatchInv'
    <3> SUFFICES ASSUME ~stale'
                 PROVE  (advertised' /\ ~(Pending /\ rpc.force)') => Shows'
      BY <2>1, <2>2 DEF MatchInv
    <3> SUFFICES ASSUME advertised', ~(Pending /\ rpc.force)', ~force PROVE Shows'
      BY <2>1
    <3> QED BY <1>7, <2>1 DEF Pending
  <2> QED BY <1>7, <2>1, <2>3 DEF HostInv
<1>8. PICK en \in BOOLEAN : en = Host!shouldAdvertise
  BY Zenon DEF Host!shouldAdvertise
<1>9. (~stale /\ advertised) => (Shows \/ (Pending /\ rpc.force))
  BY <1>0 DEF MatchInv
<1>10. rpc.force \in BOOLEAN
  BY <1>0 DEF HostType
<1>11. CASE Host!RpcApply
  <2>1. /\ rpc.pc = "apply" /\ UNCHANGED <<config, session, edge>>
        /\ \/ Host!Update(en, rpc.force) /\ Host!Goto("save")
           \/ Host!UpdateFails(en, rpc.force) /\ Host!Goto("undo")
    BY <1>8, <1>11 DEF Host!RpcApply
  <2>2. Host!UpdateFails(en, rpc.force) => stale'
    BY DEF Host!UpdateFails, Host!WriteFails
  <2>3. /\ HostType' /\ rpc'.pc \in {"save", "undo"} /\ (rpc'.pc = "undo" => stale')
        /\ rpc'.force = rpc.force /\ rpc'.prev = rpc.prev
    BY <1>0, <2>1, <2>2, RpcFacts DEF HostType
  <2>4. UnderWayInv'
    BY <1>0, <2>1, <2>3 DEF UnderWayInv
  <2> QED BY <1>7, <1>8, <1>9, <1>10, <2>1, <2>3, <2>4
<1>12. CASE Host!RpcRollback
  <2>1. /\ rpc.pc = "rollback" /\ UNCHANGED <<config, session, edge>> /\ Host!Return
        /\ Host!Update(en, rpc.force) \/ Host!UpdateFails(en, rpc.force)
    BY <1>8, <1>12 DEF Host!RpcRollback
  <2>2. HostType' /\ rpc'.pc = "idle"
    BY <1>0, <2>1, RpcFacts DEF HostType
  <2>3. UnderWayInv'
    BY <1>0, <2>1, <2>2 DEF UnderWayInv
  <2> QED BY <1>7, <1>8, <1>9, <1>10, <2>1, <2>2, <2>3
<1>13. CASE Host!EdgeApply
  <2>1. /\ UNCHANGED <<config, session, rpc>> /\ edge # "none" /\ edge' = "none"
        /\ \/ Host!Update(edge = "first" \/ Host!shouldAdvertise, FALSE)
           \/ Host!UpdateFails(edge = "first" \/ Host!shouldAdvertise, FALSE)
    BY <1>13 DEF Host!EdgeApply
  <2>2. (edge = "first" \/ Host!shouldAdvertise) = en
    <3>1. edge = "first" => Host!shouldAdvertise
      BY <1>0 DEF UnderWayInv, Host!shouldAdvertise
    <3> QED BY <1>8, <3>1
  <2>3. FALSE \in BOOLEAN /\ (Host!Update(en, FALSE) \/ Host!UpdateFails(en, FALSE))
    BY <2>1, <2>2, Zenon
  <2>4. HostType'
    BY <1>0, <2>1 DEF HostType
  <2>5. rpc.pc = "undo" => stale'
    BY <2>1, <2>3, <1>8, UpdateFacts
  <2>6. UnderWayInv'
    BY <1>0, <2>1, <2>5 DEF UnderWayInv
  <2> QED BY <1>7, <1>8, <1>9, <2>1, <2>3, <2>4, <2>6
<1>14. CASE Host!Reapply
  <2>1. /\ UNCHANGED <<config, session, rpc, edge>>
        /\ Host!Update(en, TRUE) \/ Host!UpdateFails(en, TRUE)
    BY <1>8, <1>14 DEF Host!Reapply
  <2>2. TRUE \in BOOLEAN
    BY Zenon
  <2>3. HostType'
    BY <1>0, <2>1 DEF HostType
  <2>4. rpc.pc = "undo" => stale'
    BY <2>1, <2>2, <1>8, UpdateFacts
  <2>5. UnderWayInv'
    BY <1>0, <2>1, <2>4 DEF UnderWayInv
  <2> QED BY <1>7, <1>8, <2>1, <2>2, <2>3, <2>5
<1>15. CASE Host!Stimulus
  BY <1>2, <1>3, <1>4, <1>15 DEF Host!Stimulus
<1>16. CASE Host!Step
  BY <1>5, <1>6, <1>11, <1>12, <1>13, <1>14, <1>16 DEF Host!Step
<1> QED BY <1>1, <1>15, <1>16, HostCases

\* The invariant holds for ever.
LEMMA HostInvariant == Spec => []HostInv
BY HostInvInit, HostInvStep, PTL DEF Spec

\* Once every call and callback is done, and unless the last write failed, the
\* capture chip has the EDID config.EdidString stands for exactly when the
\* host is to see a display, and no block otherwise (video.go and jsonrpc.go),
\* for every radix, block size, default EDID and set of inputs.
THEOREM ChipMatchesConfig == Spec => []DeviceMatchesConfig
<1>1. HostInv => DeviceMatchesConfig
  <2> SUFFICES ASSUME HostInv, Host!Rest, ~stale
               PROVE  /\ advertised = Host!shouldAdvertise
                      /\ Host!shouldAdvertise => Shows
                      /\ ~Host!shouldAdvertise => device = <<>>
    BY DEF DeviceMatchesConfig, Host!DeviceMatchesConfig, Shows
  <2>1. MatchInv /\ edge = "none" /\ ~Pending
    BY DEF HostInv, Host!Rest, Pending
  <2>2. advertised <=> Host!shouldAdvertise
    BY <2>1 DEF MatchInv
  <2>3. advertised \in BOOLEAN
    BY DEF HostInv, ChipInv
  <2>4. advertised = Host!shouldAdvertise
    BY <2>2, <2>3, Zenon DEF Host!shouldAdvertise
  <2> QED BY <2>1, <2>2, <2>4 DEF MatchInv
<1> QED BY <1>1, HostInvariant, PTL

\* Every block in the capture chip adds up to zero, and what rpcGetEDID returns
\* can be given back to rpcSetEDID and leads to the same chip (edid.c, ctrl.c).
THEOREM EdidStaysSound == Spec => []EdidSound
<1>1. HostInv => EdidSound
  <2> SUFFICES ASSUME HostInv PROVE Host!ChecksumsRight /\ Host!ReadBack
    BY DEF EdidSound
  <2>1. device \in EdidBytes /\ Host!fix_edid_checksum(device) = device
    BY DEF HostInv, ChipInv
  <2>2. Host!ChecksumsRight
    BY <2>1, ChecksumsOfFixed DEF Host!ChecksumsRight
  <2>3. Host!ReadBack
    BY <2>1, HexOfBytes DEF Host!ReadBack, Host!rpcGetEDID, Host!ReadEdid
  <2> QED BY <2>2, <2>3
<1> QED BY <1>1, HostInvariant, PTL

----------------------------------------------------------------------------
(* The status of the capture chip (videoc_log_status). *)

Tokens == Stat!Levels \cup {Stat!Report[n] : n \in 1 .. 3} \cup {"message"}

\* What is left of the report when k of its texts are logged.
LeftIs(left, k) ==
  /\ left \in Seq(Tokens) /\ Len(left) = 3 - k
  /\ \A n \in 1 .. 3 - k : left[n] = Stat!Report[k + n]

\* The kernel log has records of two tokens, of which the first is the level.
Records ==
  \E h \in Nat : /\ Len(klog) = 2 * h
                 /\ \A g \in 1 .. h : klog[2 * g - 1] \in Stat!Levels

\* Where the texts of the call stand in the log when k of them are there: in
\* order, each after its level, and with no other text of the driver between
\* or after them.
Placed(q, k) ==
  /\ \A n \in 1 .. k : /\ q[n] \in 2 .. Len(klog)
                       /\ klog[q[n]] = Stat!Report[n] /\ klog[q[n] - 1] = "<6>"
  /\ \A n, m \in 1 .. k : n < m => q[n] < q[m]
  /\ k > 0 => \A i \in 1 .. Len(klog) : \A n \in 1 .. 3 :
                i >= q[1] /\ klog[i] = Stat!Report[n] => n <= k /\ i = q[n]

\* While a call is under way the texts that are not left stand in the log; the
\* last answer is whole.
StatusInv ==
  /\ klog \in Seq(Tokens) /\ Records
  /\ status \in [pc : {"idle", "ask", "log", "killed"}, left : Seq(Tokens)]
  /\ status.pc # "idle" =>
       \E k \in 0 .. 3 : /\ LeftIs(status.left, k) /\ (status.pc = "ask" => k = 0)
                         /\ \E q \in [1 .. 3 -> 0 .. Len(klog)] : Placed(q, k)
  /\ StatusWhole

\* The log moves by itself, or the call in it is killed.
LEMMA StatusCases ==
  ASSUME [Next]_vars
  PROVE  \/ UNCHANGED statVars
         \/ Stat!Stimulus \/ Stat!Step
         \/ Stat!Killed /\ UNCHANGED <<klog, answer>>
<1>1. CASE External
  BY <1>1 DEF External
<1>2. CASE Internal
  BY <1>2 DEF Internal
<1>3. CASE Blinking
  BY <1>3 DEF Blinking
<1>4. CASE Crash
  BY <1>4 DEF Crash
<1>5. CASE RestartFails \/ RestartHangs \/ HungExits \/ Restart \/ OnNativeRestart
  BY <1>5 DEF RestartFails, RestartHangs, HungExits, Restart, Attempt, OnNativeRestart
<1>6. CASE UNCHANGED vars
  BY <1>6 DEF vars
<1> QED BY <1>1, <1>2, <1>3, <1>4, <1>5, <1>6 DEF Next

\* The texts of the report, which are no levels and are all different.
LEMMA ReportFacts ==
  /\ DOMAIN Stat!Report = 1 .. 3
  /\ Stat!Report[1] = "START_STATUS" /\ Stat!Report[2] = "status" /\ Stat!Report[3] = "END_STATUS"
  /\ \A n \in 1 .. 3 : Stat!Report[n] \notin Stat!Levels /\ Stat!Report[n] # "message"
BY DEF Stat!Report, Stat!Levels

\* A sequence without its first element.
LEMMA TailFacts ==
  ASSUME NEW S, NEW s \in Seq(S), Len(s) > 0
  PROVE  /\ Tail(s) \in Seq(S) /\ Len(Tail(s)) = Len(s) - 1 /\ s # <<>> /\ Head(s) = s[1]
         /\ \A i \in 1 .. Len(s) - 1 : Tail(s)[i] = s[i + 1]
<1>1. s # <<>>
  OBVIOUS
<1> QED BY <1>1

\* The driver logs the text after those that are logged.
LEMMA LeftFacts ==
  ASSUME NEW k \in 0 .. 3, NEW left, LeftIs(left, k)
  PROVE  /\ left = <<>> <=> k = 3
         /\ k < 3 => Head(left) = Stat!Report[k + 1] /\ LeftIs(Tail(left), k + 1)
<1>1. left \in Seq(Tokens) /\ Len(left) = 3 - k /\ \A n \in 1 .. 3 - k : left[n] = Stat!Report[k + n]
  BY DEF LeftIs
<1>2. CASE k = 3
  BY <1>1, <1>2
<1>3. CASE k < 3
  <2>1. /\ Tail(left) \in Seq(Tokens) /\ Len(Tail(left)) = Len(left) - 1
        /\ left # <<>> /\ Head(left) = left[1]
        /\ \A i \in 1 .. Len(left) - 1 : Tail(left)[i] = left[i + 1]
    BY <1>1, <1>3, TailFacts
  <2>2. Head(left) = Stat!Report[k + 1]
    BY <1>1, <1>3, <2>1
  <2>3. ASSUME NEW n \in 1 .. 3 - (k + 1) PROVE Tail(left)[n] = Stat!Report[k + 1 + n]
    <3>1. n \in 1 .. Len(left) - 1 /\ n + 1 \in 1 .. 3 - k /\ k + (n + 1) = k + 1 + n
      BY <1>1, <1>3
    <3> QED BY <1>1, <2>1, <3>1
  <2>4. Tail(left) \in Seq(Tokens) /\ Len(Tail(left)) = 3 - (k + 1) /\ left # <<>>
    BY <1>1, <1>3, <2>1
  <2>5. LeftIs(Tail(left), k + 1)
    BY <2>3, <2>4 DEF LeftIs
  <2> QED BY <1>3, <2>2, <2>4, <2>5
<1> QED BY <1>2, <1>3

\* The log has one record more, the last one.
Grown(level, text) ==
  /\ klog \in Seq(Tokens) /\ klog' \in Seq(Tokens) /\ Len(klog) \in Nat
  /\ Len(klog') = Len(klog) + 2
  /\ \A i \in 1 .. Len(klog) : klog'[i] = klog[i]
  /\ klog'[Len(klog) + 1] = level /\ klog'[Len(klog) + 2] = text

\* A new record comes last ...
LEMMA NewRecord ==
  ASSUME klog \in Seq(Tokens), NEW level \in Stat!Levels, NEW text \in Tokens,
         klog' = klog \o <<level, text>>
  PROVE  Grown(level, text)
<1>1. level \in Tokens
  BY DEF Tokens
<1>2. <<level, text>> \in Seq(Tokens) /\ Len(<<level, text>>) = 2
      /\ <<level, text>>[1] = level /\ <<level, text>>[2] = text
  BY <1>1
<1> QED BY <1>2 DEF Grown

\* ... and has its level in front.
LEMMA GrownRecords ==
  ASSUME Records, NEW level \in Stat!Levels, NEW text, Grown(level, text)
  PROVE  Records'
<1>1. PICK h \in Nat : Len(klog) = 2 * h /\ \A g \in 1 .. h : klog[2 * g - 1] \in Stat!Levels
  BY DEF Records
<1>2. PICK k \in Nat : k = h + 1
  OBVIOUS
<1>3. Len(klog') = 2 * k
  BY <1>1, <1>2 DEF Grown
<1>4. \A g \in 1 .. k : klog'[2 * g - 1] \in Stat!Levels
  <2> TAKE g \in 1 .. k
  <2>1. CASE g = h + 1
    <3>1. 2 * g - 1 = Len(klog) + 1
      BY <1>1, <2>1
    <3> QED BY <3>1 DEF Grown
  <2>2. CASE g \in 1 .. h
    <3>1. 2 * g - 1 \in 1 .. Len(klog)
      BY <1>1, <2>2
    <3> QED BY <1>1, <2>2, <3>1 DEF Grown
  <2> QED BY <1>2, <2>1, <2>2
<1> QED BY <1>3, <1>4, Zenon DEF Records

\* A record of somebody else leaves the texts where they are ...
LEMMA MessageKeepsPlaces ==
  ASSUME NEW level \in Stat!Levels, Grown(level, "message"),
         NEW k \in 0 .. 3, NEW q \in [1 .. 3 -> 0 .. Len(klog)], Placed(q, k)
  PROVE  q \in [1 .. 3 -> 0 .. Len(klog')] /\ Placed(q, k)'
<1>1. /\ Len(klog) \in Nat /\ Len(klog') = Len(klog) + 2
      /\ \A i \in 1 .. Len(klog) : klog'[i] = klog[i]
      /\ klog'[Len(klog) + 1] = level /\ klog'[Len(klog) + 2] = "message"
  BY DEF Grown
<1>2. \A n \in 1 .. 3 : Stat!Report[n] # level /\ Stat!Report[n] # "message"
  BY ReportFacts
<1>3. \A n \in 1 .. k : /\ q[n] \in 2 .. Len(klog')
                        /\ klog'[q[n]] = Stat!Report[n] /\ klog'[q[n] - 1] = "<6>"
  <2> TAKE n \in 1 .. k
  <2>1. q[n] \in 2 .. Len(klog) /\ klog[q[n]] = Stat!Report[n] /\ klog[q[n] - 1] = "<6>"
    BY DEF Placed
  <2>2. \A x \in 2 .. Len(klog) : /\ x \in 1 .. Len(klog) /\ x - 1 \in 1 .. Len(klog)
                                  /\ x \in 2 .. Len(klog')
    BY <1>1
  <2>3. klog'[q[n]] = klog[q[n]] /\ klog'[q[n] - 1] = klog[q[n] - 1]
    BY <1>1, <2>1, <2>2
  <2> QED BY <2>1, <2>2, <2>3
<1>4. ASSUME k > 0, NEW i \in 1 .. Len(klog'), NEW n \in 1 .. 3,
             i >= q[1], klog'[i] = Stat!Report[n]
      PROVE  n <= k /\ i = q[n]
  <2>1. i \in 1 .. Len(klog)
    BY <1>1, <1>2, <1>4, SMTT(30)
  <2> QED BY <1>1, <1>4, <2>1 DEF Placed
<1> QED BY <1>1, <1>3, <1>4 DEF Placed

\* ... and the driver puts its next text last.
LEMMA DriverKeepsPlaces ==
  ASSUME NEW k \in 0 .. 2, NEW q \in [1 .. 3 -> 0 .. Len(klog)], Placed(q, k),
         Grown("<6>", Stat!Report[k + 1])
  PROVE  \E p \in [1 .. 3 -> 0 .. Len(klog')] : Placed(p, k + 1)'
<1>0. k + 1 \in 1 .. 3
  OBVIOUS
<1>1. /\ Len(klog) \in Nat /\ Len(klog') = Len(klog) + 2
      /\ \A i \in 1 .. Len(klog) : klog'[i] = klog[i]
      /\ klog'[Len(klog) + 1] = "<6>" /\ klog'[Len(klog) + 2] = Stat!Report[k + 1]
  BY DEF Grown
<1>2. \A n, m \in 1 .. 3 : /\ Stat!Report[n] # "<6>"
                           /\ Stat!Report[n] = Stat!Report[m] => n = m
  <2> TAKE n, m \in 1 .. 3
  <2>1. n \in {1, 2, 3} /\ m \in {1, 2, 3}
    OBVIOUS
  <2> QED BY <2>1, ReportFacts DEF Stat!Levels
<1>3. PICK p \in [1 .. 3 -> 0 .. Len(klog')] :
           p[k + 1] = Len(klog) + 2 /\ \A n \in 1 .. k : p[n] = q[n]
  <2> DEFINE p == [q EXCEPT ![k + 1] = Len(klog) + 2]
  <2>1. p \in [1 .. 3 -> 0 .. Len(klog')] /\ p[k + 1] = Len(klog) + 2
        /\ \A n \in 1 .. k : p[n] = q[n]
    BY <1>0, <1>1
  <2> QED BY <2>1
<1>4. \A n \in 1 .. k : q[n] \in 2 .. Len(klog) /\ klog[q[n]] = Stat!Report[n] /\ klog[q[n] - 1] = "<6>"
  BY DEF Placed
<1>5. ASSUME NEW n \in 1 .. k + 1
      PROVE  /\ p[n] \in 2 .. Len(klog')
             /\ klog'[p[n]] = Stat!Report[n] /\ klog'[p[n] - 1] = "<6>"
  <2>1. CASE n = k + 1
    BY <1>1, <1>3, <2>1, SMTT(30)
  <2>2. CASE n \in 1 .. k
    <3>1. q[n] \in 2 .. Len(klog) /\ klog[q[n]] = Stat!Report[n] /\ klog[q[n] - 1] = "<6>"
      BY <1>4, <2>2
    <3>2. \A x \in 2 .. Len(klog) : /\ x \in 1 .. Len(klog) /\ x - 1 \in 1 .. Len(klog)
                                    /\ x \in 2 .. Len(klog')
      BY <1>1
    <3>3. klog'[q[n]] = klog[q[n]] /\ klog'[q[n] - 1] = klog[q[n] - 1]
      BY <1>1, <3>1, <3>2
    <3>4. p[n] = q[n]
      BY <1>3, <2>2
    <3> QED BY <3>1, <3>2, <3>3, <3>4
  <2> QED BY <2>1, <2>2
<1>6. ASSUME NEW n \in 1 .. k + 1, NEW m \in 1 .. k + 1, n < m
      PROVE  p[n] < p[m]
  <2>1. CASE m = k + 1
    BY <1>1, <1>3, <1>4, <1>6, <2>1, SMTT(30)
  <2>2. CASE m \in 1 .. k
    BY <1>3, <1>6, <2>2 DEF Placed
  <2> QED BY <2>1, <2>2
<1>7. ASSUME NEW i \in 1 .. Len(klog'), NEW n \in 1 .. 3, i >= p[1], klog'[i] = Stat!Report[n]
      PROVE  n <= k + 1 /\ i = p[n]
  <2>1. CASE i = Len(klog) + 2
    <3>1. n = k + 1
      BY <1>0, <1>1, <1>2, <1>7, <2>1
    <3> QED BY <1>3, <2>1, <3>1
  <2>2. CASE i = Len(klog) + 1
    BY <1>1, <1>2, <1>7, <2>2
  <2>3. CASE i \in 1 .. Len(klog)
    <3>1. k > 0
      BY <1>1, <1>3, <1>7, <2>3
    <3>2. p[1] = q[1]
      BY <1>3, <3>1
    <3>3. n <= k /\ i = q[n]
      BY <1>1, <1>7, <2>3, <3>1, <3>2, SMTT(30) DEF Placed
    <3> QED BY <1>3, <3>3, SMTT(30)
  <2>4. i = Len(klog) + 2 \/ i = Len(klog) + 1 \/ i \in 1 .. Len(klog)
    BY <1>1, SMTT(30)
  <2> QED BY <2>1, <2>2, <2>3, <2>4
<1>8. Placed(p, k + 1)'
  BY <1>5, <1>6, <1>7 DEF Placed
<1> QED BY <1>3, <1>8

\* What StatusWhole says of an answer.
Whole(text) ==
  IF Stat!Starts(text) = {} THEN Len(text) = 2 * Window
  ELSE /\ Stat!OneReport(text)
       /\ text[2] = "START_STATUS" /\ text[1] = Stat!Blank
       /\ \A i \in DOMAIN text : text[i] # "<6>"

\* buf is the log without its first c tokens.
Ending(buf, c) ==
  /\ buf \in Seq(Tokens) /\ c \in 0 .. Len(klog) /\ Len(buf) = Len(klog) - c
  /\ \A i \in 1 .. Len(buf) : buf[i] = klog[c + i]
  /\ c = 0 \/ Len(buf) = 2 * Window
  /\ c < Len(klog) => klog[c + 1] \in Stat!Levels

\* The end of a sequence.
LEMMA EndFacts ==
  ASSUME NEW S, NEW t \in Seq(S), NEW c \in 0 .. Len(t)
  PROVE  /\ SubSeq(t, c + 1, Len(t)) \in Seq(S)
         /\ Len(SubSeq(t, c + 1, Len(t))) = Len(t) - c
         /\ \A i \in 1 .. Len(t) - c : SubSeq(t, c + 1, Len(t))[i] = t[c + i]
OBVIOUS

\* klogctl returns whole records, as many as fit.
LEMMA NewestFacts ==
  ASSUME klog \in Seq(Tokens), Records
  PROVE  \E c \in 0 .. Len(klog) : Ending(Stat!Newest, c)
<1>1. PICK h \in Nat : Len(klog) = 2 * h /\ \A g \in 1 .. h : klog[2 * g - 1] \in Stat!Levels
  BY DEF Records
<1>2. Window \in Nat
  BY RestartAssumption
<1>3. CASE Len(klog) <= 2 * Window
  <2>1. Stat!Newest = klog
    BY <1>3 DEF Stat!Newest
  <2>2. 0 < Len(klog) => klog[0 + 1] \in Stat!Levels
    <3> SUFFICES ASSUME 0 < Len(klog) PROVE klog[1] \in Stat!Levels
      OBVIOUS
    <3>1. 1 \in 1 .. h /\ 2 * 1 - 1 = 1
      BY <1>1
    <3> QED BY <1>1, <3>1
  <2>3. Ending(klog, 0)
    BY <1>1, <2>2 DEF Ending
  <2> QED BY <1>1, <2>1, <2>3
<1>4. CASE Len(klog) > 2 * Window
  <2>0. Len(klog) - 2 * Window \in Nat
    BY <1>1, <1>2, <1>4
  <2>1. PICK c \in Nat : c = Len(klog) - 2 * Window
    BY <2>0, Zenon
  <2>2. Stat!Newest = SubSeq(klog, c + 1, Len(klog)) /\ c \in 1 .. Len(klog)
    BY <1>1, <1>2, <1>4, <2>1 DEF Stat!Newest
  <2>3. PICK buf \in Seq(Tokens) : /\ buf = SubSeq(klog, c + 1, Len(klog))
                                   /\ Len(buf) = Len(klog) - c
                                   /\ \A i \in 1 .. Len(buf) : buf[i] = klog[c + i]
    <3>1. \A i \in c + 1 .. Len(klog) : klog[i] \in Tokens
      BY <1>1, <2>2
    <3>2. /\ SubSeq(klog, c + 1, Len(klog)) \in Seq(Tokens)
          /\ Len(SubSeq(klog, c + 1, Len(klog))) = Len(klog) - c
          /\ \A i \in 1 .. Len(klog) - c : SubSeq(klog, c + 1, Len(klog))[i] = klog[c + i]
      BY <1>1, <2>2, EndFacts
    <3> QED BY <3>2, Zenon
  <2>4. c < Len(klog) => klog[c + 1] \in Stat!Levels
    <3> SUFFICES ASSUME c < Len(klog) PROVE klog[c + 1] \in Stat!Levels
      OBVIOUS
    <3>1. PICK g \in Nat : g = h - Window + 1
      BY <1>1, <1>2, <1>4
    <3>2. g \in 1 .. h /\ 2 * g - 1 = c + 1
      BY <1>1, <1>2, <1>4, <2>1, <3>1
    <3> QED BY <1>1, <3>2
  <2>5. Len(buf) = 2 * Window
    BY <1>1, <1>2, <2>1, <2>3
  <2>6. Ending(buf, c)
    BY <2>2, <2>3, <2>4, <2>5 DEF Ending
  <2> QED BY <1>1, <2>2, <2>3, <2>6
<1> QED BY <1>1, <1>2, <1>3, <1>4

\* The loops over the buffer end at the level before the last START_STATUS.
LEMMA LoopsEnd ==
  ASSUME NEW buf, NEW N \in Nat, DOMAIN buf = 1 .. N, NEW s \in 2 .. N,
         buf[s] = "START_STATUS", buf[s - 1] = "<6>",
         \A i \in 1 .. N : buf[i] = "START_STATUS" => i <= s
  PROVE  s \in Stat!Starts(buf) /\ Stat!LastStart(buf) = s /\ Stat!LineStart(buf, s) = s - 1
<1>1. "START_STATUS" \notin Stat!Levels /\ "<6>" \in Stat!Levels
  BY DEF Stat!Levels
<1>2. s \in Nat /\ 2 <= s /\ s <= N
  OBVIOUS
<1>3. s \in Stat!Starts(buf) /\ \A j \in Stat!Starts(buf) : j \in 1 .. N /\ j <= s
  BY <1>2 DEF Stat!Starts
<1>4. Stat!LastStart(buf) = s
  <2>1. \A i \in Stat!Starts(buf) : (\A j \in Stat!Starts(buf) : j <= i) => i = s
    BY <1>2, <1>3
  <2> QED BY <1>3, <2>1 DEF Stat!LastStart
<1>5. Stat!LineStart(buf, s) = s - 1
  <2> DEFINE P(j) == /\ j = 1 \/ buf[j] \in Stat!Levels
                     /\ \A k \in j + 1 .. s : buf[k] \notin Stat!Levels
  <2>1. s - 1 \in 1 .. s /\ P(s - 1)
    <3>1. \A k \in s - 1 + 1 .. s : k = s
      BY <1>2
    <3> QED BY <1>1, <1>2, <3>1
  <2>2. ASSUME NEW j \in 1 .. s, P(j) PROVE j = s - 1
    <3>1. j # s
      BY <1>1, <1>2, <2>2
    <3>2. ~(j < s - 1)
      <4> SUFFICES ASSUME j < s - 1 PROVE FALSE
        OBVIOUS
      <4>1. s - 1 \in j + 1 .. s
        BY <1>2
      <4> QED BY <1>1, <2>2, <4>1
    <3> QED BY <1>2, <3>1, <3>2
  <2> HIDE DEF P
  <2>3. (CHOOSE j \in 1 .. s : P(j)) = s - 1
    BY <2>1, <2>2
  <2> QED BY <2>3 DEF Stat!LineStart, P
<1> QED BY <1>3, <1>4, <1>5

\* The texts of the call in the buffer, when the first of them is there.
InBuffer(buf, w) ==
  /\ w[1] >= 2 /\ buf[w[1] - 1] = "<6>"
  /\ \A n \in 1 .. 3 : w[n] \in 1 .. Len(buf) /\ buf[w[n]] = Stat!Report[n]
  /\ w[1] < w[2] /\ w[2] < w[3]
  /\ \A i \in 1 .. Len(buf) : \A n \in 1 .. 3 :
       i >= w[1] /\ buf[i] = Stat!Report[n] => i = w[n]

\* What is cut out of such a buffer is the report of the call.
LEMMA CutIsWhole ==
  ASSUME NEW buf \in Seq(Tokens), NEW w \in [1 .. 3 -> Nat], InBuffer(buf, w)
  PROVE  Whole(Stat!Extract(buf))
<1>1. Len(buf) \in Nat /\ DOMAIN buf = 1 .. Len(buf)
  OBVIOUS
<1>2. PICK s \in Nat : s = w[1]
  OBVIOUS
<1>3. s \in 2 .. Len(buf) /\ buf[s] = "START_STATUS" /\ buf[s - 1] = "<6>"
  BY <1>1, <1>2, ReportFacts DEF InBuffer
<1>4. \A i \in 1 .. Len(buf) : buf[i] = "START_STATUS" => i <= s
  BY <1>1, <1>2, ReportFacts DEF InBuffer
<1>5. s \in Stat!Starts(buf) /\ Stat!LastStart(buf) = s /\ Stat!LineStart(buf, s) = s - 1
  BY <1>1, <1>3, <1>4, LoopsEnd
<1>6. PICK c \in Nat : c = s - 2 /\ c \in 0 .. Len(buf) /\ c + 1 = s - 1
  BY <1>1, <1>3
<1>7. PICK z \in Seq(Tokens) : /\ z = SubSeq(buf, c + 1, Len(buf)) /\ Len(z) = Len(buf) - c
                               /\ \A i \in 1 .. Len(buf) - c : z[i] = buf[c + i]
  <2>1. /\ SubSeq(buf, c + 1, Len(buf)) \in Seq(Tokens)
        /\ Len(SubSeq(buf, c + 1, Len(buf))) = Len(buf) - c
        /\ \A i \in 1 .. Len(buf) - c : SubSeq(buf, c + 1, Len(buf))[i] = buf[c + i]
    BY <1>6, EndFacts
  <2> QED BY <2>1, Zenon
<1>8. PICK L \in Nat : L = Len(buf) - c /\ L >= 2 /\ Len(z) = L /\ DOMAIN z = 1 .. L
  BY <1>1, <1>3, <1>6, <1>7, SMTT(30)
<1>9. Stat!Extract(buf) = Stat!Blanked(z)
  BY <1>5, <1>6, <1>7 DEF Stat!Extract
<1>10. PICK a : /\ a = Stat!Extract(buf) /\ DOMAIN a = 1 .. L
                /\ \A i \in 1 .. L : a[i] = IF z[i] = "<6>" THEN Stat!Blank ELSE z[i]
  BY <1>8, <1>9 DEF Stat!Blanked
<1>11. \A i \in 1 .. L : a[i] # "<6>"
  BY <1>10 DEF Stat!Blank
<1>12. \A i \in 1 .. L : c + i \in 1 .. Len(buf) /\ z[i] = buf[c + i]
  BY <1>1, <1>6, <1>7, <1>8
<1>13. z[1] = "<6>" /\ z[2] = "START_STATUS"
  <2>1. c + 1 = s - 1 /\ c + 2 = s /\ 1 \in 1 .. L /\ 2 \in 1 .. L
    BY <1>3, <1>6, <1>8
  <2> QED BY <1>3, <1>12, <2>1
<1>14. a[1] = Stat!Blank /\ a[2] = "START_STATUS"
  BY <1>8, <1>10, <1>13
<1>15. \A n \in 1 .. 3 : Stat!Report[n] # "<6>" /\ Stat!Report[n] # Stat!Blank
  <2> TAKE n \in 1 .. 3
  <2>1. n = 1 \/ n = 2 \/ n = 3
    OBVIOUS
  <2> QED BY <2>1, ReportFacts DEF Stat!Blank
<1>16. \A n \in 1 .. 3 : \A i \in 1 .. L : a[i] = Stat!Report[n] <=> buf[c + i] = Stat!Report[n]
  BY <1>10, <1>12, <1>15
<1>17. \A n \in 1 .. 3 : w[n] - c \in 1 .. L /\ c + (w[n] - c) = w[n]
  <2> TAKE n \in 1 .. 3
  <2>1. w[n] \in 1 .. Len(buf) /\ w[n] \in Nat
    BY DEF InBuffer
  <2>2. w[n] >= w[1] /\ w[1] \in Nat
    <3>1. n = 1 \/ n = 2 \/ n = 3
      OBVIOUS
    <3>2. w[1] \in Nat /\ w[2] \in Nat /\ w[3] \in Nat /\ w[1] < w[2] /\ w[2] < w[3]
      BY DEF InBuffer
    <3> QED BY <3>1, <3>2
  <2>3. PICK x \in Nat : x = w[n]
    BY <2>1
  <2>4. s = c + 2 /\ x <= Len(buf) /\ x >= s
    BY <1>1, <1>2, <1>3, <1>6, <2>1, <2>2, <2>3
  <2>5. x - c \in 1 .. L /\ c + (x - c) = x
    BY <1>1, <1>8, <2>4
  <2> QED BY <2>3, <2>5
<1>18. \A n \in 1 .. 3 : \A i \in 1 .. L : a[i] = Stat!Report[n] <=> i = w[n] - c
  <2> TAKE n \in 1 .. 3
  <2> TAKE i \in 1 .. L
  <2>1. ASSUME a[i] = Stat!Report[n] PROVE i = w[n] - c
    <3>1. buf[c + i] = Stat!Report[n] /\ c + i \in 1 .. Len(buf)
      BY <1>12, <1>16, <2>1
    <3>2. i # 1
      BY <1>12, <1>13, <1>15, <3>1
    <3>3. c + i >= w[1]
      BY <1>2, <1>3, <1>6, <3>2, SMTT(30)
    <3>4. c + i = w[n]
      BY <3>1, <3>3 DEF InBuffer
    <3> QED BY <1>6, <3>4
  <2>2. ASSUME i = w[n] - c PROVE a[i] = Stat!Report[n]
    <3>1. buf[w[n]] = Stat!Report[n] /\ c + i = w[n]
      BY <1>17, <2>2 DEF InBuffer
    <3> QED BY <1>16, <3>1
  <2> QED BY <2>1, <2>2
<1>19. Stat!OneReport(a)
  <2>1. \A n \in 1 .. 3 : \E i \in 1 .. L : \A j \in 1 .. L : a[j] = Stat!Report[n] <=> j = i
    BY <1>17, <1>18
  <2>2. \A n, m \in 1 .. 3 : n < m => w[n] - c < w[m] - c
    <3> TAKE n, m \in 1 .. 3
    <3>1. (n = 1 \/ n = 2 \/ n = 3) /\ (m = 1 \/ m = 2 \/ m = 3)
      OBVIOUS
    <3>2. w[1] \in Nat /\ w[2] \in Nat /\ w[3] \in Nat /\ w[1] < w[2] /\ w[2] < w[3]
      BY DEF InBuffer
    <3> QED BY <1>6, <3>1, <3>2
  <2>3. \A n, m \in 1 .. 3 : \A i, j \in 1 .. L :
          a[i] = Stat!Report[n] /\ a[j] = Stat!Report[m] /\ n < m => i < j
    BY <1>18, <2>2
  <2>4. DOMAIN a = 1 .. L /\ DOMAIN Stat!Report = 1 .. 3
    BY <1>10, ReportFacts
  <2>5. \A n \in DOMAIN Stat!Report : \E i \in DOMAIN a : \A j \in DOMAIN a :
          a[j] = Stat!Report[n] <=> j = i
    <3> TAKE n \in DOMAIN Stat!Report
    <3>1. n \in 1 .. 3
      BY <2>4
    <3>2. PICK i \in 1 .. L : \A j \in 1 .. L : a[j] = Stat!Report[n] <=> j = i
      BY <2>1, <3>1
    <3>3. i \in DOMAIN a /\ \A j \in DOMAIN a : j \in 1 .. L
      BY <2>4
    <3> QED BY <3>2, <3>3
  <2>6. \A n, m \in DOMAIN Stat!Report : \A i, j \in DOMAIN a :
          a[i] = Stat!Report[n] /\ a[j] = Stat!Report[m] /\ n < m => i < j
    BY ONLY <2>3, <2>4, Zenon
  <2> QED BY ONLY <2>5, <2>6, Zenon DEF Stat!OneReport
<1>20. Stat!Starts(a) # {}
  BY <1>8, <1>10, <1>14, SMTT(30) DEF Stat!Starts
<1>21. Whole(a)
  BY <1>10, <1>11, <1>14, <1>19, <1>20 DEF Whole
<1> QED BY <1>10, <1>21

\* Whatever part of the log is read, the answer is the report of the call, or
\* everything that was read when its beginning is no longer there.
LEMMA ReadIsWhole ==
  ASSUME klog \in Seq(Tokens), NEW q \in [1 .. 3 -> 0 .. Len(klog)], Placed(q, 3),
         NEW buf, NEW c, Ending(buf, c)
  PROVE  Whole(Stat!Extract(buf))
<1>1. Len(klog) \in Nat
  OBVIOUS
<1>2. PICK N \in Nat : N = Len(klog)
  BY <1>1
<1>3. /\ \A n \in 1 .. 3 : /\ q[n] \in Nat /\ q[n] \in 2 .. N
                           /\ klog[q[n]] = Stat!Report[n] /\ klog[q[n] - 1] = "<6>"
      /\ q[1] < q[2] /\ q[2] < q[3]
      /\ \A i \in 1 .. N : \A n \in 1 .. 3 : i >= q[1] /\ klog[i] = Stat!Report[n] => i = q[n]
  BY <1>1, <1>2 DEF Placed
<1>4. /\ c \in Nat /\ c <= N /\ Len(buf) = N - c /\ \A i \in 1 .. N - c : buf[i] = klog[c + i]
      /\ c = 0 \/ Len(buf) = 2 * Window
      /\ c < N => klog[c + 1] \in Stat!Levels
  BY <1>1, <1>2 DEF Ending
<1>5. buf \in Seq(Tokens)
  BY DEF Ending
<1>6. DOMAIN buf = 1 .. N - c
  BY <1>4, <1>5
<1>7. PICK s \in Nat : s = q[1] /\ 2 <= s /\ s <= N /\ klog[s] = "START_STATUS"
                       /\ klog[s - 1] = "<6>"
  BY <1>2, <1>3, ReportFacts
<1>8. CASE c >= s
  <2>1. \A i \in DOMAIN buf : buf[i] # "START_STATUS"
    <3> SUFFICES ASSUME NEW i \in 1 .. N - c, klog[c + i] = "START_STATUS" PROVE FALSE
      BY <1>4, <1>6
    <3>1. c + i \in 1 .. N /\ c + i >= s /\ c + i # s
      BY <1>4, <1>7, <1>8, SMTT(30)
    <3> QED BY <1>3, <1>7, <3>1, ReportFacts, SMTT(30)
  <2>2. Stat!Starts(buf) = {}
    BY <2>1 DEF Stat!Starts
  <2>3. Stat!Extract(buf) = buf
    BY <2>2 DEF Stat!Extract
  <2>4. Len(buf) = 2 * Window
    BY <1>4, <1>7, <1>8
  <2> QED BY <2>2, <2>3, <2>4 DEF Whole
<1>9. CASE c < s
  <2>0. c \in Nat /\ c < s /\ s <= N
    BY <1>4, <1>7, <1>9
  <2>1. s # c + 1
    <3>1. "START_STATUS" \notin Stat!Levels
      BY DEF Stat!Levels
    <3> QED BY <1>4, <1>7, <3>1
  <2>2. \A n \in 1 .. 3 : q[n] >= s
    <3> TAKE n \in 1 .. 3
    <3>1. n = 1 \/ n = 2 \/ n = 3
      OBVIOUS
    <3>2. q[1] \in Nat /\ q[2] \in Nat /\ q[3] \in Nat
      BY <1>3
    <3> QED BY <1>3, <1>7, <3>1, <3>2, SMTT(30)
  <2>3. PICK w \in [1 .. 3 -> Nat] : \A n \in 1 .. 3 : w[n] = q[n] - c
    <3> DEFINE w == [n \in 1 .. 3 |-> q[n] - c]
    <3>1. \A n \in 1 .. 3 : q[n] - c \in Nat
      <4> TAKE n \in 1 .. 3
      <4>1. PICK x \in Nat : x = q[n] /\ x >= s
        BY <1>3, <2>2
      <4>2. x - c \in Nat
        BY <2>0, <4>1
      <4> QED BY <4>1, <4>2
    <3>2. w \in [1 .. 3 -> Nat] /\ \A n \in 1 .. 3 : w[n] = q[n] - c
      BY <3>1
    <3> QED BY <3>2
  <2>4. ASSUME NEW n \in 1 .. 3
        PROVE  w[n] \in 1 .. Len(buf) /\ buf[w[n]] = Stat!Report[n]
    <3>1. PICK x \in Nat : x = q[n] /\ x >= s /\ x <= N /\ klog[x] = Stat!Report[n]
      BY <1>2, <1>3, <2>2, SMTT(30)
    <3>2. x - c \in 1 .. N - c /\ c + (x - c) = x
      BY <2>0, <3>1, SMTT(30)
    <3>3. buf[x - c] = klog[x]
      BY <1>4, <3>2
    <3> QED BY <1>4, <2>3, <3>1, <3>2, <3>3
  <2>5. w[1] = s - c /\ w[1] >= 2
    BY <1>4, <1>7, <1>9, <2>1, <2>3, SMTT(30)
  <2>6. buf[w[1] - 1] = "<6>"
    <3>1. s - c - 1 \in 1 .. N - c /\ c + (s - c - 1) = s - 1
      BY <2>0, <2>1
    <3> QED BY <1>4, <1>7, <2>5, <3>1
  <2>7. w[1] < w[2] /\ w[2] < w[3]
    <3>1. q[1] \in Nat /\ q[2] \in Nat /\ q[3] \in Nat
      BY <1>3
    <3>2. w[1] = q[1] - c /\ w[2] = q[2] - c /\ w[3] = q[3] - c
      BY <2>3
    <3> QED BY <1>3, <1>4, <3>1, <3>2, SMTT(30)
  <2>8. ASSUME NEW i \in 1 .. Len(buf), NEW n \in 1 .. 3, i >= w[1], buf[i] = Stat!Report[n]
        PROVE  i = w[n]
    <3>1. i \in 1 .. N - c
      BY <1>4
    <3>2. c + i \in 1 .. N /\ c + i >= s
      BY <1>4, <1>7, <2>5, <2>8, <3>1
    <3>3. klog[c + i] = Stat!Report[n]
      BY <1>4, <2>8, <3>1
    <3>4. c + i = q[n]
      BY <1>3, <1>7, <3>2, <3>3
    <3>5. w[n] = q[n] - c
      BY <2>3
    <3>6. (c + i) - c = i
      BY <2>0, <3>1
    <3> QED BY ONLY <3>4, <3>5, <3>6, Zenon
  <2>9. InBuffer(buf, w)
    BY <2>4, <2>5, <2>6, <2>7, <2>8 DEF InBuffer
  <2> QED BY <1>5, <2>9, CutIsWhole
<1> QED BY <1>4, <1>7, <1>8, <1>9

\* The log is empty at first.
LEMMA StatusInvInit == Init => StatusInv
<1> SUFFICES ASSUME Init PROVE StatusInv
  OBVIOUS
<1>1. klog = <<>> /\ status = [pc |-> "idle", left |-> <<>>] /\ answer = Stat!NULL
  BY DEF Init, Stat!Init, Stat!Idle
<1>2. klog \in Seq(Tokens) /\ Len(klog) = 0 /\ <<>> \in Seq(Tokens)
  BY <1>1
<1>3. Records
  <2>1. 0 \in Nat /\ Len(klog) = 2 * 0 /\ \A g \in 1 .. 0 : klog[2 * g - 1] \in Stat!Levels
    BY <1>2
  <2> QED BY <2>1, Zenon DEF Records
<1>4. StatusWhole
  BY <1>1 DEF StatusWhole, Stat!StatusWhole
<1> QED BY <1>1, <1>2, <1>3, <1>4 DEF StatusInv

\* Every step keeps the invariant.
LEMMA StatusInvStep == StatusInv /\ [Next]_vars => StatusInv'
<1> SUFFICES ASSUME StatusInv, [Next]_vars PROVE StatusInv'
  OBVIOUS
<1>0. /\ klog \in Seq(Tokens) /\ Records /\ StatusWhole
      /\ status \in [pc : {"idle", "ask", "log", "killed"}, left : Seq(Tokens)]
  BY DEF StatusInv
<1>1. status.pc # "idle" =>
        \E k \in 0 .. 3 : /\ LeftIs(status.left, k) /\ (status.pc = "ask" => k = 0)
                          /\ \E q \in [1 .. 3 -> 0 .. Len(klog)] : Placed(q, k)
  BY DEF StatusInv
<1>3. ASSUME UNCHANGED <<klog, answer>>,
             status' \in [pc : {"idle", "ask", "log", "killed"}, left : Seq(Tokens)],
             status'.left = status.left,
             status'.pc # "idle" => status.pc # "idle",
             status'.pc = "ask" => status.pc = "ask"
      PROVE  StatusInv'
  <2>1. klog' \in Seq(Tokens) /\ Records'
    BY <1>0, <1>3 DEF Records
  <2>2. StatusWhole'
    BY <1>0, <1>3 DEF StatusWhole, Stat!StatusWhole
  <2>3. ASSUME status'.pc # "idle"
        PROVE  \E k \in 0 .. 3 : /\ LeftIs(status'.left, k) /\ (status'.pc = "ask" => k = 0)
                                 /\ \E q \in [1 .. 3 -> 0 .. Len(klog')] : Placed(q, k)'
    <3>1. PICK k \in 0 .. 3 : /\ LeftIs(status.left, k) /\ (status.pc = "ask" => k = 0)
                              /\ \E q \in [1 .. 3 -> 0 .. Len(klog)] : Placed(q, k)
      BY <1>1, <1>3, <2>3
    <3>2. PICK q \in [1 .. 3 -> 0 .. Len(klog)] : Placed(q, k)
      BY <3>1
    <3>3. q \in [1 .. 3 -> 0 .. Len(klog')] /\ Placed(q, k)'
      BY <1>3, <3>2 DEF Placed
    <3> QED BY <1>3, <3>1, <3>3
  <2> QED BY <1>3, <2>1, <2>2, <2>3 DEF StatusInv
<1>2. CASE UNCHANGED statVars
  BY <1>0, <1>2, <1>3 DEF statVars
<1>4. CASE Stat!Killed /\ UNCHANGED <<klog, answer>>
  <2>1. PICK x \in {"idle", "ask", "log", "killed"} :
             /\ status' = [status EXCEPT !.pc = x]
             /\ x = status.pc \/ (x = "killed" /\ status.pc = "log")
    BY <1>0, <1>4 DEF Stat!Killed
  <2>2. /\ status' \in [pc : {"idle", "ask", "log", "killed"}, left : Seq(Tokens)]
        /\ status'.left = status.left /\ status'.pc = x
    BY <1>0, <2>1
  <2> QED BY <1>3, <1>4, <2>1, <2>2
<1>5. CASE Stat!rpcGetVideoLogStatus
  <2>1. /\ status' = [pc |-> "ask", left |-> Stat!Report] /\ answer' = Stat!NULL /\ klog' = klog
    BY <1>5 DEF Stat!rpcGetVideoLogStatus
  <2>2. LeftIs(Stat!Report, 0) /\ Stat!Report \in Seq(Tokens)
    <3>1. \A n \in 1 .. 3 : Stat!Report[n] \in Tokens
      BY DEF Tokens
    <3>2. Stat!Report \in Seq(Tokens) /\ Len(Stat!Report) = 3
      <4>1. "START_STATUS" \in Tokens /\ "status" \in Tokens /\ "END_STATUS" \in Tokens
        BY <3>1, ReportFacts
      <4> QED BY <4>1 DEF Stat!Report
    <3> QED BY <3>2 DEF LeftIs
  <2>3. [n \in 1 .. 3 |-> 0] \in [1 .. 3 -> 0 .. Len(klog)]
    BY <1>0
  <2>4. Placed([n \in 1 .. 3 |-> 0], 0)
    BY DEF Placed
  <2>5. status' \in [pc : {"idle", "ask", "log", "killed"}, left : Seq(Tokens)]
        /\ status'.pc = "ask" /\ status'.left = Stat!Report
    BY <2>1, <2>2
  <2>6. StatusWhole'
    BY <2>1 DEF StatusWhole, Stat!StatusWhole
  <2>7. Records' /\ klog' \in Seq(Tokens)
    BY <1>0, <2>1 DEF Records
  <2>8. \E q \in [1 .. 3 -> 0 .. Len(klog')] : Placed(q, 0)'
    BY <2>1, <2>3, <2>4 DEF Placed
  <2> QED BY <2>2, <2>5, <2>6, <2>7, <2>8 DEF StatusInv
<1>6. ASSUME NEW level \in Stat!Levels, Stat!Message(level) PROVE StatusInv'
  <2>1. klog' = klog \o <<level, "message">> /\ UNCHANGED <<status, answer>>
    BY <1>6 DEF Stat!Message
  <2>2. "message" \in Tokens
    BY DEF Tokens
  <2>3. Grown(level, "message")
    BY <1>0, <2>1, <2>2, NewRecord
  <2>4. Records' /\ klog' \in Seq(Tokens)
    BY <1>0, <2>3, GrownRecords DEF Grown
  <2>5. StatusWhole'
    BY <1>0, <2>1 DEF StatusWhole, Stat!StatusWhole
  <2>6. ASSUME status'.pc # "idle"
        PROVE  \E k \in 0 .. 3 : /\ LeftIs(status.left, k) /\ (status.pc = "ask" => k = 0)
                                 /\ \E q \in [1 .. 3 -> 0 .. Len(klog')] : Placed(q, k)'
    <3>1. PICK k \in 0 .. 3 : /\ LeftIs(status.left, k) /\ (status.pc = "ask" => k = 0)
                              /\ \E q \in [1 .. 3 -> 0 .. Len(klog)] : Placed(q, k)
      BY <1>1, <2>1, <2>6
    <3>2. PICK q \in [1 .. 3 -> 0 .. Len(klog)] : Placed(q, k)
      BY <3>1
    <3>3. q \in [1 .. 3 -> 0 .. Len(klog')] /\ Placed(q, k)'
      BY <2>3, <3>2, MessageKeepsPlaces
    <3> QED BY <3>1, <3>3
  <2> QED BY <1>0, <2>1, <2>4, <2>5, <2>6 DEF StatusInv
<1>7. ASSUME NEW text, Stat!Return(text), klog' = klog, text = Stat!NULL \/ Whole(text)
      PROVE  StatusInv'
  <2>1. status' = [pc |-> "idle", left |-> <<>>] /\ answer' = text
    BY <1>7 DEF Stat!Return, Stat!Idle
  <2>2. /\ status' \in [pc : {"idle", "ask", "log", "killed"}, left : Seq(Tokens)]
        /\ status'.pc = "idle"
    BY <2>1
  <2>3. StatusWhole'
    BY <1>7, <2>1 DEF StatusWhole, Stat!StatusWhole, Whole, Stat!Starts, Stat!OneReport
  <2> QED BY <1>0, <1>7, <2>2, <2>3 DEF StatusInv, Records
<1>8. CASE Stat!Ask
  <2>1. CASE Stat!Return(Stat!NULL)
    BY <1>7, <1>8, <2>1 DEF Stat!Ask
  <2>2. CASE status' = [status EXCEPT !.pc = "log"] /\ UNCHANGED answer
    <3>1. /\ status' \in [pc : {"idle", "ask", "log", "killed"}, left : Seq(Tokens)]
          /\ status'.left = status.left /\ status'.pc = "log"
      BY <1>0, <2>2
    <3> QED BY <1>3, <1>8, <2>2, <3>1 DEF Stat!Ask
  <2> QED BY <1>8, <2>1, <2>2 DEF Stat!Ask
<1>9. CASE Stat!DriverLogs
  <2>1. /\ status.pc \in {"log", "killed"} /\ status.left # <<>>
        /\ klog' = klog \o <<"<6>", Head(status.left)>>
        /\ status' = [status EXCEPT !.left = Tail(@)] /\ UNCHANGED answer
    BY <1>9 DEF Stat!DriverLogs
  <2>2. PICK k \in 0 .. 3 : /\ LeftIs(status.left, k)
                            /\ \E q \in [1 .. 3 -> 0 .. Len(klog)] : Placed(q, k)
    BY <1>1, <2>1
  <2>3. PICK q \in [1 .. 3 -> 0 .. Len(klog)] : Placed(q, k)
    BY <2>2
  <2>4. k \in 0 .. 2 /\ Head(status.left) = Stat!Report[k + 1] /\ LeftIs(Tail(status.left), k + 1)
    <3>1. k # 3
      BY <2>1, <2>2, LeftFacts
    <3>2. k < 3
      BY <3>1
    <3> QED BY <2>2, <3>2, LeftFacts
  <2>5. "<6>" \in Stat!Levels /\ Stat!Report[k + 1] \in Tokens
    <3>1. k + 1 \in 1 .. 3
      BY <2>4
    <3> QED BY <3>1 DEF Stat!Levels, Tokens
  <2>6. Grown("<6>", Stat!Report[k + 1])
    BY <1>0, <2>1, <2>4, <2>5, NewRecord
  <2>7. Records' /\ klog' \in Seq(Tokens)
    BY <1>0, <2>5, <2>6, GrownRecords DEF Grown
  <2>8. \E p \in [1 .. 3 -> 0 .. Len(klog')] : Placed(p, k + 1)'
    BY <2>3, <2>4, <2>6, DriverKeepsPlaces
  <2>9. Tail(status.left) \in Seq(Tokens)
    BY <2>4 DEF LeftIs
  <2>10. /\ status' \in [pc : {"idle", "ask", "log", "killed"}, left : Seq(Tokens)]
         /\ status'.left = Tail(status.left) /\ status'.pc # "ask"
    BY <1>0, <2>1, <2>9
  <2>11. StatusWhole'
    BY <1>0, <2>1 DEF StatusWhole, Stat!StatusWhole
  <2>12. k + 1 \in 0 .. 3 /\ LeftIs(status'.left, k + 1)
    BY <2>4, <2>10
  <2> QED BY <2>7, <2>8, <2>10, <2>11, <2>12 DEF StatusInv
<1>10. CASE Stat!Read
  <2>1. /\ status.pc \in {"log", "killed"} /\ status.left = <<>> /\ klog' = klog
        /\ Stat!Return(Stat!NULL) \/ Stat!Return(Stat!Extract(Stat!Newest))
    BY <1>10 DEF Stat!Read
  <2>2. PICK k \in 0 .. 3 : /\ LeftIs(status.left, k)
                            /\ \E q \in [1 .. 3 -> 0 .. Len(klog)] : Placed(q, k)
    BY <1>1, <2>1
  <2>3. k = 3
    BY <2>1, <2>2, LeftFacts
  <2>4. PICK q \in [1 .. 3 -> 0 .. Len(klog)] : Placed(q, 3)
    BY <2>2, <2>3
  <2>5. PICK c \in 0 .. Len(klog) : Ending(Stat!Newest, c)
    BY <1>0, NewestFacts
  <2>6. Whole(Stat!Extract(Stat!Newest))
    BY <1>0, <2>4, <2>5, ReadIsWhole
  <2> QED BY <1>7, <2>1, <2>6
<1> QED BY <1>2, <1>4, <1>5, <1>6, <1>8, <1>9, <1>10, StatusCases DEF Stat!Stimulus, Stat!Step

\* A status that videoc_log_status returns is the one the call asked for, whole
\* and from the beginning of its line, among whatever else the kernel logs, and
\* for any size of its buffer; when too much was logged meanwhile it is the end
\* of the log, without the beginning of any status.
THEOREM StatusStaysWhole == Spec => []StatusWhole
<1>1. StatusInv => StatusWhole
  BY DEF StatusInv
<1> QED BY <1>1, StatusInvInit, StatusInvStep, PTL DEF Spec
============================================================================
