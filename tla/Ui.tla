--------------------------------- MODULE Ui ---------------------------------
(***************************************************************************)
(* Who decides which screen the display shows: the user's finger            *)
(* (actions.c, on the screens of UiScreens), the display updates of the    *)
(* main process (display.go) and its reboot sequence (hw.go), while the    *)
(* native process, which owns the screens, may die and be restarted.       *)
(*                                                                         *)
(* lv_scr_load, the touch input and the delivery of events are LVGL's: a   *)
(* press goes to the deepest clickable widget under the finger, which gets *)
(* the events of that press until the finger is lifted, whatever screen is *)
(* loaded meanwhile; a gesture goes to its screen, once per press; after   *)
(* lv_indev_wait_release the press has no further event.  UI calls and     *)
(* uiTick exclude each other (cgoLock), so each of them is one step.       *)
(***************************************************************************)
EXTENDS UiScreens, FiniteSets

CONSTANTS
  Updaters,     \* bound: display updates running at the same time
  Scopes,       \* what a behaviour is limited to, see below
  MaxRpcs,      \* bound: hold actions waiting to be handled
  TickSeconds   \* seconds between two PRESSING events of the model

\* A scope bounds a behaviour: the widgets the finger is put on, the updates
\* that run at the same time, and the deaths of the native process.
Scope(touched, updaters, crashes) ==
  [touched |-> touched, updaters |-> updaters, maxCrashes |-> crashes]

\* The widget that gets the events of a finger put on o.
Clickable(o) == objects[o].class \in {"obj", "button"}
Under(o) == {c \in PathOf[o] : Clickable(c)}
TargetOf == [o \in Objects |-> CHOOSE c \in Under(o) : Under(o) \subseteq PathOf[c]]

\* The widgets of a screen that have a callback, and its labels.
Callbacks == [s \in Screens |-> {o \in Objects : ScreenOf[o] = s /\ objects[o].on # {}}]
Labels == [s \in Screens |-> {o \in Objects : ScreenOf[o] = s /\ objects[o].class = "label"}]
DeadButtons == {o \in Objects : objects[o].class = "button" /\ objects[o].on = {}}

ASSUME UiAssumption ==
  /\ \A c \in Scopes : c.touched \subseteq Objects /\ c.updaters \subseteq Updaters
                        /\ c.updaters # {} /\ c.maxCrashes \in Nat
  /\ TargetOf \in [Objects -> Objects]
  /\ Callbacks \in [Screens -> SUBSET Objects] /\ Labels \in [Screens -> SUBSET Objects]
  /\ MaxRpcs \in Nat /\ TickSeconds \in Nat \ {0}

VARIABLES
  scope,     \* the bounds of this behaviour; never changes
  native,    \* the native process runs
  active,    \* the screen LVGL shows
  current,   \* currentScreen, the one ui_tick updates
  filled,    \* screens whose labels ui_tick has filled
  main,      \* main_screen
  hiddenObjs, \* widgets with LV_OBJ_FLAG_HIDDEN
  press,     \* the finger
  hold,      \* the static variables of each hold action
  rpcs,      \* hold actions on their way to OnRpcEvent
  netUp,     \* networkManager.IsUp()
  update,    \* the goroutines of requestDisplayUpdate
  reboot,    \* hwReboot
  mixed,     \* the last update did not run alone
  crashes

screenVars == <<active, current>>
finger     == <<press, hold>>
mainVars   == <<scope, netUp, update, reboot, mixed, crashes>>
vars       == <<scope, native, active, current, filled, main, hiddenObjs, press, hold,
                rpcs, netUp, update, reboot, mixed, crashes>>

MainScreens == {"home_screen", "no_network_screen"}
MainScreen(isUp) == IF isUp THEN "home_screen" ELSE "no_network_screen"

----------------------------------------------------------------------------
(* actions.c *)

SwitchTo ==
  [action_switch_to_menu          |-> "menu_screen",
   action_switch_to_advanced_menu |-> "menu_advanced_screen",
   action_switch_to_status        |-> "status_screen",
   action_switch_to_about         |-> "about_screen",
   action_switch_to_reset_config  |-> "reset_config_screen",
   action_switch_to_dhcpc         |-> "switch_dhcp_client_screen",
   action_switch_to_reboot        |-> "reboot_screen"]

\* The gesture actions that go to the menu, and the direction they want.
Gesture ==
  [action_menu_advanced_screen_gesture |-> "RIGHT",
   action_reset_config_screen_gesture  |-> "RIGHT",
   action_home_screen_gesture          |-> "LEFT",
   action_about_screen_gesture         |-> "RIGHT"]

HoldSeconds ==
  [action_reset_config |-> 10, action_dhcpc |-> 5, action_reboot |-> 5]
HoldActions == DOMAIN HoldSeconds

Handlers(o, event) == {a \in {h[2] : h \in objects[o].on} : <<event, a>> \in objects[o].on}

\* screens.c gives a hold button one action, and that for the begin of a press
\* as well as for its duration.
ASSUME HoldWiring ==
  \A o \in Objects : \A a \in Handlers(o, "PRESSING") :
    /\ a \in HoldActions /\ a \in Handlers(o, "PRESSED")
    /\ \A b \in Handlers(o, "PRESSING") : b = a

\* handle_gesture_screen_switch: the actions that accept the swipe.
Accepted(o, event, dir) ==
  {a \in Handlers(o, event) \cap DOMAIN Gesture : event = "GESTURE" /\ Gesture[a] = dir}

\* The screens an event on o loads, the main screen aside.
Fixed(o, event, dir) ==
  {SwitchTo[a] : a \in Handlers(o, event) \cap DOMAIN SwitchTo}
    \cup {"menu_screen" : a \in Accepted(o, event, dir)}

\* handle_gesture_main_screen_switch looks at neither event nor direction.
MainSwitch(o, event) == "action_menu_screen_gesture" \in Handlers(o, event)

Destinations(o, event, dir) ==
  Fixed(o, event, dir) \cup (IF MainSwitch(o, event) THEN {main} \cap MainScreens ELSE {})

\* Mutant: currentScreen is left alone.
loadScreenOnly(s) == active' = s /\ UNCHANGED current
loadScreen(s) == active' = s /\ current' = s
\* What the handlers of an event do.
Load(S) == IF S = {} THEN UNCHANGED screenVars ELSE \E s \in S : loadScreen(s)

----------------------------------------------------------------------------
(* The finger. *)

Visible(o) == PathOf[o] \cap hiddenObjs = {}

\* "held" and "fired" are history: how long this press has been going on (up
\* to the longest hold time), and how often it has acted.
NoPress == [on |-> "none", long |-> FALSE, swiped |-> FALSE, wait |-> FALSE,
            held |-> 0, fired |-> 0]
Pressing == press.on # "none"

\* Elapsed time is told apart up to the hold time; a start time of an
\* earlier press is long ago.
LongAgo(h) == [h EXCEPT !.elapsed = HoldSeconds]
Idle == [elapsed |-> HoldSeconds, lock |-> [a \in HoldActions |-> FALSE]]

\* The finger goes down on o: LV_EVENT_PRESSED, which starts a hold action.
PressOn(o) ==
  /\ native /\ ~Pressing /\ ScreenOf[o] = active /\ Visible(o)
  /\ LET t == TargetOf[o]
         starts == Handlers(t, "PRESSED") \cap HoldActions
     IN /\ starts # {} => Len(rpcs) < MaxRpcs
        /\ press' = [NoPress EXCEPT !.on = t]
        /\ Load(Destinations(t, "PRESSED", "none"))
        /\ hold' = [hold EXCEPT !.elapsed =
                      [a \in HoldActions |-> IF a \in starts THEN 0 ELSE @[a]]]
  /\ UNCHANGED <<native, filled, main, hiddenObjs, rpcs, mainVars>>

\* The handler, set at the end of lvgl_init, sends the action to the Go side.
ui_call_rpc_handler(a) == rpcs' = Append(rpcs, a)

\* Mutant: the lock is not looked at.
HoldActionRepeats(a) ==
  LET elapsed == IF hold.elapsed[a] + TickSeconds < HoldSeconds[a]
                 THEN hold.elapsed[a] + TickSeconds ELSE HoldSeconds[a]
      acts == elapsed = HoldSeconds[a]
      held == IF press.held < 10 THEN press.held + TickSeconds ELSE press.held
  IN /\ hold' = [elapsed |-> [hold.elapsed EXCEPT ![a] = elapsed],
                 lock    |-> [hold.lock EXCEPT ![a] = @ \/ acts]]
     /\ IF acts THEN ui_call_rpc_handler(a) ELSE UNCHANGED rpcs
     /\ press' = [press EXCEPT !.held = held, !.fired = IF acts THEN @ + 1 ELSE @]
     \* Only the reset action has a button and a spinner to exchange.
     /\ hiddenObjs' = IF acts /\ a = "action_reset_config"
                  THEN (hiddenObjs \cup {"reset_config_button"}) \ {"reset_config_spinner"}
                  ELSE hiddenObjs

\* LV_EVENT_PRESSING on a hold button, some time later: handle_hold_action
\* counts down, or acts once.  (The countdown's label, and "completed", which
\* decides about restoring it, are left out.)
HoldAction(a) ==
  LET elapsed == IF hold.elapsed[a] + TickSeconds < HoldSeconds[a]
                 THEN hold.elapsed[a] + TickSeconds ELSE HoldSeconds[a]
      acts == elapsed = HoldSeconds[a] /\ ~hold.lock[a]
      held == IF press.held < 10 THEN press.held + TickSeconds ELSE press.held
  IN /\ hold' = [elapsed |-> [hold.elapsed EXCEPT ![a] = elapsed],
                 lock    |-> [hold.lock EXCEPT ![a] = @ \/ acts]]
     /\ IF acts THEN ui_call_rpc_handler(a) ELSE UNCHANGED rpcs
     /\ press' = [press EXCEPT !.held = held, !.fired = IF acts THEN @ + 1 ELSE @]
     \* Only the reset action has a button and a spinner to exchange.
     /\ hiddenObjs' = IF acts /\ a = "action_reset_config"
                  THEN (hiddenObjs \cup {"reset_config_button"}) \ {"reset_config_spinner"}
                  ELSE hiddenObjs

KeepPressing ==
  /\ Pressing /\ ~press.wait
  /\ \E a \in Handlers(press.on, "PRESSING") : HoldAction(a)
  /\ UNCHANGED <<native, screenVars, filled, main, mainVars>>

\* LV_EVENT_LONG_PRESSED.
LongPress ==
  /\ Pressing /\ ~press.wait /\ ~press.long
  /\ Handlers(press.on, "LONG_PRESSED") # {}
  /\ press' = [press EXCEPT !.long = TRUE]
  /\ Load(Destinations(press.on, "LONG_PRESSED", "none"))
  /\ UNCHANGED <<native, filled, main, hiddenObjs, hold, rpcs, mainVars>>

\* LV_EVENT_GESTURE.  An action that accepts the swipe also ends the press.
Swipe(dir) ==
  /\ Pressing /\ ~press.wait /\ ~press.swiped
  /\ LET s == ScreenOf[press.on]
     IN /\ press' = [press EXCEPT !.swiped = TRUE,
                                  !.wait = Accepted(s, "GESTURE", dir) # {}]
        /\ Load(Destinations(s, "GESTURE", dir))
  /\ UNCHANGED <<native, filled, main, hiddenObjs, hold, rpcs, mainVars>>

\* The finger goes up: LV_EVENT_RELEASED and LV_EVENT_CLICKED, or
\* LV_EVENT_PRESS_LOST, for which there is no handler.
Lift ==
  /\ Pressing
  /\ press' = NoPress
  /\ LET released == Handlers(press.on, "RELEASED") \cap HoldActions
     IN hold' = IF press.wait THEN LongAgo(hold)
                ELSE [LongAgo(hold) EXCEPT !.lock =
                        [a \in HoldActions |-> @[a] /\ a \notin released]]
  /\ Load(IF press.wait THEN {} ELSE Destinations(press.on, "CLICKED", "none"))
  /\ UNCHANGED <<native, filled, main, hiddenObjs, rpcs, mainVars>>

\* ui_tick fills the labels of the current screen that show a variable: the
\* versions of the about screen, and the one of the boot screen.
tick_screen_about_screen == current = "about_screen"
tick_screen_boot_screen == current = "boot_screen"
ui_tick ==
  filled' = [about |-> filled.about \/ tick_screen_about_screen,
             boot  |-> filled.boot \/ tick_screen_boot_screen]

\* lvgl_tick, with nothing for LVGL to do: its events are the finger's.
Tick ==
  /\ native
  /\ ui_tick
  /\ UNCHANGED <<native, screenVars, main, hiddenObjs, finger, rpcs, mainVars>>

----------------------------------------------------------------------------
(* updateDisplay, as far as it decides about screens and buttons. *)

\* The calls of ctrl.c, which fail without a native process; the failure is
\* ignored.  Unlike loadScreen, jetkvm_ui_load_screen does not tell ui.c.
\* (Mutant: the flag is taken from the other widgets.)
FlagMoved(os) == hiddenObjs' = IF native THEN os ELSE hiddenObjs
jetkvm_ui_add_flag(os) == hiddenObjs' = IF native THEN hiddenObjs \cup os ELSE hiddenObjs
jetkvm_ui_set_var(s) == main' = IF native THEN s ELSE main
jetkvm_ui_load_screen(s) == active' = IF native THEN s ELSE active
\* The screen LVGL shows, which need not be currentScreen.
ui_get_current_screen == active

Goto(u, pc) == update' = [update EXCEPT ![u].pc = pc]
End(u) == update' = [update EXCEPT ![u] = [pc |-> "idle", up |-> FALSE]]
Running(u) == update[u].pc # "idle"

\* Another goroutine is between reading IsUp and acting on it.
Deciding(u) == update[u].pc \in {"var", "get", "switch"}
Alone(us) == (\A u \in us : ~Deciding(u)) /\ reboot.pc # "main"

Spawn == \E u \in scope.updaters : ~Running(u) /\ Goto(u, "read")

\* requestDisplayUpdate, for a change of USB, video, sessions or cloud.
Request ==
  /\ Spawn
  /\ UNCHANGED <<scope, native, screenVars, filled, main, hiddenObjs, finger, rpcs, netUp, reboot, mixed, crashes>>

\* The network comes up or goes down: networkStateChanged.
NetworkChange ==
  /\ netUp' = ~netUp
  /\ Spawn
  /\ UNCHANGED <<scope, native, screenVars, filled, main, hiddenObjs, finger, rpcs, reboot, mixed, crashes>>

\* The two buttons that do nothing are hidden, and IsUp is read (after the
\* calls that hide them, which depend on nothing else).
UpdateRead(u) ==
  /\ update[u].pc = "read"
  /\ jetkvm_ui_add_flag({"menu_btn_network", "menu_btn_access"})
  /\ update' = [update EXCEPT ![u] = [pc |-> "var", up |-> netUp]]
  /\ mixed' = ~Alone(Updaters \ {u})
  /\ UNCHANGED <<scope, native, screenVars, filled, main, finger, rpcs, netUp, reboot, crashes>>

UpdateVar(u) ==
  /\ update[u].pc = "var"
  /\ jetkvm_ui_set_var(MainScreen(update[u].up))
  /\ Goto(u, "get")
  /\ UNCHANGED <<scope, native, screenVars, filled, hiddenObjs, finger, rpcs, netUp, reboot, mixed, crashes>>

\* SwitchToScreenIf runs in the native process: it asks for the screen ...
\* (mutant: from the boot screen only)
ShouldSwitchBoot(s) == {"boot_screen"}
ShouldSwitch(s) == {"boot_screen"} \cup (MainScreens \ {s})
UpdateGet(u) ==
  /\ update[u].pc = "get"
  /\ IF native /\ ui_get_current_screen \in ShouldSwitch(MainScreen(update[u].up))
     THEN Goto(u, "switch") ELSE End(u)
  /\ UNCHANGED <<scope, native, screenVars, filled, main, hiddenObjs, finger, rpcs, netUp, reboot, mixed, crashes>>

\* ... and loads the other one.
UpdateSwitch(u) ==
  /\ update[u].pc = "switch"
  /\ jetkvm_ui_load_screen(MainScreen(update[u].up))
  /\ End(u)
  /\ UNCHANGED <<scope, native, current, filled, main, hiddenObjs, finger, rpcs, netUp, reboot, mixed, crashes>>

----------------------------------------------------------------------------
(* OnRpcEvent: every hold action ends in hwReboot. *)

\* Toggling the DHCP client gives up when the configuration is not saved.
TakeRpc ==
  /\ rpcs # <<>> /\ reboot.pc = "idle"
  /\ rpcs' = Tail(rpcs)
  /\ \/ reboot' = [reboot EXCEPT !.pc = "begin"]
     \/ Head(rpcs) = "action_dhcpc" /\ UNCHANGED reboot
  /\ UNCHANGED <<scope, native, screenVars, filled, main, hiddenObjs, finger, netUp, update, mixed, crashes>>

RebootShow ==
  /\ reboot.pc = "begin"
  /\ jetkvm_ui_load_screen("rebooting_screen")
  /\ reboot' = [reboot EXCEPT !.pc = "command"]
  /\ UNCHANGED <<scope, native, current, filled, main, hiddenObjs, finger, rpcs, netUp, update, mixed, crashes>>

\* The reboot command starts and the program exits, or it fails and
\* switchToMainScreen reads the network state.
RebootCommand ==
  /\ reboot.pc = "command"
  /\ \/ reboot' = [reboot EXCEPT !.pc = "done"] /\ UNCHANGED mixed
     \/ reboot' = [pc |-> "main", up |-> netUp] /\ mixed' = (mixed \/ ~Alone(Updaters))
  /\ UNCHANGED <<scope, native, screenVars, filled, main, hiddenObjs, finger, rpcs, netUp, update, crashes>>

RebootFailed ==
  /\ reboot.pc = "main"
  /\ jetkvm_ui_load_screen(MainScreen(reboot.up))
  /\ reboot' = [pc |-> "idle", up |-> FALSE]
  /\ UNCHANGED <<scope, native, current, filled, main, hiddenObjs, finger, rpcs, netUp, update, mixed, crashes>>

----------------------------------------------------------------------------
(* The native process. *)

\* A goroutine in the middle of SwitchToScreenIf is inside the process.
Crash ==
  /\ native /\ crashes < scope.maxCrashes
  /\ native' = FALSE /\ crashes' = crashes + 1
  /\ update' = [u \in Updaters |-> IF update[u].pc = "switch"
                                   THEN [pc |-> "idle", up |-> FALSE] ELSE update[u]]
  /\ press' = NoPress /\ hold' = Idle
  /\ UNCHANGED <<scope, screenVars, filled, main, hiddenObjs, rpcs, netUp, reboot, mixed>>

NotFilled == [about |-> FALSE, boot |-> FALSE]
InitialHidden == {o \in Objects : objects[o].hidden}

\* ui_init in the new process, and configureDisplayOnNativeRestart.
Restart ==
  /\ ~native
  /\ native' = TRUE
  /\ loadScreen("boot_screen")
  /\ main' = "home_screen" /\ filled' = NotFilled /\ hiddenObjs' = InitialHidden
  /\ Spawn
  /\ UNCHANGED <<scope, finger, rpcs, netUp, reboot, mixed, crashes>>

Init ==
  /\ scope \in Scopes
  /\ native = TRUE /\ active = "boot_screen" /\ current = "boot_screen"
  /\ filled = NotFilled /\ main = "home_screen" /\ hiddenObjs = InitialHidden
  /\ press = NoPress /\ hold = Idle /\ rpcs = <<>>
  /\ netUp \in BOOLEAN
  /\ \E first \in scope.updaters :   \* initDisplay
       update = [u \in Updaters |-> [pc |-> IF u = first THEN "read" ELSE "idle", up |-> FALSE]]
  /\ reboot = [pc |-> "idle", up |-> FALSE]
  /\ mixed = FALSE /\ crashes = 0

Finger == \/ \E o \in scope.touched : PressOn(o)
          \/ \E dir \in {"LEFT", "RIGHT"} : Swipe(dir)
          \/ KeepPressing \/ LongPress \/ Lift

UpdateStep(u) == \/ UpdateRead(u) \/ UpdateVar(u)
                 \/ UpdateGet(u) \/ UpdateSwitch(u)

RebootStep == TakeRpc \/ RebootShow \/ RebootCommand \/ RebootFailed

\* After a reboot command that started nothing more is of interest.
Alive == reboot.pc # "done"
Next ==
  /\ Alive
  /\ \/ Finger \/ Tick \/ Request \/ NetworkChange
     \/ \E u \in Updaters : UpdateStep(u)
     \/ RebootStep \/ Crash \/ Restart

Spec == Init /\ [][Next]_vars

\* One of the updates under way goes on, ui_tick runs every 5 ms, and the
\* supervisor restarts the native process (strong fairness, since the bound on
\* updates, which is not the code's, disables Restart now and then).  The
\* finger owes nothing.
FairSpec ==
  /\ Spec
  /\ WF_vars(Alive /\ \E u \in Updaters : UpdateStep(u))
  /\ WF_vars(RebootStep) /\ SF_vars(Alive /\ Restart) /\ WF_vars(Alive /\ Tick)

----------------------------------------------------------------------------
(* Properties. *)

\* Every variable has its type.
TypeOK ==
  /\ native \in BOOLEAN /\ netUp \in BOOLEAN /\ mixed \in BOOLEAN
  /\ active \in Screens /\ current \in Screens /\ main \in MainScreens
  /\ filled \in [about : BOOLEAN, boot : BOOLEAN] /\ hiddenObjs \subseteq Objects
  /\ press.on \in Objects \cup {"none"} /\ press.held \in Nat /\ press.fired \in Nat
  /\ {press.long, press.swiped, press.wait} \subseteq BOOLEAN
  /\ hold.elapsed \in [HoldActions -> 0..10]
  /\ hold.lock \in [HoldActions -> BOOLEAN]
  /\ rpcs \in Seq(HoldActions)
  /\ update \in [Updaters -> [pc : {"idle", "read", "var", "get", "switch"},
                              up : BOOLEAN]]
  /\ reboot \in [pc : {"idle", "begin", "command", "main", "done"}, up : BOOLEAN]
  /\ scope \in Scopes /\ crashes \in 0..scope.maxCrashes

\* The pages one gesture, press or click away from a page, with the widgets
\* that are hidden now and the main screen of now.
Events == {"PRESSED", "CLICKED", "LONG_PRESSED", "GESTURE"}
Exits == [o \in Objects |-> UNION {Fixed(o, e, dir) : e \in Events, dir \in {"LEFT", "RIGHT"}}]
MainExits == {o \in Objects : \E e \in Events : MainSwitch(o, e)}
ASSUME ExitsAssumption == Exits \in [Objects -> SUBSET Screens]

\* The widgets that may be hidden at some time, and those an update has hidden
\* or that nothing shows.
MayBeHidden ==
  InitialHidden \cup {"menu_btn_network", "menu_btn_access", "reset_config_button"}
StaysHidden ==
  (InitialHidden \ {"reset_config_spinner"}) \cup {"menu_btn_network", "menu_btn_access"}

\* screens.c: every page has a widget that leads to the menu, and the menu one
\* that leads to the main screen, and these are never hidden; buttons without a
\* callback stay hidden, or are on a page nothing leads to.
ASSUME PagesAssumption ==
  /\ \A s \in Screens \ {"boot_screen", "rebooting_screen", "menu_screen"} :
       \E o \in Callbacks[s] : PathOf[o] \cap MayBeHidden = {} /\ "menu_screen" \in Exits[o]
  /\ \E o \in Callbacks["menu_screen"] \cap MainExits : PathOf[o] \cap MayBeHidden = {}
  /\ \A o \in DeadButtons :
       PathOf[o] \cap StaysHidden # {} \/ ScreenOf[o] = "menu_network_screen"

Steps(page) ==
  LET touchable == {o \in Callbacks[page] : Visible(o)}
  IN (UNION {Exits[o] : o \in touchable}) \cup {m \in {main} : touchable \cap MainExits # {}}

\* The pages at most n steps away from the one that is shown, and all of them:
\* the menu is at most three pages deep.
Within[n \in 0..4] ==
  IF n = 0 THEN {active}
  ELSE LET near == Within[n - 1] IN near \cup UNION {Steps(page) : page \in near}
Reachable == Within[4]

\* From every page with a way in for the user there is a way back to the main
\* screen of the moment, whatever has been hidden: screens.c wires a gesture
\* or a back button into each page, and menu_screen asks main_screen.
WayBack(pages) ==
  active \notin {main, "boot_screen", "rebooting_screen"} =>
    main \in pages

\* One press acts at most once, and only after it has itself lasted the whole
\* hold time: start_time, lock and completed outlive the press, in
\* handle_hold_action.
HoldOnce ==
  /\ press.fired <= 1
  /\ press.fired = 1 =>
       \E a \in Handlers(press.on, "PRESSING") : press.held >= HoldSeconds[a]

Settled == native /\ reboot.pc = "idle" /\ rpcs = <<>> /\ \A u \in Updaters : ~Running(u)

\* With no update under way, and when the last one ran alone, a main screen
\* that is shown, and the one a page will return to, is the one the network
\* state asks for, also after the native process was restarted.
ScreenFollowsNetwork ==
  Settled /\ ~mixed =>
    /\ main = MainScreen(netUp)
    /\ active \in MainScreens => active = main

\* With no update under way, no page the user can get to shows a button
\* without a callback: updateDisplay hides the two of the menu, also in a
\* new native process.
NoDeadButtons(pages) ==
  Settled =>
    \A o \in DeadButtons : Visible(o) => ScreenOf[o] \notin pages

\* The pages lead somewhere: WayBack and NoDeadButtons.
Navigable == LET pages == Reachable IN WayBack(pages) /\ NoDeadButtons(pages)

\* The labels that get a colour: from a style of this program, their own or a
\* container's, or because they stand on a button, which the theme colours.
Coloured ==
  {o \in Objects : \E w \in PathOf[o] : \/ "text_color" \in StyleProps[objects[w].style]
                                        \/ objects[w].class = "button"}
ASSUME ColoursAssumption == Coloured \subseteq Objects

\* A label that is shown has a colour of its own: the default text colour is
\* the one of a light theme, on a black background (screens.c, styles.c).
TextLegible == \A o \in Labels[active] : Visible(o) => o \in Coloured

\* The display has something to do yet: it is at the boot screen, or at the
\* about screen without the versions.
Unfinished == \/ active = "boot_screen"
              \/ active = "about_screen" /\ ~filled.about

\* The display comes up, and says what it should: it does not stay at the boot
\* screen, at start and after the native process was restarted, and the
\* versions are filled in while their screen is shown, although ui_tick goes by
\* currentScreen, which the switches of the main process do not set.
DisplayComesUp == Unfinished ~> (~Unfinished \/ reboot.pc = "done")
============================================================================
