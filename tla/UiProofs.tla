------------------------------ MODULE UiProofs ------------------------------
(***************************************************************************)
(* Proofs that a press acts at most once, after it has lasted long enough, *)
(* that the display follows the network, that its pages lead somewhere and *)
(* that their text has a colour, whatever the finger, the updates, the     *)
(* reboot sequence and the death of the native process do.                 *)
(***************************************************************************)
EXTENDS Ui, TLAPS

Presses == [on : Objects \cup {"none"}, long : BOOLEAN, swiped : BOOLEAN, wait : BOOLEAN,
            held : Nat, fired : Nat]
Holds == [elapsed : [HoldActions -> Nat], lock : [HoldActions -> BOOLEAN]]

\* The hold action of the press, if there is one, has counted no more time than
\* the press has lasted; once it has acted its lock is set.
HoldInv ==
  /\ scope \in Scopes
  /\ press \in Presses /\ hold \in Holds
  /\ \A a \in HoldActions : hold.elapsed[a] <= HoldSeconds[a]
  /\ ~Pressing => press.fired = 0
  /\ press.fired # 0 => Handlers(press.on, "PRESSING") # {}
  /\ Pressing => \A a \in Handlers(press.on, "PRESSING") :
       /\ hold.elapsed[a] <= press.held
       /\ press.fired # 0 => /\ press.fired = 1 /\ hold.lock[a]
                             /\ press.held >= HoldSeconds[a]

\* The types that the display updates need.
UpdateType ==
  /\ scope \in Scopes
  /\ native \in BOOLEAN /\ netUp \in BOOLEAN /\ mixed \in BOOLEAN
  /\ update \in [Updaters -> [pc : {"idle", "read", "var", "get", "switch"}, up : BOOLEAN]]
  /\ reboot \in [pc : {"idle", "begin", "command", "main", "done"}, up : BOOLEAN]

\* An update that did not run alone is known to be mixed.
AloneInv ==
  ~mixed => /\ \A u, v \in Updaters : Deciding(u) /\ Deciding(v) => u = v
            /\ reboot.pc = "main" => \A u \in Updaters : ~Deciding(u)

\* What is shown is what the network asks for.
Follows ==
  /\ \A u \in Updaters : ~Deciding(u)
  /\ main = MainScreen(netUp)
  /\ active \in MainScreens => active = main
  /\ reboot.pc = "main" => reboot.up = netUp

\* Someone will still look at the network, or has looked and will act on it,
\* or the display follows the network.
FollowInv ==
  native /\ ~mixed =>
    \/ \E u \in Updaters : update[u].pc = "read"
    \/ \E u \in Updaters : update[u].pc = "var" /\ update[u].up = netUp
    \/ \E u \in Updaters : /\ update[u].pc \in {"get", "switch"} /\ update[u].up = netUp
                           /\ main = MainScreen(netUp)
    \/ Follows

\* The inductive invariant of the display updates.
UpdateInv == UpdateType /\ AloneInv /\ FollowInv

----------------------------------------------------------------------------
(* A press acts once. *)

\* The hold times.
LEMMA HoldTimes ==
  /\ HoldSeconds \in [HoldActions -> Nat]
  /\ \A a \in HoldActions : HoldSeconds[a] <= 10 /\ HoldSeconds[a] > 0
BY DEF HoldSeconds, HoldActions

\* At first there is no press.
LEMMA HoldInvInit == Init => HoldInv
<1> SUFFICES ASSUME Init PROVE HoldInv
  OBVIOUS
<1>1. press = NoPress /\ hold = Idle /\ scope \in Scopes
  BY DEF Init
<1>2. NoPress \in Presses /\ NoPress.on = "none" /\ NoPress.fired = 0
  BY DEF NoPress, Presses
<1>3. Idle \in Holds /\ Idle.elapsed = HoldSeconds
  BY HoldTimes DEF Idle, Holds
<1> QED BY <1>1, <1>2, <1>3, HoldTimes DEF HoldInv, Pressing

\* A step that leaves the finger alone.
LEMMA NoFingerStep ==
  ASSUME HoldInv, UNCHANGED <<scope, press, hold>> PROVE HoldInv'
BY DEF HoldInv, Pressing, Handlers

\* The finger goes down: the hold action of the button starts to count.
LEMMA PressStep ==
  ASSUME HoldInv, NEW o \in scope.touched, PressOn(o) PROVE HoldInv'
<1> DEFINE t == TargetOf[o]
           starts == Handlers(t, "PRESSED") \cap HoldActions
           e == [a \in HoldActions |-> IF a \in starts THEN 0 ELSE hold.elapsed[a]]
<1>1. t \in Objects /\ scope \in Scopes
  BY UiAssumption DEF HoldInv
<1>2. /\ scope' = scope /\ press' = [NoPress EXCEPT !.on = t]
      /\ hold' = [hold EXCEPT !.elapsed = e]
  BY DEF PressOn, mainVars
<1>3. hold \in Holds /\ \A a \in HoldActions : hold.elapsed[a] \in Nat
  BY DEF HoldInv, Holds
<1>4. \A a \in HoldActions : /\ e[a] \in Nat /\ e[a] <= HoldSeconds[a]
                             /\ a \in Handlers(t, "PRESSED") => e[a] = 0
  BY <1>3, HoldTimes DEF HoldInv
<1> HIDE DEF t, e
<1>5. e \in [HoldActions -> Nat]
  BY <1>4 DEF e
<1>6. hold' \in Holds /\ hold'.elapsed = e
  BY <1>2, <1>3, <1>5 DEF Holds
<1>7. press' \in Presses /\ press'.on = t /\ press'.fired = 0 /\ press'.held = 0
  BY <1>1, <1>2 DEF NoPress, Presses
<1>8. ASSUME NEW a \in Handlers(t, "PRESSING") PROVE e[a] = 0
  BY <1>1, <1>4, HoldWiring
<1>9. \A a \in Handlers(press'.on, "PRESSING") : hold'.elapsed[a] <= press'.held
  BY <1>6, <1>7, <1>8
<1> QED BY <1>1, <1>2, <1>4, <1>6, <1>7, <1>9 DEF HoldInv, Handlers

\* The finger stays down: the time since the press began has passed before the
\* action acts, and the lock keeps it from acting again.
LEMMA KeepStep ==
  ASSUME HoldInv, KeepPressing PROVE HoldInv'
<1>1. Pressing /\ scope' = scope
  BY DEF KeepPressing, mainVars
<1>2. PICK a \in Handlers(press.on, "PRESSING") : HoldAction(a)
  BY DEF KeepPressing
<1> DEFINE elapsed == IF hold.elapsed[a] + TickSeconds < HoldSeconds[a]
                      THEN hold.elapsed[a] + TickSeconds ELSE HoldSeconds[a]
           acts == elapsed = HoldSeconds[a] /\ ~hold.lock[a]
           held == IF press.held < 10 THEN press.held + TickSeconds ELSE press.held
           fired == IF acts THEN press.fired + 1 ELSE press.fired
<1>3. /\ hold' = [elapsed |-> [hold.elapsed EXCEPT ![a] = elapsed],
                  lock    |-> [hold.lock EXCEPT ![a] = @ \/ acts]]
      /\ press' = [press EXCEPT !.held = held, !.fired = fired]
  BY <1>2 DEF HoldAction
<1>4. /\ press.on \in Objects /\ a \in HoldActions /\ \A b \in Handlers(press.on, "PRESSING") : b = a
  BY <1>1, <1>2, HoldWiring DEF HoldInv, Pressing, Presses
<1>5. /\ press \in Presses /\ press.held \in Nat /\ press.fired \in Nat
      /\ hold \in Holds /\ hold.elapsed \in [HoldActions -> Nat]
      /\ hold.lock \in [HoldActions -> BOOLEAN]
      /\ hold.elapsed[a] \in Nat /\ hold.elapsed[a] <= HoldSeconds[a]
      /\ HoldSeconds[a] \in Nat /\ HoldSeconds[a] <= 10 /\ TickSeconds \in Nat
  BY <1>4, HoldTimes, UiAssumption DEF HoldInv, Presses, Holds
<1>6. /\ hold.elapsed[a] <= press.held
      /\ press.fired # 0 => press.fired = 1 /\ hold.lock[a] /\ press.held >= HoldSeconds[a]
  BY <1>1, <1>2 DEF HoldInv
<1>7. /\ elapsed \in Nat /\ elapsed <= HoldSeconds[a] /\ held \in Nat /\ elapsed <= held
      /\ held >= press.held
  BY <1>5, <1>6
<1>8. acts \in BOOLEAN /\ fired \in Nat
  BY <1>5
<1>9. fired # 0 => fired = 1 /\ (hold.lock[a] \/ acts) /\ held >= HoldSeconds[a]
  <2>1. CASE acts
    <3>1. press.fired = 0
      BY <1>6, <2>1
    <3> QED BY <1>7, <2>1, <3>1
  <2>2. CASE ~acts
    BY <1>5, <1>6, <1>7, <2>2
  <2> QED BY <2>1, <2>2
<1> HIDE DEF elapsed, acts, held, fired
<1>10. /\ hold' \in Holds /\ hold'.elapsed[a] = elapsed
       /\ \A b \in HoldActions : b # a => hold'.elapsed[b] = hold.elapsed[b]
  BY <1>3, <1>4, <1>5, <1>7, <1>8 DEF Holds
<1>11. hold'.lock[a] <=> hold.lock[a] \/ acts
  BY <1>3, <1>4, <1>5
<1>12. /\ press' \in Presses /\ press'.on = press.on /\ press'.held = held /\ press'.fired = fired
  BY <1>3, <1>5, <1>7, <1>8 DEF Presses
<1>13. \A b \in HoldActions : hold'.elapsed[b] <= HoldSeconds[b]
  BY <1>7, <1>10 DEF HoldInv
<1>14. ASSUME NEW b \in Handlers(press'.on, "PRESSING")
       PROVE  /\ hold'.elapsed[b] <= press'.held
              /\ press'.fired # 0 => /\ press'.fired = 1 /\ hold'.lock[b]
                                     /\ press'.held >= HoldSeconds[b]
  <2>1. b = a
    BY <1>4, <1>12
  <2> QED BY <1>7, <1>9, <1>10, <1>11, <1>12, <2>1
<1>15. Handlers(press'.on, "PRESSING") # {} /\ press'.on # "none"
  BY <1>1, <1>2, <1>12 DEF Pressing
<1>16. scope' \in Scopes
  BY <1>1 DEF HoldInv
<1> QED BY <1>10, <1>12, <1>13, <1>14, <1>15, <1>16 DEF HoldInv, Pressing, Handlers

\* A gesture or a long press changes neither the times nor the locks.
LEMMA GestureStep ==
  ASSUME HoldInv, LongPress \/ \E dir \in {"LEFT", "RIGHT"} : Swipe(dir) PROVE HoldInv'
<1>1. scope' = scope /\ hold' = hold
  BY DEF LongPress, Swipe, mainVars
<1>2. press \in Presses
  BY DEF HoldInv
<1>3. /\ press' \in Presses /\ press'.on = press.on /\ press'.held = press.held
      /\ press'.fired = press.fired
  <2>1. CASE LongPress
    BY <1>2, <2>1 DEF LongPress, Presses
  <2>2. ASSUME NEW dir, Swipe(dir)
        PROVE  /\ press' \in Presses /\ press'.on = press.on /\ press'.held = press.held
               /\ press'.fired = press.fired
    <3>1. (Accepted(ScreenOf[press.on], "GESTURE", dir) # {}) \in BOOLEAN
      OBVIOUS
    <3> QED BY <1>2, <2>2, <3>1 DEF Swipe, Presses
  <2> QED BY <2>1, <2>2
<1> QED BY <1>1, <1>3 DEF HoldInv, Pressing, Handlers

\* The finger goes up, or the native process dies: there is no press.
LEMMA NoPressStep ==
  ASSUME HoldInv, press' = NoPress, scope' = scope, hold' \in Holds,
         \A a \in HoldActions : hold'.elapsed[a] <= HoldSeconds[a]
  PROVE  HoldInv'
<1>1. NoPress \in Presses /\ NoPress.on = "none" /\ NoPress.fired = 0
  BY DEF NoPress, Presses
<1> QED BY <1>1 DEF HoldInv, Pressing

\* The finger goes up, with or without a release event.
LEMMA LiftStep ==
  ASSUME HoldInv, Lift PROVE HoldInv'
<1> DEFINE released == Handlers(press.on, "RELEASED") \cap HoldActions
           l == [a \in HoldActions |-> hold.lock[a] /\ a \notin released]
<1>1. hold \in Holds
  BY DEF HoldInv
<1>2. LongAgo(hold) \in Holds /\ LongAgo(hold).elapsed = HoldSeconds
      /\ LongAgo(hold).lock = hold.lock
  BY <1>1, HoldTimes DEF LongAgo, Holds
<1>3. l \in [HoldActions -> BOOLEAN]
  BY <1>1 DEF Holds
<1>4. hold' = LongAgo(hold) \/ hold' = [LongAgo(hold) EXCEPT !.lock = l]
  BY <1>2 DEF Lift
<1> HIDE DEF l
<1>5. hold' \in Holds /\ hold'.elapsed = HoldSeconds
  BY <1>2, <1>3, <1>4 DEF Holds
<1>6. press' = NoPress /\ scope' = scope
  BY DEF Lift, mainVars
<1> QED BY <1>5, <1>6, HoldTimes, NoPressStep

\* The native process dies and starts with no hold under way.
LEMMA CrashHolds ==
  ASSUME HoldInv, Crash PROVE HoldInv'
<1>1. Idle \in Holds /\ Idle.elapsed = HoldSeconds
  BY HoldTimes DEF Idle, Holds
<1> QED BY <1>1, HoldTimes, NoPressStep DEF Crash

\* Every step keeps the invariant.
LEMMA HoldInvStep == HoldInv /\ [Next]_vars => HoldInv'
<1> SUFFICES ASSUME HoldInv, [Next]_vars PROVE HoldInv'
  OBVIOUS
<1>1. CASE Finger
  BY <1>1, PressStep, KeepStep, GestureStep, LiftStep DEF Finger
<1>2. CASE Tick \/ Request \/ NetworkChange
  BY <1>2, NoFingerStep DEF Tick, Request, NetworkChange, finger, mainVars
<1>3. ASSUME NEW u, UpdateStep(u) PROVE HoldInv'
  BY <1>3, NoFingerStep DEF UpdateStep, UpdateRead, UpdateVar, UpdateGet, UpdateSwitch, finger
<1>4. CASE RebootStep
  BY <1>4, NoFingerStep DEF RebootStep, TakeRpc, RebootShow, RebootCommand, RebootFailed, finger
<1>5. CASE Restart
  BY <1>5, NoFingerStep DEF Restart, finger
<1>6. CASE UNCHANGED vars
  BY <1>6, NoFingerStep DEF vars
<1> QED BY <1>1, <1>2, <1>3, <1>4, <1>5, <1>6, CrashHolds DEF Next

\* A press acts at most once, and only after it has lasted the hold time of
\* its action, however often the finger comes back, slides away or stays.
THEOREM PressActsOnce == Spec => []HoldOnce
<1>1. ASSUME HoldInv PROVE HoldOnce
  <2>1. press.fired \in Nat
    BY <1>1 DEF HoldInv, Presses
  <2>2. CASE press.fired = 0
    BY <2>2 DEF HoldOnce
  <2>3. CASE press.fired # 0
    <3>1. PICK a \in Handlers(press.on, "PRESSING") : TRUE
      BY <1>1, <2>3 DEF HoldInv
    <3>2. press.fired = 1 /\ press.held >= HoldSeconds[a]
      BY <1>1, <2>3, <3>1 DEF HoldInv
    <3> QED BY <3>1, <3>2 DEF HoldOnce
  <2> QED BY <2>2, <2>3
<1> QED BY <1>1, HoldInvInit, HoldInvStep, PTL DEF Spec

----------------------------------------------------------------------------
(* The display follows the network. *)

Updates == [pc : {"idle", "read", "var", "get", "switch"}, up : BOOLEAN]

\* The finger loads no main screen but the one of main_screen.
LEMMA FingerGoesTo ==
  ASSUME NEW o, NEW event, NEW dir, NEW s \in Destinations(o, event, dir), s \in MainScreens
  PROVE  s = main
<1>1. \A a \in DOMAIN SwitchTo : SwitchTo[a] \notin MainScreens
  BY DEF SwitchTo, MainScreens
<1>2. "menu_screen" \notin MainScreens
  BY DEF MainScreens
<1>3. s \notin Fixed(o, event, dir)
  BY <1>1, <1>2 DEF Fixed
<1> QED BY <1>3 DEF Destinations

\* Which is what a step of the finger does to the screen that is shown.
LEMMA FingerShows ==
  ASSUME Finger PROVE active' \in MainScreens => active' \in {active, main}
<1>1. ASSUME NEW S, Load(S), \A s \in S : s \in MainScreens => s = main
      PROVE  active' \in MainScreens => active' \in {active, main}
  BY <1>1 DEF Load, loadScreen, screenVars
<1>2. ASSUME NEW o, PressOn(o) PROVE active' \in MainScreens => active' \in {active, main}
  <2>1. Load(Destinations(TargetOf[o], "PRESSED", "none"))
    BY <1>2 DEF PressOn
  <2> QED BY <1>1, <2>1, FingerGoesTo
<1>3. CASE KeepPressing
  BY <1>3 DEF KeepPressing, screenVars
<1>4. CASE LongPress
  <2>1. Load(Destinations(press.on, "LONG_PRESSED", "none"))
    BY <1>4 DEF LongPress
  <2> QED BY <1>1, <2>1, FingerGoesTo
<1>5. ASSUME NEW dir, Swipe(dir) PROVE active' \in MainScreens => active' \in {active, main}
  <2>1. Load(Destinations(ScreenOf[press.on], "GESTURE", dir))
    BY <1>5 DEF Swipe
  <2> QED BY <1>1, <2>1, FingerGoesTo
<1>6. CASE Lift
  <2>1. Load(IF press.wait THEN {} ELSE Destinations(press.on, "CLICKED", "none"))
    BY <1>6 DEF Lift
  <2>2. CASE press.wait
    BY <1>1, <2>1, <2>2
  <2>3. CASE ~press.wait
    BY <1>1, <2>1, <2>3, FingerGoesTo
  <2> QED BY <2>2, <2>3
<1> QED BY <1>2, <1>3, <1>4, <1>5, <1>6 DEF Finger

\* At first an update is about to read the state of the network.
LEMMA UpdateInvInit == Init => UpdateInv
<1> SUFFICES ASSUME Init PROVE UpdateInv
  OBVIOUS
<1>1. scope \in Scopes /\ scope.updaters \subseteq Updaters
  BY UiAssumption DEF Init
<1>2. PICK first \in Updaters :
        update = [u \in Updaters |-> [pc |-> IF u = first THEN "read" ELSE "idle", up |-> FALSE]]
  BY <1>1 DEF Init
<1>3. \A u \in Updaters : /\ update[u] \in Updates /\ ~Deciding(u)
                          /\ u = first => update[u].pc = "read"
  BY <1>2 DEF Updates, Deciding
<1>4. UpdateType
  BY <1>1, <1>2, <1>3 DEF Init, UpdateType, Updates
<1> QED BY <1>3, <1>4 DEF UpdateInv, AloneInv, FollowInv

\* A step that keeps the updates, the reboot sequence and the network, and
\* shows no main screen but the one it should.
LEMMA ShowStep ==
  ASSUME UpdateInv, UNCHANGED <<scope, native, main, netUp, update, reboot, mixed>>,
         active' \in MainScreens => active' \in {active, main}
  PROVE  UpdateInv'
<1>1. UpdateType' /\ AloneInv'
  BY DEF UpdateInv, UpdateType, AloneInv, Deciding
<1>2. Follows => Follows'
  BY DEF Follows, Deciding
<1>3. FollowInv'
  BY <1>2 DEF UpdateInv, FollowInv
<1> QED BY <1>1, <1>3 DEF UpdateInv

\* An update is requested: it will read the state of the network.
LEMMA SpawnStep ==
  ASSUME UpdateInv, Spawn, UNCHANGED <<scope, reboot, mixed>>,
         native' \in BOOLEAN, netUp' \in BOOLEAN
  PROVE  UpdateInv'
<1>0. UpdateType /\ AloneInv /\ FollowInv
  BY DEF UpdateInv
<1>1. scope \in Scopes /\ scope.updaters \subseteq Updaters
  BY <1>0, UiAssumption DEF UpdateType
<1>2. PICK u \in Updaters : update[u].pc = "idle" /\ update' = [update EXCEPT ![u].pc = "read"]
  BY <1>1 DEF Spawn, Running, Goto
<1>3. /\ update' \in [Updaters -> Updates] /\ update'[u].pc = "read"
      /\ \A v \in Updaters : v # u => update'[v] = update[v]
  BY <1>0, <1>2 DEF UpdateType, Updates
<1>4. \A v \in Updaters : Deciding(v)' => Deciding(v)
  BY <1>3 DEF Deciding
<1>5. UpdateType'
  BY <1>0, <1>3 DEF UpdateType, Updates
<1>6. AloneInv'
  BY <1>0, <1>4 DEF AloneInv
<1>7. FollowInv'
  BY <1>3 DEF FollowInv
<1> QED BY <1>5, <1>6, <1>7 DEF UpdateInv

\* A step of one update.
LEMMA OneUpdate ==
  ASSUME UpdateType, NEW u \in Updaters, NEW w \in Updates, update' = [update EXCEPT ![u] = w]
  PROVE  /\ update' \in [Updaters -> Updates] /\ update'[u] = w
         /\ \A v \in Updaters : v # u => update'[v] = update[v]
         /\ \A v \in Updaters : v # u => (Deciding(v)' <=> Deciding(v))
         /\ Deciding(u)' <=> w.pc \in {"var", "get", "switch"}
BY DEF UpdateType, Updates, Deciding

\* The state of the network is read, alone or not.
LEMMA ReadStep ==
  ASSUME UpdateInv, NEW u \in Updaters, UpdateRead(u) PROVE UpdateInv'
<1> DEFINE w == [pc |-> "var", up |-> netUp]
<1>0. UpdateType /\ AloneInv /\ FollowInv
  BY DEF UpdateInv
<1>1. /\ update' = [update EXCEPT ![u] = w]
      /\ mixed' = ~Alone(Updaters \ {u})
      /\ UNCHANGED <<scope, native, netUp, reboot>>
  BY DEF UpdateRead
<1>2. w \in Updates /\ w.pc = "var" /\ w.up = netUp
  BY <1>0 DEF UpdateType, Updates
<1> HIDE DEF w
<1>3. /\ update' \in [Updaters -> Updates] /\ update'[u] = w
      /\ \A v \in Updaters : v # u => update'[v] = update[v]
      /\ \A v \in Updaters : v # u => (Deciding(v)' <=> Deciding(v))
  BY <1>0, <1>1, <1>2, OneUpdate
<1>4. mixed' \in BOOLEAN /\ (~mixed' <=> Alone(Updaters \ {u}))
  BY <1>1 DEF Alone
<1>5. UpdateType'
  BY <1>0, <1>1, <1>3, <1>4 DEF UpdateType, Updates
<1>6. AloneInv'
  <2> SUFFICES ASSUME ~mixed'
               PROVE  /\ \A v1, v2 \in Updaters : Deciding(v1)' /\ Deciding(v2)' => v1 = v2
                      /\ reboot'.pc # "main"
    BY DEF AloneInv
  <2>1. (\A v \in Updaters : v # u => ~Deciding(v)) /\ reboot.pc # "main"
    BY <1>4 DEF Alone
  <2> QED BY <1>1, <1>3, <2>1
<1>7. FollowInv'
  BY <1>1, <1>2, <1>3 DEF FollowInv
<1> QED BY <1>5, <1>6, <1>7 DEF UpdateInv

\* main_screen is set from what was read.
LEMMA VarStep ==
  ASSUME UpdateInv, NEW u \in Updaters, UpdateVar(u) PROVE UpdateInv'
<1> DEFINE w == [update[u] EXCEPT !.pc = "get"]
<1>0. UpdateType /\ AloneInv /\ FollowInv
  BY DEF UpdateInv
<1>1. /\ update[u].pc = "var" /\ (native => main' = MainScreen(update[u].up))
      /\ UNCHANGED <<scope, native, active, netUp, reboot, mixed>>
  BY DEF UpdateVar, jetkvm_ui_set_var, screenVars
<1>2. update' = [update EXCEPT ![u] = w]
  BY <1>0 DEF UpdateVar, Goto, UpdateType
<1>3. w \in Updates /\ w.pc = "get" /\ w.up = update[u].up
  BY <1>0 DEF UpdateType, Updates
<1> HIDE DEF w
<1>4. /\ update' \in [Updaters -> Updates] /\ update'[u] = w
      /\ \A v \in Updaters : v # u => update'[v] = update[v]
      /\ \A v \in Updaters : v # u => (Deciding(v)' <=> Deciding(v))
  BY <1>0, <1>2, <1>3, OneUpdate
<1>5. Deciding(u)
  BY <1>1 DEF Deciding
<1>6. UpdateType'
  BY <1>0, <1>1, <1>4 DEF UpdateType, Updates
<1>7. AloneInv'
  BY <1>0, <1>1, <1>4, <1>5 DEF AloneInv
<1>8. FollowInv'
  <2> SUFFICES ASSUME native, ~mixed PROVE FollowInv'
    BY <1>1 DEF FollowInv
  <2>1. \A v \in Updaters : v # u => update[v].pc \notin {"var", "get", "switch"}
    BY <1>0, <1>5 DEF AloneInv, Deciding
  <2>2. \/ \E v \in Updaters : v # u /\ update[v].pc = "read"
        \/ update[u].up = netUp
    BY <1>0, <1>1, <1>5, <2>1 DEF FollowInv, Follows
  <2>3. CASE \E v \in Updaters : v # u /\ update[v].pc = "read"
    BY <1>4, <2>3 DEF FollowInv
  <2>4. CASE update[u].up = netUp
    <3>1. update'[u].pc = "get" /\ update'[u].up = netUp' /\ main' = MainScreen(netUp')
      BY <1>1, <1>3, <1>4, <2>4
    <3> QED BY <3>1 DEF FollowInv, MainScreen
  <2> QED BY <2>2, <2>3, <2>4
<1> QED BY <1>6, <1>7, <1>8 DEF UpdateInv

\* An update ends, or will load the main screen, by what is shown now.
LEMMA GetStep ==
  ASSUME UpdateInv, NEW u \in Updaters, UpdateGet(u) PROVE UpdateInv'
<1>0. UpdateType /\ AloneInv /\ FollowInv
  BY DEF UpdateInv
<1>1. /\ update[u].pc = "get" /\ UNCHANGED <<scope, native, active, main, netUp, reboot, mixed>>
  BY DEF UpdateGet, screenVars
<1>2. PICK w \in Updates :
        /\ update' = [update EXCEPT ![u] = w]
        /\ \/ w.pc = "switch" /\ w.up = update[u].up
           \/ /\ w.pc = "idle"
              /\ ~(native /\ active \in ShouldSwitch(MainScreen(update[u].up)))
  <2>1. CASE native /\ active \in ShouldSwitch(MainScreen(update[u].up))
    <3> DEFINE w == [update[u] EXCEPT !.pc = "switch"]
    <3>1. w \in Updates /\ w.pc = "switch" /\ w.up = update[u].up
      BY <1>0 DEF UpdateType, Updates
    <3>2. update' = [update EXCEPT ![u] = w]
      BY <1>0, <2>1 DEF UpdateGet, Goto, UpdateType, ui_get_current_screen
    <3> QED BY <3>1, <3>2
  <2>2. CASE ~(native /\ active \in ShouldSwitch(MainScreen(update[u].up)))
    <3> DEFINE w == [pc |-> "idle", up |-> FALSE]
    <3>1. w \in Updates /\ w.pc = "idle"
      BY DEF Updates
    <3>2. update' = [update EXCEPT ![u] = w]
      BY <2>2 DEF UpdateGet, End, ui_get_current_screen
    <3> QED BY <2>2, <3>1, <3>2
  <2> QED BY <2>1, <2>2
<1>3. /\ update' \in [Updaters -> Updates] /\ update'[u] = w
      /\ \A v \in Updaters : v # u => update'[v] = update[v]
      /\ \A v \in Updaters : v # u => (Deciding(v)' <=> Deciding(v))
      /\ Deciding(u)' <=> w.pc \in {"var", "get", "switch"}
  BY <1>0, <1>2, OneUpdate
<1>4. Deciding(u)
  BY <1>1 DEF Deciding
<1>5. UpdateType'
  BY <1>0, <1>1, <1>3 DEF UpdateType, Updates
<1>6. AloneInv'
  BY <1>0, <1>1, <1>3, <1>4 DEF AloneInv
<1>7. FollowInv'
  <2> SUFFICES ASSUME native, ~mixed PROVE FollowInv'
    BY <1>1 DEF FollowInv
  <2>1. /\ \A v \in Updaters : v # u => ~Deciding(v)
        /\ reboot.pc # "main"
    BY <1>0, <1>4 DEF AloneInv
  <2>2. \/ \E v \in Updaters : v # u /\ update[v].pc = "read"
        \/ update[u].up = netUp /\ main = MainScreen(netUp)
    BY <1>0, <1>1, <1>4, <2>1 DEF FollowInv, Follows, Deciding
  <2>3. CASE \E v \in Updaters : v # u /\ update[v].pc = "read"
    BY <1>3, <2>3 DEF FollowInv
  <2>4. CASE update[u].up = netUp /\ main = MainScreen(netUp)
    <3>1. main' = MainScreen(netUp')
      BY <1>1, <2>4
    <3>2. CASE w.pc = "switch" /\ w.up = update[u].up
      <4>1. update'[u].pc = "switch" /\ update'[u].up = netUp'
        BY <1>1, <1>3, <2>4, <3>2
      <4> QED BY <3>1, <4>1 DEF FollowInv, MainScreen
    <3>3. CASE w.pc = "idle" /\ active \notin ShouldSwitch(MainScreen(update[u].up))
      <4>1. \A v \in Updaters : ~Deciding(v)'
        BY <1>3, <2>1, <3>3
      <4>2. active' \in MainScreens => active' = main'
        BY <1>1, <2>4, <3>3 DEF ShouldSwitch
      <4>3. reboot'.pc # "main"
        BY <1>1, <2>1
      <4> QED BY <3>1, <4>1, <4>2, <4>3 DEF FollowInv, Follows, MainScreen
    <3> QED BY <1>2, <3>2, <3>3
  <2> QED BY <2>2, <2>3, <2>4
<1> QED BY <1>5, <1>6, <1>7 DEF UpdateInv

\* The main screen is loaded, and the update ends.
LEMMA SwitchStep ==
  ASSUME UpdateInv, NEW u \in Updaters, UpdateSwitch(u) PROVE UpdateInv'
<1> DEFINE w == [pc |-> "idle", up |-> FALSE]
<1>0. UpdateType /\ AloneInv /\ FollowInv
  BY DEF UpdateInv
<1>1. /\ update[u].pc = "switch" /\ (native => active' = MainScreen(update[u].up))
      /\ update' = [update EXCEPT ![u] = w]
      /\ UNCHANGED <<scope, native, main, netUp, reboot, mixed>>
  BY DEF UpdateSwitch, jetkvm_ui_load_screen, End
<1>2. w \in Updates /\ w.pc = "idle"
  BY DEF Updates
<1> HIDE DEF w
<1>3. /\ update' \in [Updaters -> Updates] /\ update'[u] = w
      /\ \A v \in Updaters : v # u => update'[v] = update[v]
      /\ \A v \in Updaters : v # u => (Deciding(v)' <=> Deciding(v))
      /\ ~Deciding(u)'
  BY <1>0, <1>1, <1>2, OneUpdate
<1>4. Deciding(u)
  BY <1>1 DEF Deciding
<1>5. UpdateType'
  BY <1>0, <1>1, <1>3 DEF UpdateType, Updates
<1>6. AloneInv'
  BY <1>0, <1>1, <1>3 DEF AloneInv
<1>7. FollowInv'
  <2> SUFFICES ASSUME native, ~mixed PROVE FollowInv'
    BY <1>1 DEF FollowInv
  <2>1. /\ \A v \in Updaters : v # u => ~Deciding(v)
        /\ reboot.pc # "main"
    BY <1>0, <1>4 DEF AloneInv
  <2>2. \/ \E v \in Updaters : v # u /\ update[v].pc = "read"
        \/ update[u].up = netUp /\ main = MainScreen(netUp)
    BY <1>0, <1>1, <1>4, <2>1 DEF FollowInv, Follows, Deciding
  <2>3. CASE \E v \in Updaters : v # u /\ update[v].pc = "read"
    BY <1>3, <2>3 DEF FollowInv
  <2>4. CASE update[u].up = netUp /\ main = MainScreen(netUp)
    <3>1. main' = MainScreen(netUp') /\ active' = main' /\ reboot'.pc # "main"
      BY <1>1, <2>1, <2>4
    <3>2. \A v \in Updaters : ~Deciding(v)'
      BY <1>3, <2>1
    <3> QED BY <3>1, <3>2 DEF FollowInv, Follows, MainScreen
  <2> QED BY <2>2, <2>3, <2>4
<1> QED BY <1>5, <1>6, <1>7 DEF UpdateInv

\* The reboot sequence: the main screen it goes back to is the one the network
\* asked for when it looked, alone or not.
LEMMA RebootSteps ==
  ASSUME UpdateInv, RebootStep PROVE UpdateInv'
<1>0. UpdateType /\ AloneInv /\ FollowInv
  BY DEF UpdateInv
<1>1. UNCHANGED <<scope, native, main, netUp, update>>
  BY DEF RebootStep, TakeRpc, RebootShow, RebootCommand, RebootFailed
<1>2. \A u \in Updaters : Deciding(u)' <=> Deciding(u)
  BY <1>1 DEF Deciding
<1>3. CASE TakeRpc \/ RebootShow
  <2>1. /\ reboot'.pc # "main" /\ mixed' = mixed
        /\ reboot' \in [pc : {"idle", "begin", "command", "main", "done"}, up : BOOLEAN]
    BY <1>0, <1>3 DEF TakeRpc, RebootShow, UpdateType
  <2>2. active' \in MainScreens => active' = active
    BY <1>3 DEF TakeRpc, RebootShow, jetkvm_ui_load_screen, screenVars, MainScreens
  <2>3. UpdateType' /\ AloneInv'
    BY <1>0, <1>1, <1>2, <2>1 DEF UpdateType, AloneInv
  <2>4. Follows => Follows'
    BY <1>1, <1>2, <2>1, <2>2 DEF Follows, MainScreen
  <2>5. FollowInv'
    BY <1>0, <1>1, <2>1, <2>4 DEF FollowInv, MainScreen
  <2> QED BY <2>3, <2>5 DEF UpdateInv
<1>4. CASE RebootCommand
  <2>1. /\ active' = active
        /\ reboot' \in [pc : {"idle", "begin", "command", "main", "done"}, up : BOOLEAN]
        /\ \/ reboot'.pc = "done" /\ mixed' = mixed
           \/ /\ reboot'.pc = "main" /\ reboot'.up = netUp
              /\ mixed' = (mixed \/ ~Alone(Updaters))
    BY <1>0, <1>4 DEF RebootCommand, UpdateType, screenVars
  <2>2. /\ mixed' \in BOOLEAN /\ (~mixed' => ~mixed)
        /\ ~mixed' /\ reboot'.pc = "main" => \A u \in Updaters : ~Deciding(u)
    <3>1. mixed \in BOOLEAN /\ Alone(Updaters) \in BOOLEAN
      BY <1>0 DEF UpdateType, Alone
    <3>2. CASE reboot'.pc = "done" /\ mixed' = mixed
      BY <3>1, <3>2
    <3>3. CASE mixed' = (mixed \/ ~Alone(Updaters))
      <4>1. mixed' \in BOOLEAN /\ (~mixed' => ~mixed /\ Alone(Updaters))
        BY <3>1, <3>3
      <4> QED BY <4>1 DEF Alone
    <3> QED BY <2>1, <3>2, <3>3
  <2>3. UpdateType'
    BY <1>0, <1>1, <2>1, <2>2 DEF UpdateType
  <2>4. AloneInv'
    BY <1>0, <1>2, <2>2 DEF AloneInv
  <2>5. Follows => Follows'
    BY <1>1, <1>2, <2>1 DEF Follows, MainScreen
  <2>6. FollowInv'
    BY <1>0, <1>1, <2>2, <2>5 DEF FollowInv, MainScreen
  <2> QED BY <2>3, <2>4, <2>6 DEF UpdateInv
<1>5. CASE RebootFailed
  <2>1. /\ reboot.pc = "main" /\ mixed' = mixed /\ reboot' = [pc |-> "idle", up |-> FALSE]
        /\ native => active' = MainScreen(reboot.up)
    BY <1>5 DEF RebootFailed, jetkvm_ui_load_screen
  <2>2. UpdateType' /\ AloneInv'
    BY <1>0, <1>1, <1>2, <2>1 DEF UpdateType, AloneInv
  <2>3. native /\ Follows => Follows'
    BY <1>1, <1>2, <2>1 DEF Follows, MainScreen
  <2>4. FollowInv'
    BY <1>0, <1>1, <2>1, <2>3 DEF FollowInv, MainScreen
  <2> QED BY <2>2, <2>4 DEF UpdateInv
<1> QED BY <1>3, <1>4, <1>5 DEF RebootStep

\* The native process dies, and updates that were in it end.
LEMMA CrashUpdates ==
  ASSUME UpdateInv, Crash PROVE UpdateInv'
<1>0. UpdateType /\ AloneInv /\ FollowInv
  BY DEF UpdateInv
<1>1. /\ native' = FALSE /\ UNCHANGED <<scope, netUp, reboot, mixed>>
      /\ update' = [u \in Updaters |-> IF update[u].pc = "switch"
                                       THEN [pc |-> "idle", up |-> FALSE] ELSE update[u]]
  BY DEF Crash
<1>2. \A u \in Updaters : update'[u] \in Updates /\ (Deciding(u)' => Deciding(u))
  BY <1>0, <1>1 DEF UpdateType, Updates, Deciding
<1>3. update' \in [Updaters -> Updates]
  BY <1>1, <1>2
<1>4. UpdateType' /\ AloneInv'
  BY <1>0, <1>1, <1>2, <1>3 DEF UpdateType, AloneInv, Updates
<1> QED BY <1>1, <1>4 DEF UpdateInv, FollowInv

\* Every step keeps the invariant.
LEMMA UpdateInvStep == UpdateInv /\ [Next]_vars => UpdateInv'
<1> SUFFICES ASSUME UpdateInv, [Next]_vars PROVE UpdateInv'
  OBVIOUS
<1>1. CASE Finger
  <2>1. UNCHANGED <<scope, native, main, netUp, update, reboot, mixed>>
    BY <1>1 DEF Finger, PressOn, Swipe, KeepPressing, LongPress, Lift, mainVars
  <2> QED BY <1>1, <2>1, FingerShows, ShowStep
<1>2. CASE Tick
  BY <1>2, ShowStep DEF Tick, screenVars, mainVars
<1>3. CASE Request
  BY <1>3, SpawnStep DEF Request, UpdateInv, UpdateType
<1>4. CASE NetworkChange
  BY <1>4, SpawnStep DEF NetworkChange, UpdateInv, UpdateType
<1>5. CASE \E u \in Updaters : UpdateStep(u)
  BY <1>5, ReadStep, VarStep, GetStep, SwitchStep DEF UpdateStep
<1>6. CASE Restart
  BY <1>6, SpawnStep DEF Restart, UpdateInv, UpdateType
<1>7. CASE UNCHANGED vars
  BY <1>7, ShowStep DEF vars
<1> QED BY <1>1, <1>2, <1>3, <1>4, <1>5, <1>6, <1>7, RebootSteps, CrashUpdates DEF Next

\* With no update under way and the last one alone, the main screen is the one
\* the network asks for: for any number of updates at the same time, any
\* touches, any reboots that fail and any number of deaths of the native
\* process.
THEOREM DisplayFollows == Spec => []ScreenFollowsNetwork
<1>1. ASSUME UpdateInv PROVE ScreenFollowsNetwork
  <2> SUFFICES ASSUME Settled, ~mixed
               PROVE  main = MainScreen(netUp) /\ (active \in MainScreens => active = main)
    BY DEF ScreenFollowsNetwork
  <2>1. native /\ \A u \in Updaters : update[u].pc = "idle"
    BY DEF Settled, Running
  <2> QED BY <1>1, <2>1 DEF UpdateInv, FollowInv, Follows
<1> QED BY <1>1, UpdateInvInit, UpdateInvStep, PTL DEF Spec

----------------------------------------------------------------------------
(* The pages lead somewhere. *)

Dead == {"menu_btn_network", "menu_btn_access"}

\* The page nothing leads to is never shown; only certain widgets are hidden,
\* and those that stay hidden are; and unless an update is still to hide the
\* two buttons without a callback they are hidden as well.
PagesInv ==
  /\ active \in Screens \ {"menu_network_screen"} /\ main \in MainScreens
  /\ hiddenObjs \subseteq MayBeHidden
  /\ InitialHidden \ {"reset_config_spinner"} \subseteq hiddenObjs
  /\ native => (\E u \in Updaters : update[u].pc = "read") \/ Dead \subseteq hiddenObjs

\* The pages that callbacks load.
LEMMA FixedPages ==
  ASSUME NEW o, NEW event, NEW dir
  PROVE  Fixed(o, event, dir) \subseteq Screens \ {"menu_network_screen"}
<1>1. \A a \in DOMAIN SwitchTo : SwitchTo[a] \in Screens \ {"menu_network_screen"}
  BY DEF SwitchTo, Screens, ScreenIds
<1>2. "menu_screen" \in Screens \ {"menu_network_screen"}
  BY DEF Screens, ScreenIds
<1> QED BY <1>1, <1>2 DEF Fixed

\* The main screens are screens.
LEMMA MainPages ==
  /\ MainScreens \subseteq Screens \ {"menu_network_screen"}
  /\ \A isUp : MainScreen(isUp) \in MainScreens
  /\ {"boot_screen", "rebooting_screen", "menu_screen"} \subseteq Screens \ {"menu_network_screen"}
BY DEF MainScreens, MainScreen, Screens, ScreenIds

\* Whatever is loaded for the finger is a page that something leads to.
LEMMA LoadPages ==
  ASSUME NEW o, NEW event, NEW dir, active \in Screens \ {"menu_network_screen"},
         Load(Destinations(o, event, dir))
  PROVE  active' \in Screens \ {"menu_network_screen"}
<1>1. Destinations(o, event, dir) \subseteq Screens \ {"menu_network_screen"}
  BY FixedPages, MainPages DEF Destinations
<1> QED BY <1>1 DEF Load, loadScreen, screenVars

\* The recursive definition of Within, unfolded: it exists because its domain
\* has five elements, for which it can be written down.
LEMMA WithinSteps ==
  /\ Within[0] = {active}
  /\ \A n \in 1..4 : Within[n] = Within[n - 1] \cup UNION {Steps(page) : page \in Within[n - 1]}
<1> DEFINE Grow(S) == S \cup UNION {Steps(page) : page \in S}
           Body(g) == [n \in 0..4 |-> IF n = 0 THEN {active}
                         ELSE LET near == g[n - 1] IN near \cup UNION {Steps(page) : page \in near}]
           w0 == {active}
           w1 == Grow(w0)
           w2 == Grow(w1)
           w3 == Grow(w2)
           w4 == Grow(w3)
           f == [n \in 0..4 |-> IF n = 0 THEN w0 ELSE IF n = 1 THEN w1 ELSE
                                IF n = 2 THEN w2 ELSE IF n = 3 THEN w3 ELSE w4]
<1>1. f = Body(f)
  <2>1. \A n \in 0..4 : f[n] = Body(f)[n]
    <3> SUFFICES ASSUME NEW n \in 0..4 PROVE f[n] = Body(f)[n]
      OBVIOUS
    <3>1. CASE n = 0
      BY <3>1
    <3>2. CASE n = 1
      <4>1. f[0] = w0 /\ f[1] = w1 /\ n - 1 = 0
        BY <3>2
      <4> QED BY <3>2, <4>1
    <3>3. CASE n = 2
      <4>1. f[1] = w1 /\ f[2] = w2 /\ n - 1 = 1
        BY <3>3
      <4> QED BY <3>3, <4>1
    <3>4. CASE n = 3
      <4>1. f[2] = w2 /\ f[3] = w3 /\ n - 1 = 2
        BY <3>4
      <4> QED BY <3>4, <4>1
    <3>5. CASE n = 4
      <4>1. f[3] = w3 /\ f[4] = w4 /\ n - 1 = 3
        BY <3>5
      <4> QED BY <3>5, <4>1
    <3> QED BY <3>1, <3>2, <3>3, <3>4, <3>5
  <2> HIDE DEF w0, w1, w2, w3, w4
  <2> QED BY <2>1
<1>2. Within = Body(Within)
  <2> HIDE DEF f
  <2>1. \E g : g = Body(g)
    BY <1>1
  <2> QED BY <2>1 DEF Within
<1>3. \A n \in 0..4 : Within[n] = Body(Within)[n]
  BY <1>2
<1> HIDE DEF f
<1> QED BY <1>3

\* Pages that can be stepped to are reachable, up to the third step.
LEMMA ReachableSteps ==
  ASSUME NEW p, NEW q, NEW n \in 0..3, p \in Within[n], q \in Steps(p)
  PROVE  q \in Within[n + 1]
<1>1. n + 1 \in 1..4 /\ (n + 1) - 1 = n
  OBVIOUS
<1>2. Within[n + 1] = Within[n] \cup UNION {Steps(page) : page \in Within[n]}
  BY <1>1, WithinSteps
<1> QED BY <1>2

\* What is reached stays reachable.
LEMMA ReachableStays ==
  Within[0] \subseteq Reachable /\ Within[1] \subseteq Reachable /\ Within[2] \subseteq Reachable
<1>1. \A n \in 1..4 : Within[n - 1] \subseteq Within[n]
  BY WithinSteps
<1>2. Within[0] \subseteq Within[1] /\ Within[1] \subseteq Within[2]
      /\ Within[2] \subseteq Within[3] /\ Within[3] \subseteq Within[4]
  <2>1. 1 - 1 = 0 /\ 2 - 1 = 1 /\ 3 - 1 = 2 /\ 4 - 1 = 3
    OBVIOUS
  <2> QED BY <1>1, <2>1
<1> QED BY <1>2 DEF Reachable

\* Nothing leads to the page that is never shown.
LEMMA ReachablePages ==
  ASSUME PagesInv
  PROVE  Reachable \subseteq Screens \ {"menu_network_screen"}
<1> DEFINE Good == Screens \ {"menu_network_screen"}
<1>1. \A page \in Good : Steps(page) \subseteq Good
  <2>1. \A o \in Objects : Exits[o] \subseteq Good
    BY FixedPages DEF Exits
  <2>2. main \in Good
    BY MainPages DEF PagesInv
  <2>3. \A page \in Good : \A o \in Callbacks[page] : o \in Objects
    BY UiAssumption
  <2> QED BY <2>1, <2>2, <2>3 DEF Steps
<1>2. \A n \in 1..4 : Within[n - 1] \subseteq Good => Within[n] \subseteq Good
  BY <1>1, WithinSteps
<1>3. Within[0] \subseteq Good
  BY WithinSteps DEF PagesInv
<1>4. 1 - 1 = 0 /\ 2 - 1 = 1 /\ 3 - 1 = 2 /\ 4 - 1 = 3
  OBVIOUS
<1> QED BY <1>2, <1>3, <1>4 DEF Reachable

\* A widget no part of which may be hidden is visible.
LEMMA NeverHidden ==
  ASSUME PagesInv, NEW o, PathOf[o] \cap MayBeHidden = {}
  PROVE  Visible(o)
BY DEF PagesInv, Visible

\* From the menu it is one step to the main screen, and from the other pages
\* one step to the menu.
LEMMA PagesLead ==
  ASSUME PagesInv
  PROVE  /\ main \in Steps("menu_screen")
         /\ \A s \in Screens \ {"boot_screen", "rebooting_screen", "menu_screen"} :
              "menu_screen" \in Steps(s)
<1>1. main \in Steps("menu_screen")
  <2>1. PICK o \in Callbacks["menu_screen"] \cap MainExits : PathOf[o] \cap MayBeHidden = {}
    BY PagesAssumption
  <2>2. Visible(o)
    BY <2>1, NeverHidden
  <2> QED BY <2>1, <2>2 DEF Steps
<1>2. ASSUME NEW s \in Screens \ {"boot_screen", "rebooting_screen", "menu_screen"}
      PROVE  "menu_screen" \in Steps(s)
  <2>1. PICK o \in Callbacks[s] : PathOf[o] \cap MayBeHidden = {} /\ "menu_screen" \in Exits[o]
    BY PagesAssumption
  <2>2. Visible(o)
    BY <2>1, NeverHidden
  <2> QED BY <2>1, <2>2 DEF Steps
<1> QED BY <1>1, <1>2

\* The invariant is what the pages need.
LEMMA PagesNavigable == PagesInv => Navigable
<1> SUFFICES ASSUME PagesInv PROVE Navigable
  OBVIOUS
<1>0. active \in Within[0]
  BY WithinSteps
<1>1. WayBack(Reachable)
  <2> SUFFICES ASSUME active \notin {main, "boot_screen", "rebooting_screen"}
               PROVE  main \in Reachable
    BY DEF WayBack
  <2>1. CASE active = "menu_screen"
    <3>1. main \in Within[0 + 1]
      BY <1>0, <2>1, PagesLead, ReachableSteps
    <3> QED BY <3>1, ReachableStays
  <2>2. CASE active # "menu_screen"
    <3>1. "menu_screen" \in Steps(active)
      BY <2>2, PagesLead DEF PagesInv
    <3>2. "menu_screen" \in Within[0 + 1]
      BY <1>0, <3>1, ReachableSteps
    <3>3. main \in Within[1 + 1]
      BY <3>2, PagesLead, ReachableSteps
    <3> QED BY <3>3, ReachableStays
  <2> QED BY <2>1, <2>2
<1>2. NoDeadButtons(Reachable)
  <2> SUFFICES ASSUME Settled, NEW o \in DeadButtons, Visible(o)
               PROVE  ScreenOf[o] \notin Reachable
    BY DEF NoDeadButtons
  <2>1. Dead \subseteq hiddenObjs
    BY DEF Settled, Running, PagesInv
  <2>2. StaysHidden \subseteq hiddenObjs
    BY <2>1 DEF StaysHidden, PagesInv, Dead
  <2>3. ScreenOf[o] = "menu_network_screen"
    BY <2>2, PagesAssumption DEF Visible
  <2> QED BY <2>3, ReachablePages
<1> QED BY <1>1, <1>2 DEF Navigable

\* At first what is hidden is what starts hidden, and an update is to come.
LEMMA PagesInvInit == Init => PagesInv
<1> SUFFICES ASSUME Init PROVE PagesInv
  OBVIOUS
<1>1. scope.updaters \subseteq Updaters
  BY UiAssumption DEF Init
<1>2. PICK first \in Updaters :
        update = [u \in Updaters |-> [pc |-> IF u = first THEN "read" ELSE "idle", up |-> FALSE]]
  BY <1>1 DEF Init
<1>3. update[first].pc = "read"
  BY <1>2
<1>4. main \in MainScreens /\ active \in Screens \ {"menu_network_screen"}
  BY MainPages DEF Init, MainScreens
<1> QED BY <1>3, <1>4 DEF Init, PagesInv, MayBeHidden

\* A step that hides and shows nothing, keeps the updates that are to read, and
\* shows a page that something leads to.
LEMMA PagesShow ==
  ASSUME PagesInv, UNCHANGED <<native, hiddenObjs>>, main' \in MainScreens,
         active' \in Screens \ {"menu_network_screen"},
         \A u \in Updaters : update[u].pc = "read" => update'[u].pc = "read"
  PROVE  PagesInv'
BY DEF PagesInv

\* The finger.
LEMMA PagesFinger ==
  ASSUME PagesInv, Finger PROVE PagesInv'
<1>0. active \in Screens \ {"menu_network_screen"} /\ main \in MainScreens
  BY DEF PagesInv
<1>1. UNCHANGED <<native, main, update>>
  BY DEF Finger, PressOn, Swipe, KeepPressing, LongPress, Lift, mainVars
<1>2. ASSUME NEW o, PressOn(o) PROVE PagesInv'
  <2>1. Load(Destinations(TargetOf[o], "PRESSED", "none")) /\ UNCHANGED hiddenObjs
    BY <1>2 DEF PressOn
  <2>2. active' \in Screens \ {"menu_network_screen"}
    BY <1>0, <2>1, LoadPages
  <2> QED BY <1>0, <1>1, <2>1, <2>2, PagesShow
<1>3. CASE LongPress
  <2>1. Load(Destinations(press.on, "LONG_PRESSED", "none")) /\ UNCHANGED hiddenObjs
    BY <1>3 DEF LongPress
  <2>2. active' \in Screens \ {"menu_network_screen"}
    BY <1>0, <2>1, LoadPages
  <2> QED BY <1>0, <1>1, <2>1, <2>2, PagesShow
<1>4. ASSUME NEW dir, Swipe(dir) PROVE PagesInv'
  <2>1. Load(Destinations(ScreenOf[press.on], "GESTURE", dir)) /\ UNCHANGED hiddenObjs
    BY <1>4 DEF Swipe
  <2>2. active' \in Screens \ {"menu_network_screen"}
    BY <1>0, <2>1, LoadPages
  <2> QED BY <1>0, <1>1, <2>1, <2>2, PagesShow
<1>5. CASE Lift
  <2>1. /\ Load(IF press.wait THEN {} ELSE Destinations(press.on, "CLICKED", "none"))
        /\ UNCHANGED hiddenObjs
    BY <1>5 DEF Lift
  <2>2. active' \in Screens \ {"menu_network_screen"}
    <3>1. CASE press.wait
      BY <1>0, <2>1, <3>1 DEF Load, screenVars
    <3>2. CASE ~press.wait
      BY <1>0, <2>1, <3>2, LoadPages
    <3> QED BY <3>1, <3>2
  <2> QED BY <1>0, <1>1, <2>1, <2>2, PagesShow
<1>6. CASE KeepPressing
  <2>1. \/ UNCHANGED hiddenObjs
        \/ hiddenObjs' = (hiddenObjs \cup {"reset_config_button"}) \ {"reset_config_spinner"}
    BY <1>6 DEF KeepPressing, HoldAction
  <2>2. UNCHANGED active
    BY <1>6 DEF KeepPressing, screenVars
  <2>3. "reset_config_button" \in MayBeHidden /\ "reset_config_spinner" \notin Dead
    BY DEF MayBeHidden, Dead
  <2> QED BY <1>1, <2>1, <2>2, <2>3 DEF PagesInv
<1> QED BY <1>2, <1>3, <1>4, <1>5, <1>6 DEF Finger

\* An update that starts does not end another one, and is to read.
LEMMA SpawnReads ==
  ASSUME update \in [Updaters -> Updates], scope.updaters \subseteq Updaters, Spawn
  PROVE  /\ \A u \in Updaters : update[u].pc = "read" => update'[u].pc = "read"
         /\ \E u \in Updaters : update'[u].pc = "read"
BY DEF Spawn, Goto, Running, Updates

\* The updates.
LEMMA PagesUpdate ==
  ASSUME PagesInv, UpdateType, NEW u \in Updaters, UpdateStep(u) PROVE PagesInv'
<1>0. update \in [Updaters -> Updates]
  BY DEF UpdateType, Updates
<1>1. CASE UpdateRead(u)
  <2>1. UNCHANGED <<native, active, main>> /\ jetkvm_ui_add_flag(Dead)
    BY <1>1 DEF UpdateRead, screenVars, Dead
  <2>2. Dead \subseteq MayBeHidden
    BY DEF Dead, MayBeHidden
  <2> QED BY <2>1, <2>2 DEF PagesInv, jetkvm_ui_add_flag
<1>2. CASE UpdateVar(u)
  <2>1. UNCHANGED <<native, active, hiddenObjs>> /\ main' \in MainScreens
    BY <1>2, MainPages DEF UpdateVar, screenVars, jetkvm_ui_set_var, PagesInv
  <2>2. \A v \in Updaters : update[v].pc = "read" => update'[v].pc = "read"
    BY <1>0, <1>2 DEF UpdateVar, Goto, Updates
  <2> QED BY <2>1, <2>2, PagesShow DEF PagesInv
<1>3. CASE UpdateGet(u)
  <2>1. UNCHANGED <<native, active, hiddenObjs, main>>
    BY <1>3 DEF UpdateGet, screenVars
  <2>2. \A v \in Updaters : update[v].pc = "read" => update'[v].pc = "read"
    BY <1>0, <1>3 DEF UpdateGet, Goto, End, Updates
  <2> QED BY <2>1, <2>2, PagesShow DEF PagesInv
<1>4. CASE UpdateSwitch(u)
  <2>1. UNCHANGED <<native, hiddenObjs, main>>
    BY <1>4 DEF UpdateSwitch
  <2>2. active' \in Screens \ {"menu_network_screen"}
    BY <1>4, MainPages DEF UpdateSwitch, jetkvm_ui_load_screen, PagesInv
  <2>3. \A v \in Updaters : update[v].pc = "read" => update'[v].pc = "read"
    BY <1>0, <1>4 DEF UpdateSwitch, End, Updates
  <2> QED BY <2>1, <2>2, <2>3, PagesShow DEF PagesInv
<1> QED BY <1>1, <1>2, <1>3, <1>4 DEF UpdateStep

\* Every step keeps the invariant.
LEMMA PagesInvStep == PagesInv /\ UpdateInv /\ [Next]_vars => PagesInv'
<1> SUFFICES ASSUME PagesInv, UpdateInv, [Next]_vars PROVE PagesInv'
  OBVIOUS
<1>0. /\ UpdateType /\ update \in [Updaters -> Updates] /\ scope.updaters \subseteq Updaters
      /\ active \in Screens \ {"menu_network_screen"} /\ main \in MainScreens
  BY UiAssumption DEF UpdateInv, UpdateType, Updates, PagesInv
<1>1. CASE Tick \/ UNCHANGED vars
  BY <1>0, <1>1, PagesShow DEF Tick, vars, screenVars, mainVars
<1>2. CASE Request \/ NetworkChange
  <2>1. UNCHANGED <<native, hiddenObjs, main, active>> /\ Spawn
    BY <1>2 DEF Request, NetworkChange, screenVars
  <2> QED BY <1>0, <2>1, SpawnReads, PagesShow
<1>3. CASE RebootStep
  <2>1. UNCHANGED <<native, hiddenObjs, main, update>>
    BY <1>3 DEF RebootStep, TakeRpc, RebootShow, RebootCommand, RebootFailed
  <2>2. active' \in Screens \ {"menu_network_screen"}
    BY <1>0, <1>3, MainPages
       DEF RebootStep, TakeRpc, RebootShow, RebootCommand, RebootFailed, screenVars,
           jetkvm_ui_load_screen
  <2> QED BY <1>0, <2>1, <2>2, PagesShow
<1>4. CASE Crash
  BY <1>4 DEF Crash, PagesInv, screenVars
<1>5. CASE Restart
  <2>1. /\ active' = "boot_screen" /\ main' = "home_screen" /\ hiddenObjs' = InitialHidden
        /\ Spawn
    BY <1>5 DEF Restart, loadScreen
  <2>2. active' \in Screens \ {"menu_network_screen"} /\ main' \in MainScreens
    BY <2>1, MainPages DEF MainScreens
  <2> QED BY <1>0, <2>1, <2>2, SpawnReads DEF PagesInv, MayBeHidden
<1> QED BY <1>0, <1>1, <1>2, <1>3, <1>4, <1>5, PagesFinger, PagesUpdate DEF Next

\* From every page the user can get to there is a way back to the main screen of
\* the moment, and no button without a callback is shown when no update is under
\* way: for any touches, any number of updates at the same time and any number of
\* deaths of the native process.
THEOREM PagesLeadSomewhere == Spec => []Navigable
<1>1. Spec => []UpdateInv
  BY UpdateInvInit, UpdateInvStep, PTL DEF Spec
<1> QED BY <1>1, PagesInvInit, PagesInvStep, PagesNavigable, PTL DEF Spec

----------------------------------------------------------------------------
(* The text is legible. *)

\* The styles that labels are given, and the buttons whose labels have none.
TextStyleNames ==
  {"label_font16", "label_font_bold30", "header_link", "menu_button_label",
   "info_headline_label", "info_content_label"}
HoldButtons == {"obj0", "obj1", "obj2"}

\* A label has one of these styles, or stands on one of these buttons.
Styled(w) == w.class = "label" => w.style \in TextStyleNames \/ w.up \in HoldButtons

\* What a style sets, and what its base sets, it sets.
LEMMA StyleSets ==
  ASSUME NEW s \in Styles, s.name \in AllStyles
  PROVE  s.sets \subseteq StyleProps[s.name] /\ StyleProps[s.base] \subseteq StyleProps[s.name]
BY StylesAssumption

\* These styles have a colour of their own, but for the bold one, which has it
\* from label_font16.
LEMMA TextStylesColour ==
  \A name \in TextStyleNames : name \in AllStyles /\ "text_color" \in StyleProps[name]
<1>1. \A name \in TextStyleNames : name \in AllStyles
  BY DEF TextStyleNames, AllStyles, StyleNames
<1>2. \A name \in TextStyleNames \ {"label_font_bold30"} :
        \E s \in Styles : s.name = name /\ "text_color" \in s.sets
  <2>1. /\ \A name \in {"label_font16", "header_link"} :
             \E s \in TextStyles : s.name = name /\ "text_color" \in s.sets
        /\ \E s \in MenuStyles : s.name = "menu_button_label" /\ "text_color" \in s.sets
        /\ \A name \in {"info_headline_label", "info_content_label"} :
             \E s \in InfoStyles : s.name = name /\ "text_color" \in s.sets
    BY DEF TextStyles, MenuStyles, InfoStyles, Style
  <2>2. TextStyles \cup MenuStyles \cup InfoStyles \subseteq Styles
    BY DEF Styles
  <2> QED BY <2>1, <2>2 DEF TextStyleNames
<1>3. \A name \in TextStyleNames \ {"label_font_bold30"} : "text_color" \in StyleProps[name]
  BY <1>1, <1>2, StyleSets
<1>4. \E s \in Styles : s.name = "label_font_bold30" /\ s.base = "label_font16"
  <2>1. \E s \in TextStyles : s.name = "label_font_bold30" /\ s.base = "label_font16"
    BY DEF TextStyles, Style
  <2> QED BY <2>1 DEF Styles
<1>5. "text_color" \in StyleProps["label_font_bold30"]
  BY <1>1, <1>3, <1>4, StyleSets DEF TextStyleNames
<1> QED BY <1>1, <1>3, <1>5

\* The parts that pages are built from.
LEMMA PartsStyled ==
  /\ \A a, b, c, d, e, f : \A w \in Page(a, b, c, d, e, f) : Styled(w)
  /\ \A a, b, c : \A w \in StatusBlock(a, b, c) \cup MenuButton(a, b, c) \cup Fact(a, b, c) : Styled(w)
  /\ \A a, b, c, d, e, f, g : \A w \in HoldItems(a, b, c, d, e, f, g) : Styled(w)
<1> USE DEF Styled, TextStyleNames, Widget
<1>1. \A a, b, c, d, e, f : \A w \in Page(a, b, c, d, e, f) : Styled(w)
  BY DEF Page, Screen, Obj, Button, Image, Label
<1>2. \A a, b, c : \A w \in StatusBlock(a, b, c) : Styled(w)
  BY DEF StatusBlock, Panel, Image, Label
<1>3. \A a, b, c : \A w \in MenuButton(a, b, c) \cup Fact(a, b, c) : Styled(w)
  BY DEF MenuButton, Fact, Button, Label, Obj
<1>4. \A a, b, c, d, e, f, g : \A w \in HoldItems(a, b, c, d, e, f, g) : Styled(w)
  BY DEF HoldItems, Obj, Button, Label
<1> QED BY <1>1, <1>2, <1>3, <1>4

\* The labels of create_screens.
LEMMA AllStyled == \A w \in Widgets : Styled(w)
<1>1. \A w \in BootScreen \cup RebootingScreen : Styled(w)
  BY DEF BootScreen, RebootingScreen, Screen, Obj, Image, Label, Widget, Styled, TextStyleNames
<1>2. \A w \in NoNetworkScreen \cup HomeHeader \cup HomeInfo : Styled(w)
  BY DEF NoNetworkScreen, HomeHeader, HomeInfo, Screen, Panel, Image, Label, Hidden, Widget,
         Styled, TextStyleNames
<1>3. \A w \in HomeUsb \cup HomeHdmi : Styled(w)
  BY PartsStyled DEF HomeUsb, HomeHdmi, Panel, Widget, Styled
<1>4. \A w \in MenuPage \cup AdvancedPage \cup NetworkPage \cup AboutPage \cup StatusPage
                 \cup ResetConfigPage \cup RebootPage \cup DhcpClientPage : Styled(w)
  BY PartsStyled DEF MenuPage, AdvancedPage, NetworkPage, AboutPage, StatusPage, ResetConfigPage,
         RebootPage, DhcpClientPage
<1>5. \A w \in MenuItems \cup AdvancedItems \cup NetworkItems : Styled(w)
  BY PartsStyled DEF MenuItems, AdvancedItems, NetworkItems, Obj, Widget, Styled
<1>6. \A w \in AdvancedHidden : Styled(w)
  BY DEF AdvancedHidden, Hidden, Button, Obj, Label, Widget, Styled, TextStyleNames
<1>7. \A w \in AboutVersions \cup AboutBuild \cup AboutDevice : Styled(w)
  BY PartsStyled DEF AboutVersions, AboutBuild, AboutDevice, Obj, Widget, Styled
<1>8. \A w \in StatusItems : Styled(w)
  BY PartsStyled DEF StatusItems, Fact, Obj, Label, Hidden, Widget, Styled, TextStyleNames
<1>9. \A w \in ResetConfigItems \cup RebootItems \cup DhcpClientItems : Styled(w)
  BY PartsStyled DEF ResetConfigItems, RebootItems, DhcpClientItems, Panel, Spinner, Label, Hidden,
         Widget, Styled, HoldButtons
<1> QED BY <1>1, <1>2, <1>3, <1>4, <1>5, <1>6, <1>7, <1>8, <1>9 DEF Widgets

\* A widget that create_screens makes is the one of its name.
LEMMA WidgetOf ==
  ASSUME NEW w \in Widgets PROVE w.id \in Objects /\ objects[w.id] = w
<1>1. w.id \in Objects
  BY DEF Objects
<1>2. \E v \in Widgets : v.id = w.id
  OBVIOUS
<1>3. objects[w.id] = CHOOSE v \in Widgets : v.id = w.id
  BY <1>1 DEF objects
<1>4. objects[w.id] \in Widgets /\ objects[w.id].id = w.id
  BY <1>2, <1>3
<1> QED BY <1>1, <1>4, ScreensAssumption

\* The buttons whose labels have no style are buttons.
LEMMA HoldButtonsAre ==
  \A o \in HoldButtons : o \in Objects /\ objects[o].class = "button" /\ o # Top
<1>1. \A a, b, c, d, e, f, g : \E w \in HoldItems(a, b, c, d, e, f, g) :
        w.id = f /\ w.class = "button"
  BY DEF HoldItems, Button, Widget
<1>2. \A o \in HoldButtons :
        \E w \in ResetConfigItems \cup RebootItems \cup DhcpClientItems : w.id = o /\ w.class = "button"
  <2>1. \E w \in ResetConfigItems : w.id = "obj0" /\ w.class = "button"
    BY <1>1 DEF ResetConfigItems
  <2>2. \E w \in RebootItems : w.id = "obj1" /\ w.class = "button"
    BY <1>1 DEF RebootItems
  <2>3. \E w \in DhcpClientItems : w.id = "obj2" /\ w.class = "button"
    BY <1>1 DEF DhcpClientItems
  <2> QED BY <2>1, <2>2, <2>3 DEF HoldButtons
<1>3. ResetConfigItems \cup RebootItems \cup DhcpClientItems \subseteq Widgets
  BY DEF Widgets
<1> QED BY <1>2, <1>3, WidgetOf DEF HoldButtons, Top

\* Every label has a colour.
LEMMA LabelsColoured ==
  ASSUME NEW o \in Objects, objects[o].class = "label" PROVE o \in Coloured
<1>1. objects[o] \in Widgets
  BY ScreensAssumption
<1>2. Styled(objects[o])
  BY <1>1, AllStyled
<1>3. CASE objects[o].style \in TextStyleNames
  BY <1>3, TextStylesColour, TreeAssumption DEF Coloured
<1>4. CASE objects[o].up \in HoldButtons
  BY <1>4, HoldButtonsAre, TreeAssumption DEF Coloured
<1> QED BY <1>2, <1>3, <1>4 DEF Styled

\* The labels of the screen that is shown have a colour of their own, from their
\* style, the style it is built on, or the button they stand on.
THEOREM TextStaysLegible == Spec => []TextLegible
<1>1. PagesInv => TextLegible
  <2> SUFFICES ASSUME PagesInv, NEW o \in Labels[active] PROVE o \in Coloured
    BY DEF TextLegible
  <2>1. o \in Objects /\ objects[o].class = "label"
    BY DEF PagesInv, Labels
  <2> QED BY <2>1, LabelsColoured
<1>2. Spec => []UpdateInv
  BY UpdateInvInit, UpdateInvStep, PTL DEF Spec
<1> QED BY <1>1, <1>2, PagesInvInit, PagesInvStep, PTL DEF Spec
==============================================================================
