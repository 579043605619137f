---------------------------- MODULE NativeRestart ----------------------------
(***************************************************************************)
(* The native process dies and the proxy starts a new one (proxy.go,       *)
(* native.go): what it had in memory, the panel, is set up again, and what *)
(* the chip kept, the host's display, is written again, while the main     *)
(* process goes on calling it.                                             *)
(***************************************************************************)
EXTENDS Integers, Sequences, FiniteSets

CONSTANTS Radix, BlockSize, DefaultEDID, Inputs, Rotations, Updates, Drawers, Blinkers,
          Window,
          MaxRestarts,   \* MaxRestartAttempts
          Scopes         \* bounds: which parts a behaviour moves, and after
                         \* how many events from outside

VARIABLES
  native,
  config, session, edge, rpc, reapply, advertised, device, stale,
  panel, option, wanted, turn, ready, label, update, mixed,
  configured, cloud, icon, draw, blink, blinker, overlapped,
  klog, status, answer,
  restarts,   \* NativeProxy.restarts
  hung,       \* a child that never became ready, alive, and waited for
  callback,   \* OnNativeRestart goroutines that have not got to the panel yet
  events,
  scope       \* the scope of this behaviour

Host == INSTANCE HostDisplay
Disp == INSTANCE Panel
Cloud == INSTANCE CloudIcon
Stat == INSTANCE StatusLog

ASSUME RestartAssumption ==
  /\ MaxRestarts \in Nat /\ Window \in Nat
  /\ Scopes \subseteq [parts : SUBSET {"host", "panel", "cloud", "status"}, events : Nat]
  /\ Drawers # {}

\* The default EDID is a string of digits for one or two blocks; users send
\* any string.
ASSUME EdidAssumption ==
  /\ Radix \in Nat \ {0} /\ BlockSize \in Nat \ {0}
  /\ DefaultEDID \in Seq(Host!Digit)
  /\ Len(DefaultEDID) \in {2 * BlockSize, 4 * BlockSize}
  /\ \A edid \in Inputs : edid \in Seq(Host!Digit \cup {Host!Sign, Host!Junk})

hostVars  == <<config, session, edge, rpc, reapply, advertised, device, stale>>
panelVars == <<panel, option, wanted, turn, ready, label, update, mixed>>
cloudVars == <<configured, cloud, icon, draw, blink, blinker, overlapped>>
statVars  == <<klog, status, answer>>
own       == <<restarts, hung, callback, events, scope>>
vars      == <<native, hostVars, panelVars, cloudVars, statVars, own>>

Moves(part) == part \in scope.parts

Init ==
  /\ Host!Init /\ Disp!Init /\ Cloud!Init /\ Stat!Init
  /\ restarts = 0 /\ hung = FALSE /\ callback = 0 /\ events = 0
  /\ scope \in Scopes
  \* A part that does not move starts in one way.
  /\ Moves("host") \/ (config.hide = FALSE /\ device = <<>>)
  /\ Moves("panel") \/ option = CHOOSE r \in Rotations : TRUE
  /\ Moves("cloud") \/ configured = FALSE

\* Gone for good: the program exits, and its supervisor enters failsafe mode.
Fatal == restarts >= MaxRestarts

External ==
  /\ events < scope.events /\ ~Fatal
  /\ events' = events + 1
  /\ \/ Moves("host") /\ Host!Stimulus /\ UNCHANGED <<panelVars, cloudVars, statVars>>
     \/ Moves("panel") /\ Disp!Stimulus /\ UNCHANGED <<hostVars, cloudVars, statVars>>
     \/ Moves("cloud") /\ Cloud!Stimulus /\ UNCHANGED <<hostVars, panelVars, statVars>>
     \/ Moves("status") /\ Stat!Stimulus /\ UNCHANGED <<hostVars, panelVars, cloudVars>>
  /\ UNCHANGED <<restarts, hung, callback, scope>>

Internal ==
  /\ ~Fatal
  /\ \/ Moves("host") /\ Host!Step /\ UNCHANGED <<panelVars, cloudVars, statVars>>
     \/ Moves("panel") /\ Disp!Step /\ UNCHANGED <<hostVars, cloudVars, statVars>>
     \/ Moves("cloud") /\ Cloud!Step /\ UNCHANGED <<hostVars, panelVars, statVars>>
     \/ Moves("status") /\ Stat!Step /\ UNCHANGED <<hostVars, panelVars, cloudVars>>
  /\ UNCHANGED own

\* The blinking goes on as long as the connection is being made.
Blinking ==
  /\ Moves("cloud") /\ ~Fatal
  /\ Cloud!Blinking
  /\ UNCHANGED <<hostVars, panelVars, statVars, own>>

Crash ==
  /\ native /\ events < scope.events
  /\ native' = FALSE /\ events' = events + 1
  /\ Stat!Killed
  /\ UNCHANGED <<hostVars, panelVars, cloudVars, klog, answer, restarts, hung, callback, scope>>

\* monitorProcess waits for the child to exit and then calls restartProcess.
Attempt == ~native /\ ~hung /\ ~Fatal /\ restarts' = restarts + 1

\* The attempt fails and leaves no child: it did not start, or was killed after
\* WaitReady.  The next one follows.
RestartFails ==
  /\ Attempt
  /\ UNCHANGED <<native, hung, hostVars, panelVars, cloudVars, statVars, callback, events, scope>>

\* The handshake times out, or the client cannot be made, and nobody kills the
\* child: monitorProcess goes back to cmd.Wait, on a child that lives.
RestartHangs ==
  /\ Attempt /\ restarts + 1 < MaxRestarts
  /\ hung' = TRUE
  /\ UNCHANGED <<native, hostVars, panelVars, cloudVars, statVars, callback, events, scope>>

\* Such a child may exit, some time or never.
HungExits ==
  /\ hung /\ ~Fatal
  /\ hung' = FALSE
  /\ UNCHANGED <<native, hostVars, panelVars, cloudVars, statVars,
                 restarts, callback, events, scope>>

\* The new process is ready, with its screens, and OnNativeRestart runs on a
\* goroutine.
Restart ==
  /\ Attempt /\ restarts + 1 < MaxRestarts
  /\ native' = TRUE
  /\ panel' = Disp!Fresh(option) /\ label' = Disp!NewLabel /\ icon' = Cloud!NewIcon
  /\ callback' = callback + 1
  /\ UNCHANGED <<hung, hostVars, option, wanted, turn, ready, update, mixed,
                 configured, cloud, draw, blink, blinker, overlapped, statVars, events, scope>>

\* OnNativeRestart: the display update is requested, then the host's display
\* is written.
OnNativeRestart ==
  /\ callback > 0 /\ ~Fatal
  /\ callback' = callback - 1
  /\ IF Moves("panel") THEN Disp!Requested ELSE UNCHANGED update
  /\ IF Moves("cloud") THEN Cloud!Requested ELSE UNCHANGED draw
  /\ IF Moves("host") THEN ~reapply /\ reapply' = TRUE ELSE UNCHANGED reapply
  /\ UNCHANGED <<native, config, session, edge, rpc, advertised, device, stale,
                 panel, option, wanted, turn, ready, label, mixed,
                 configured, cloud, icon, blink, blinker, overlapped, statVars,
                 restarts, hung, events, scope>>

\* Everything that was set off has been done, and the native process runs, or
\* its restart hangs.
Rest ==
  /\ native \/ hung
  /\ callback = 0
  /\ Moves("host") => Host!Rest
  /\ Moves("panel") => Disp!Rest
  /\ Moves("cloud") => Cloud!Rest
  /\ Moves("status") => Stat!Rest

Next ==
  \/ External \/ Internal \/ Blinking \/ Crash
  \/ RestartFails \/ RestartHangs \/ HungExits \/ Restart \/ OnNativeRestart

Spec == Init /\ [][Next]_vars

\* The program runs its goroutines, and an attempt to restart the native process
\* ends, in one way or another; nobody ends a child that hangs.
FairSpec ==
  /\ Spec
  /\ WF_vars(Internal) /\ WF_vars(OnNativeRestart) /\ WF_vars(Restart \/ RestartFails \/ RestartHangs)

----------------------------------------------------------------------------
(* Properties. *)

\* Every variable has its type.
TypeOK ==
  /\ Host!TypeOK /\ Disp!TypeOK /\ Cloud!TypeOK /\ Stat!TypeOK
  /\ restarts \in 0 .. MaxRestarts /\ hung \in BOOLEAN /\ callback \in Nat
  /\ scope \in Scopes /\ events \in 0 .. scope.events

\* The chip has the EDID of the configuration: see HostDisplay.
DeviceMatchesConfig == Host!DeviceMatchesConfig

\* The checksums in the chip are right, and the EDID that is read is the EDID
\* that was written: see HostDisplay.
EdidSound == Host!ChecksumsRight /\ Host!ReadBack

\* The panel is oriented one way, in every process: see Panel.
PanelOriented == Disp!PanelOriented

\* Once OnNativeRestart has run, the label of the HDMI input, whether there is a
\* cloud icon, and the ticker of its blinking follow what the main process knows:
\* see Panel and CloudIcon.
DisplayRestored ==
  callback = 0 => /\ Disp!LabelFollowsVideo
                  /\ Moves("cloud") => Cloud!IconFollowsCloud

\* A status of the chip is whole, and the one that was asked for: see
\* StatusLog.
StatusWhole == Stat!StatusWhole

\* However many calls fail, and however often the native process dies, the
\* program comes to rest: no retry and no rollback goes on for ever, and the
\* proxy gives up after MaxRestartAttempts, has a native process that runs, or
\* is stuck with one that never became ready.
ComesToRest == <>[](Fatal \/ Rest)
============================================================================
