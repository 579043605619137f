# Formal models of the JetKVM device software

JetKVM is a KVM-over-IP device. A Go program (`*.go` at the root of the repository)
serves browsers over WebRTC, plays a USB keyboard, mouse and disk to the host, and
talks over gRPC to a native process (`internal/native`, C in `internal/native/cgo` and
`internal/native/eez`) that captures HDMI, encodes it and draws the small screen.

This directory holds TLA+ models of the parts whose behaviour depends on the order in
which goroutines, threads, timers, messages, fingers and crashes come, the TLC runs that
check them on small instances, and TLAPS proofs of all of their safety properties for
instances of any size. `PROJECT.json` is the machine-readable index:
components, runs, mutants, the map from definitions to source lines, findings, hazards
and theorems.

To check: `tlc -config <run>.cfg <module>` for the runs of `PROJECT.json`, and `tlapm` on
the eight modules whose name ends in `Proofs` for the proofs (half a minute to three minutes
each).

## 1. Inventory

| Component | State | Operations | Hard parts |
|---|---|---|---|
| Keyboard gadget (`internal/usbgadget/hid_keyboard.go`, `hid_consumer.go`) | modifier byte, six-slot key buffer, consumer bits, auto-release timers | `KeypressReport`, `KeyboardReport`, keepalive delay, auto-release, cancel all | two locks never held together; a timer that fired cannot be recalled |
| HID input path (`hidrpc.go`, `usb.go`, queues of `webrtc.go`) | per-session queues, keepalive timestamps | dispatch, keepalive acceptance, USB-ready gate | jitter, loss; reports silently dropped while USB is down |
| Keyboard macros (`jsonrpc.go`, `keyboard_macro_exec.go`) | one global cancel function | execute, cancel | several executing goroutines, one cancel slot |
| Sessions (`webrtc.go`, `cloud.go`, `web.go`, `video.go`, `audio.go`) | `currentSession`, active count, audio owner, advertised display, sleep ticker | request, ICE connected, lost, closed; first-in and last-out actions | edges of the count act after its mutex is free; handoff |
| Native video (`cgo/video.c`, `internal/native/video.go`) | streaming flag and thread, buffer pool, encoder channel, detected format | start, stop, restart, sleep, quality, codec; streaming thread, reader, detector | the detector restarts the stream without the lock of the RPC side; early returns; joins |
| Host display (`cgo/edid.c`, `cgo/ctrl.c`, `video.go`, `jsonrpc.go`) | EDID in the chip, configured EDID, advertised flag | set EDID, hide when idle, session edges, write after a restart | partial failure and rollback, checksum arithmetic |
| Chip status (`cgo/edid.c`) | the kernel log | query | earlier answers and other messages in the same log |
| Panel (`cgo/screen.c`, `display.go`, `internal/native/display.go`) | rotation, touch calibration, padding, labels | rotate, discover touch, update | touch found at any time; native process replaced |
| Cloud icon (`display.go`, `cloud.go`) | connection state, icon, blink goroutine | state change, update, blink | state read twice without its lock |
| Screens (`eez/src/ui/*.c`, `hw.go`) | widget tree, loaded screen, `main_screen`, hold locks | touch, gesture, hold, update, reboot | three parties decide which screen is shown |
| gRPC bridge (`grpc_server.go`, `grpc_client.go`, `chan.go`, `cgo_linux.go`, `cgo/ctrl.c`) | event channels, streams, `cgoLock` | callback, broadcast, stream, receive, handle | bounded queues between lock holders; stream replaced |
| Proxy (`internal/native/proxy.go`) | child process, restart count | restart, give up | a crash between any two steps of anybody |
| Stand-alone daemon (`cgo/main.c`) | socket, current client, descriptors | set up, accept, replace, read, take down | descriptor numbers used again; error exits |
| OTA, USB recovery, cloud connection, virtual media, MQTT, serial, network, configuration, time, TLS, terminal, web UI | see `PROJECT.json` | | mostly I/O around libraries |

Interactions. A browser's HID messages go through a session's queue to the gadget; the
session's end, or another session's arrival, cancels macros, cancels timers and clears
the keyboard. The first and the last session start and stop the native video, the display
advertisement and the sleep ticker. The native process restarts its stream by itself when
the HDMI format changes. Events of the native process (video state, touch, RPCs of its
buttons) travel over the bridge to the main process, which answers with calls. When the
native process dies, the proxy starts another one, and `OnNativeRestart` sets up display
and EDID again.

What makes each component correct:

* gadget: the buffer is a set of held keys; no key stays down without somebody who will
  release it; the clear on close is the last word; modifiers are never auto-released;
* keepalive: jitter never releases a held key, silence always does, in bounded time;
* macros: a cancelled one ends, and none leaves a key down;
* sessions: the count is exact, shared devices are on exactly while somebody needs them;
* video: no thread handle is misused, stop and start mean what they say, blocks and the
  encoder channel are given back, the encoder fits the source, control calls return;
* host display: chip and configuration agree, checksums are right, what is read can be
  written again; a status is whole and the latest one;
* panel, icon, screens: they show what the main process knows, also in a new process; every
  page has a way back; a hold acts once and only after its time;
* bridge: it is an ordered queue for each kind of event; nobody waits for somebody who waits
  for him; a broken stream is replaced;
* daemon: it never blocks on one client, loses no descriptor, serves who came last.

## 2. Modules

### Keyboard gadget: `KeyBuffer`, `HeldKeys`, `Keyboard`, `MCKeyboard`

`KeyBuffer` has the pure functions: the scan for a slot, press with overrun, release with
the shift to the left, and `stripMediaKeys`. Key codes are three disjoint sets (buffer
keys, media keys, modifiers). `HeldKeys` is the abstract promise, a set of at most
`Capacity` keys. `Keyboard` is the concurrent system. Its processes:

* handlers: `Dequeue` (message taken from the queue) -> `HandleKeypress` (the USB gate and
  `keypressReport`, one critical section) -> `SettleTimer` (schedule or cancel, another one);
* whole-state reports `ReportAll`; keepalives `DelayAutoRelease`;
* timers `TimerFires`; auto-release goroutines `TakeEntry` -> `CheckDown` -> `AutoRelease`,
  the three critical sections of `performAutoRelease`;
* the session cleaner: `CancelAllAutoReleaseTimers` -> `ClearKeys` -> `CloseDone` ->
  `LastSessionDisconnected`; and the world: `NewSession`, `ClientStops`, `UsbChange`.

Failed writes to `/dev/hidg0` change nothing in `keysDownState` (it is updated regardless);
a failed Consumer Control write leaves the old bits, which the model chooses freely. The
history variables `tapped`, `late` and `skipped` record what the properties speak of.

### Keepalive: `KeepAlive`

Discrete time. A client sends a keepalive every `ExpectedRate` while it holds the key; the
channel keeps the order, delays up to `Jitter` and may lose keepalives; the device applies
the tests and the extension of `handleHidRPCKeypressKeepAlive`. The two timestamps of the
code are always assigned together and are one variable. The history variable `calm` says
that since the press nothing was lost or late by `maxLateness` or more.

### Macros: `KeyboardMacro`

`cancelKeyboardMacro` and `setKeyboardMacroCancel` are separate critical sections, as in the
code; a macro is press/release pairs as `convertConfigMacroToHidSteps` and the UI build
them, with positive delays. A report replaces the whole keyboard state, so the model
keeps whose press is down.

### Sessions: `Sessions`

A request handler and a serial ICE callback per session; each call that an edge of the
count makes is a step. `sleeper` is the ticker goroutine between its look at the count and
`VideoSetSleepMode`. `NativeRestart` (the action) is the restart of the native process as
`native.go` handles it. A closed session that nothing refers to is forgotten and its
identity used again, so two identities stand for any number of successive sessions.
`SetAdvertised` is `setHostDisplayAdvertised`: a write of the EDID that fails leaves the flag as
it was, and every caller drops the error. The history variable `failed` records the two failures
the properties have to name: the last attempt to show the display failed, and a write that was
to put the chip to sleep failed since the last session left. Which codec a session negotiated
is left out.

### Video: `Encoder`, `VideoStream`, `MCVideoStream`

The two controllers (`rpc`, serialised by `videoLock`; `det`, the detector) go through
`video_start_streaming`, `video_stop_streaming` and `video_restart_streaming` statement by
statement, because `streaming_thread` is an unsynchronised global that every statement
reads again. `Threads` are streaming threads; `venc` is the encoder with its reader and the
attributes it was given. `Encoder` has the arithmetic: rounding of the rate, bit rate, its
bounds, the key frame interval, alignment, and whether a frame fits a block of the pool.
The detector stores width, height and rate in three steps, and a streaming thread reads them
in three. Undefined behaviour (use of a NULL, freed, joined or concurrently joined handle) ends
the behaviour with `crashed`. Timed waits are over-approximated: they may end at any time.
`sleep` is the `sleep_mode` file; a write that was to wake the chip and failed leaves it
`"stuck"`, which nobody looks at. A scope says which calls are made, which sources come, what may
fail, and whether the stream is up at the start.

The two controllers take no common lock, and the code is right only as long as they do not
come together in the wrong place. The history variable `overlap` says what has come together
so far: `"none"`; `"calls"`, a restart of the detector and a call were under way at once;
`"sections"`, two of them were between a look at `streaming_thread` that decides to stop or to
start a thread and the assignment that follows it (`Section`). Each property names the least of
these it has to except: none for the blocks, the channel and the parameters of the encoder,
`"sections"` for the handle, for the waits and for a start, which a restart never loses, and
`"calls"` for a stop, which a restart may undo, for the chip's sleep and for the encoder's settings.
A call that runs between the detector's query and its restart, however close, is `"none"`.

### Host display, status, panel, icon and the restart: `HostDisplay`, `StatusLog`, `Panel`, `CloudIcon`, `NativeRestart`, `MCNativeRestart`

`HostDisplay` has `hex_to_bytes`, `bytes_to_hex`, `fix_edid_checksum`, `set_edid` and
`get_edid` as functions on sequences of digits and bytes (number base and block size are
parameters; 16 and 128 in the code), the rule of `video.go`, and the RPCs with their steps
apply, save, undo and roll back, each of which may fail. `StatusLog` is
`videoc_log_status`: the driver logs, other messages come between, the newest part of the
log is searched. `Panel` is the state of `screen.c` (rotation, calibration, paddings), the
RPC that rotates, and the update of the HDMI label. `CloudIcon` is the end of
`updateDisplay` and the goroutines of `doCloudBlink`. Two of its calls miss, in the model as in
the code: the name of a picture becomes the path of a file (`File`), and a fade finds no object,
so that what follows the main process is whether the icon is hidden, and the ticker of its
blinking. `NativeRestart` composes the four: a crash at any step, restarts that fail, that succeed or
that hang (the handshake times out, or there is no client, and nobody kills the child, which
`monitorProcess` then waits for), the restart limit, and `OnNativeRestart`. Chip and kernel log survive the crash, panel, label
and icon start anew, and a call without a native process fails.

### Screens: `UiScreens`, `Ui`, `MCUi`

`UiScreens` is `create_screens` by what matters for behaviour: each widget with its parent,
class, style, callbacks and initial visibility, and each style with its base and the groups
of properties it sets. Geometry, colours and wording are left out. `Ui` puts a finger on
it (press, hold, long press, gesture, lift; the events go to the deepest clickable widget,
as LVGL does it), together with the callbacks of `actions.c`, the display updates of
`display.go` in the steps of their calls, `hwReboot`, `ui_tick`, and a native process that
dies. LVGL itself is external. Seconds of a hold come in steps of `TickSeconds`.

### Bridge: `EventQueue`, `NativeBridge`, `MCNativeBridge`

Actors are the UI tick, the client's event handler, another goroutine that makes calls, and
the streaming thread. A callback returns when the goroutine of its kind has taken the event
(`chan.go`); that goroutine waits for room in `eventStreamChan`; `StreamEvents` handlers take
from it, check whether they are the active one, and send; the client drops what its queue
has no room for; handling an RPC event needs `cgoLock`. Streams break and are opened again.

`EventQueue` is the abstract promise: per kind, events are posted, the oldest one that waits is
handled, and some that wait may be lost, which `lossy` records. `Waiting` maps the bridge to
it: what is in `eventCh`, on the stream the client reads, taken for that stream, in
`eventStreamChan`, or just handed over. What a goroutine waits for has a name of its own
(`CanEnter`, `CanReport`, `CanReceive`, ...), used as the guard of its action and in
`CanProceed`, so that what `NeverStuck` says of waiting is what the actions do.

### Daemon: `VideoServer`

`main` of `main.c` step by step, with its clients, one table of descriptors in which the
lowest free number is taken, the device the streaming thread opens and closes, failing
system calls, kills and a second start. The detector may end at any time: it closes the
sub-device and leaves `sub_dev_fd`, so that the number goes to the next socket, client or device,
and `video_shutdown` shuts down whatever has it then (`DetectorEnds`, `VideoStop`).

## 3. Runs

| Run | Instance | Checks |
|---|---|---|
| `KeyboardSafety` | 3 keys for 2 slots, 1 modifier, 1 handler, 1 releaser; keys symmetric | `NoAbandonedKey`, `ClearIsFinal`, `FiredEntryHasGoroutine`, action property `AutoReleaseExact`, refinement `ImplementsHeldKeys` |
| `KeyboardLiveness` | 1 key, 1 media key, 2 releasers, fairness | `SilenceReleasesKeys` |
| `MacroRuns` | 2 goroutines, macros of up to 3 pairs, fairness | `EndedMacroHoldsNothing`, `CancelledMacroEnds` |
| `KeepAliveTiming` | the code's tunables at scale 1:16.7 ms, delays far above the tolerance, loss | `HeldThroughJitter` (while `calm`), `SilenceBounded` (always) |
| `SessionsEdges` | 2 sessions used again and again, native restarts, fairness | `CountExact`, `AudioTrackAlive`, `VideoOffWhenIdle`, `DisplayShown`, `IdleSleeps` |
| `Video` | six scopes: all calls with all failures; the codec; a source that changes size and signal, with failures; one that changes rate and grows beyond the pool, with a device, a query and an event that fail; all calls at any moment of a change of the source; a set-quality call at any moment of such a change, followed further when both have used the handle | `HandlesApart`, `CallsHonoured`, `ReaderWithinChannel`, `BlocksReturned`, `AwakeWhileStreaming`, `EncoderRight`, `NoWaitForEver`, `ControlReturns` |
| `Ui` | four scopes, a crash in each: two updates at a time; with one at a time the finger on the way to the about screen, to the reset button, to the DHCP button | `Navigable`, `HoldOnce`, `ScreenFollowsNetwork`, `DisplayComesUp` |
| `NativeRestart` | five scopes: each part alone with 3 events (status: 5), host and panel together with 1; 3 restarts, each of which may fail or hang | `DeviceMatchesConfig`, `EdidSound`, `PanelOriented`, `DisplayRestored`, `StatusWhole`, `ComesToRest` |
| `VideoServer` | 2 clients, 6 descriptors, 2 starts | `ReadNeverBlocks`, `ResourcesSound`, `ClientsServed` |
| `NativeBridge` | all queues of length 1, 2 streams; four scopes of ticks, touches, calls and breaks; fairness | `NeverStuck`, refinement `ImplementsEventQueue`, `CallsReturn`, `StreamReplaced` |
| `KeyboardClear` | as `KeyboardSafety` | violates `ClearAlwaysFinal` |
| `VideoRace` | a set-quality call while the source changes | violates `HandlesSound` |

Bounds. Two slots and three keys reach overrun, shift and re-press. One releaser in the
safety run has every interleaving of an auto-release with the other processes; two, in the
liveness run, let a stale auto-release overlap a fresh one; the proofs cover any number. Two
sessions reach a handoff, a last-out callback overlapping a first-in one, and a session that
closes without having connected; the proofs cover any number. A second
streaming thread exists only where two calls have used the handle at once; two reach that, and
the proofs cover any number. What follows after `overlap` has become `"sections"` is explored
where the scope says so (`race`), a bound of its own. A
scope is a set of actors that move in one behaviour; together they have every actor, and
every pair of which the code makes one depend on the other. Bytes of two binary digits and
blocks of two bytes reach every carry and a zero sum. Queues of length 1 are full as soon
as somebody is slow, which is the case that matters; the scope with six ticks fills all of
them in a row and leaves one tick waiting with the lock. Six records of kernel log hold two
statuses, and fewer than a status with four messages in it. Steps of 5 seconds tell the two
hold times (5 and 10) apart. Six
descriptors are the standing ones, two clients, the device and one spare. `MaxPairs`,
`MaxNet`, `MaxRpcs`, `MaxRestarts`, `Runs` bound what is counted. Times of `KeepAlive` keep
the order and the sums of the tunables (50, 50, 225, 100 ms as 3, 3, 13, 6).

Fairness. `Keyboard`: started goroutines run and timers fire (strongly, because the bound on
releasers may block them for a while, which the Go runtime does not). `KeyboardMacro`: a
started macro goes on. `Sessions`: callbacks under way and the ticker. `VideoStream`:
threads run. `Ui`: one of the updates under way goes on, the reboot sequence and `uiTick`
run, and the supervisor restarts the native process (strongly, because the bound on updates
may hold it up). `NativeRestart`: goroutines run, and an attempt to restart
ends in one of its three ways; the limit, not luck, ends the attempts, and a child that hangs
need not ever exit. (`Ui` has none that hangs: what it says of the display is said of restarts
that come to an end.) `NativeBridge`: some goroutine that can move does. `VideoServer`: `main` runs,
and `accept` does not fail for ever (strongly). Nothing is assumed of clients, browsers,
fingers, USB, the HDMI source, the network or of other failures ending.

Deadlock checking is off where the bounds on events, scopes or starts let a behaviour end.

### Findings

Two runs are expected to end in a violation; each states what a comment of the repository
says and shows a behaviour of the code that contradicts it.

* `KeyboardClear`: a handler takes a keypress from its queue; the session's close cancels the
  timers, clears the keys and ends; then the handler puts the key down, with no session left.
* `VideoRace`: the detector's restart and a set-quality call misuse the thread handle.

Limits of the code that the properties exclude by name, or that follow from reading it, and
that no run is spent on:

* keyboard: with two input handlers (`Handlers = {h1, h2}` in `KeyboardSafety.cfg`) a stale
  cancel removes a fresh timer and `NoAbandonedKey` fails; a report that repeats a key
  leaves one of its slots behind a release; with USB down while the session closes, the
  clear of the close and the safety net of the last disconnect (`webrtc.go:698`) are both
  dropped by `rpcHidReport`, and a key or modifier stays down (`skipped`); a media key is not
  auto-released (`hid_keyboard.go:263` looks for it in the key buffer), although
  `mqtt_media.go:66` counts on it;
* macros: a running macro may be registered nowhere and then cannot be cancelled
  (`jsonrpc.go:1237`, `1273`); a write that fails ends a macro without its release;
* sessions: a write of the EDID that fails leaves the display hidden from a connected session
  (`video.go:83`, `webrtc.go:682`); the last session's `VideoStop` may come after the next session's `VideoStart`
  (`webrtc.go:701`); `currentSession` is written without a lock (`webrtc.go:629`); a handoff to
  a browser with another codec keeps the old one; the stream is not started again after a
  native restart;
* video: a stop that falls into the detector's restart is undone (`overlap`); a write that was to
  wake the chip may fail, and the stream is started with a chip that sleeps (`video.go:231`); after an early return of
  `video_start_streaming` the status stays where it was; a tolerated change of rate is
  stored, so the rate may creep; a codec set while streaming takes effect at the next start;
  a reader that ends on an error is not replaced; a frame larger than a block ends the
  thread; the status report is computed and sent by two threads without a lock
  (`ctrl.c:60-78`);
* host display: RPCs run concurrently (`go onRPCMessage`), the model has one at a time; a
  rollback that fails leaves chip and configuration apart until the next forced write
  (`stale`); the last session leaving during `rpcSetEDID` lets an EDID be saved that was never
  written; `strtol` takes a sign or a blank for part of a byte (modelled);
* panel: a rotation set at run time is lost when the native process is restarted, since the
  option is read at the start (`native.go:32`); one that failed cannot be retried with the
  same value; one that is no rotation changes the calibration and not the display;
  `proxy.restarts` is never reset; after a handshake that timed out the child is not killed, and
  the proxy may wait for it for ever (`proxy.go:309`, `423`);
* cloud icon: the blinking addresses a name that does not exist; blink goroutines wait on a
  stopped ticker; `setCloudConnectionState` looks at the state it leaves (`cloud.go:168`);
  `jetkvm_ui_set_image` passes a name where LVGL takes it for a path;
* screens: overlapping updates mix their results (`mixed`, TODO at `display.go:198`);
  `SwitchToScreenIf` may pull the user out of a menu, or off the rebooting screen; a lock stays
  set after a press that was lost; the spinner stays when a reset fails; the getter of
  `lvgl_version` ends another variable's string (`vars.c:19-29`);
* bridge: an event lost with a broken stream or a full queue is not sent again (`lossy`);
  callbacks are wrapped after `Start`, so the first video state may be lost (`server.go`); the
  `Streaming` field is not carried in the event (`grpc_server.go:40-57`);
* daemon: `jetkvm_video_handler` sends nothing, its body is a comment; error exits leave the
  socket's path behind, which the next start removes; `sub_dev_fd` outlives the descriptor, so
  that `video_shutdown` may shut down a client's connection (`video.c:1016`, `807`).

## 4. Proofs

Every invariant of section 3, the action property `AutoReleaseExact` and the refinements
`ImplementsHeldKeys` and `ImplementsEventQueue` are theorems, proved for all values of the
constants. Three invariants have a theorem and no run: `BufferCompact`, which
`ImplementsHeldKeys` rests on, `Delivered`, the order and completeness of events that
`ImplementsEventQueue` says step by step, and `TextLegible`, a fact about the tables of the
screens. Each proof has the same shape: an inductive invariant, checked with TLC on the
run's instance first, one lemma that it holds at the start, one that each action keeps it,
and the theorem. The property itself is hardly ever inductive: most say
something only of states where everybody has come to rest, and the invariant has to say what
holds on the way there.

| Theorem | Property | Inductive invariant, and what it adds |
|---|---|---|
| `KeyboardProofs`: `TypeCorrect` | types | `GoroutineKeys`: a goroutine works on a key it may work on |
| `BufferStaysCompact`, `ClearIsFinalHolds` | `BufferCompact`, `ClearIsFinal` | `ClearInv`: compactness, which makes an auto-release in flight harmless on a cleared buffer, and that the cleaner is busy only while the session lives |
| `ModifiersSurviveAutoRelease` | `ModifierNeverAutoReleased` | the types: an auto-release works on a buffer key |
| `AutoReleasesRelease`, and with the row above `AutoReleaseIsExact` | `AutoReleaseReleases`, `AutoReleaseExact` | `SetInv`: without a repeated key, the one slot that a release clears is the only one the key has |
| `TimerEntriesNeverLeak` | `FiredEntryHasGoroutine` | inductive with the types |
| `NoKeyAbandoned` | `NoAbandonedKey` | `AttendInv`: no repeated key, tapped keys are held, and `CancelFollowsRelease` (who is about to cancel a timer has released the key, and nobody has pressed it since) |
| `BufferImplementsSet` | `ImplementsHeldKeys` | `SetInv`: compact and without repetition; then press, overrun, release and report are the steps of `HeldKeys` on the set of held keys |
| `MacroLeavesNothingDown` | `EndedMacroHoldsNothing` | `MacroInv`: whose press is down is between a press and its release, or about to send a report |
| `KeepAliveProofs`: `KeyStaysDown` | `HeldThroughJitter` | `KeepAliveInv`: messages are ordered by age; after each keepalive the next one follows within an interval (`GapInv`), and it comes before the timer ends and before it is stale (`InTime`) |
| `SilenceReleases` | `SilenceBounded` | the same: what is under way is as old as the silence, so the last extension is bounded |
| `SessionsProofs`: `CountStaysExact`, `AudioTrackStaysAlive`, `IdleVideoIsOff`, `DisplayStaysShown` | `CountExact`, `AudioTrackAlive`, `VideoOffWhenIdle`, `DisplayShown` | `SessionsInv`: a callback on its way up belongs to a counted session, one on its way out to one no longer counted; a hidden display, an unwatched stream, a left audio capture has a callback about to see to it, or, for the display, the last attempt failed |
| `VideoStreamProofs`: `HandlesStayApart`, `StreamFollowsCalls`, `ReaderStaysWithin`, `BlocksComeBack`, `ChipStaysAwake`, `EncoderStaysRight` | `HandlesApart`, `CallsHonoured`, `ReaderWithinChannel`, `BlocksReturned`, `AwakeWhileStreaming`, `EncoderRight` | `VideoInv`, in three parts that hold each as long as it can: always, who has the blocks and what the channel was given (`PoolInv`, `VencInv`); until `"sections"`, one streaming thread, to which `streaming_thread` points but in two windows, and the flag (`PtrInv`), and that a stream that was started is up or has a call about to start it (`UpInv`); until `"calls"`, that a stream that was to stop, or has an old size or quality, has a call about to see to it (`CallInv`) |
| `CallsNeverWaitForEver` | `NoWaitForEver` | the same: the flag is down from the stop's assignment on, and the reader a thread joins was told to end |
| `UiProofs`: `PressActsOnce` | `HoldOnce` | `HoldInv`: no more time is counted than the press has lasted, and once it has acted its lock is set |
| `DisplayFollows` | `ScreenFollowsNetwork` | `UpdateInv`: unless mixed, updates decide one at a time, and one will still look at the network, or will act on the state of now, or the display follows it |
| `PagesLeadSomewhere` | `Navigable` | `PagesInv`: nobody hides a widget but those of `MayBeHidden`, and no page has its way out through them alone; the page nothing leads to is never shown; and the buttons without a callback are hidden, or an update is still to hide them |
| `TextStaysLegible` | `TextLegible` | none needed: a label's colour comes from its style, the style that one is built on, or the button it stands on, for every row of the table |
| `NativeRestartProofs`: `PanelStaysOriented` | `PanelOriented` | the state of the panel after each of the functions of `screen.c` |
| `DisplayIsRestored` | `DisplayRestored` | `LabelInv`, `CloudInv`: where the last update to read a state is, and what it has done so far to the flag and the ticker |
| `ChipMatchesConfig` | `DeviceMatchesConfig` | `HostInv`: unless a write failed, chip and configuration agree, or a call is between its change of the configuration and its write |
| `EdidStaysSound` | `EdidSound` | what is in the chip is whole blocks that fixing the checksums does not change; hex and bytes are each other's inverse |
| `StatusStaysWhole` | `StatusWhole` | `StatusInv`: while a call is under way, its texts that are logged stand in the log in order, with no other text of the driver between or after them |
| `VideoServerProofs`: `ReadReturns`, `ServerResources` | `ReadNeverBlocks`, `ResourcesSound` | `ServerInv`: what is open, by where `main` is; no open descriptor has two owners, although `sub_dev_fd` may name one that was closed; what `read_fds` says of the client is true of the descriptor it is looked up with |
| `NativeBridgeProofs`: `EventsDelivered` | `Delivered` | `BridgeInv`: the numbers in the stages an event goes through are ordered from stage to stage and within each queue, streams nobody reads are empty, and without a loss the stages together hold all numbers |
| `NobodyIsStuck` | `NeverStuck` | `StuckInv`: `BridgeInv`, and who is inside the C code is who holds `cgoLock`, who stops the stream has told it so, and the stream the client reads was begun. Then every wait leads to `eventStreamChan`, and that channel drains whatever the handlers do |
| `BridgeIsQueue` | `ImplementsEventQueue` | `BridgeInv`: what waits is what is in the stages and was not handled; no step but a report adds to it (`Fewer`), and without `lossy` none but `Handle` takes from it |

The pure functions have lemmas of their own: press, release and `stripMediaKeys` on buffers
of any size; `populate_venc_attr` and the rounding of rates (`AttrSound`); checksums, hex and
bytes for any radix and block size; the search for the last status. What the sum over a block
is needs induction, which the provers do not have: the lemmas about it take the least index
at which the claim would fail instead (`LeastOf`).

Assumptions on the constants, all evaluated by TLC on the runs' values: the sets of keys are
disjoint and reports are reports (`BufferAssumption`, `KeyboardAssumption`); `None` and the
like are not members (`SessionsAssumption`, `BridgeAssumption`, `VideoAssumption`,
`MacroAssumption`); bounds are numbers, and there is a stream to open. The others say
more. `TunablesAssumption`: the auto-release time is the interval plus the tolerance, which
is positive, and the staleness limit is not below it, as the tunables of `hidrpc.go` and
`hid_keyboard.go` are (50, 50, 100, 225 ms). `HoldWiring`: an object has at most one hold
action, with its start on `PRESSED`, a fact about the table of `screens.c`. `PagesAssumption`,
`TreeAssumption` and `StylesAssumption`: more such facts, of that table and of `styles.c`, each
about single rows: which pages an exit leads to, what a label stands on, which styles a
style is built on. `EdidAssumption`:
the default EDID is one or two whole blocks of digits; inputs may be anything.
`ServerAssumption`: descriptors do not run out, and `RestartAssumption`: the program has an
updating goroutine.

Hypotheses of single theorems, where the code does not promise the property without them:

* `OneHandler` (of `NoKeyAbandoned`): one input handler at a time. With two, TLC finds a
  counterexample (section 3);
* `ReportsDistinct` (of `NoKeyAbandoned`, `AutoReleasesRelease`, `AutoReleaseIsExact` and
  `BufferImplementsSet`): a report lists no key twice. The code stores what it gets, and a
  repeated key is not a set.

The theorems of `VideoStreamProofs` have no hypothesis: where the code does not promise a property
the property itself says so, by what has come together (`overlap`), and in `HandlesApart` by a
reader thread that could not be created, whose handle `venc_stop` joins although it was never set.
`VideoRace` shows that the first exception is necessary.

Only model-checked: the liveness properties `SilenceReleasesKeys`, `CancelledMacroEnds`,
`IdleSleeps`, `ControlReturns`, `DisplayComesUp`, `ComesToRest`, `ClientsServed`, `CallsReturn`
and `StreamReplaced`: fairness and `ENABLED` are out of the prover's reach. Of `CallsReturn`
and `ControlReturns` the part without fairness is proved, as `NeverStuck` and `NoWaitForEver`:
as long as a call has not returned there is a step to take that the call waits for.

## 5. Not modelled, and the plan

Not modelled: fonts and images (`eez/src/ui/fonts`, `images`: generated tables, more than half
of the lines of C), logging, SDP and signalling contents, mouse and wheel reports (no state),
USB descriptors, geometry and wording of the screens, `video_shutdown` beyond the daemon's use
of it, functions nothing calls (`custom_tick_get`, `write_buffer_to_file`, `ui_set_text`), and
the Go components `PROJECT.json` lists as such: OTA, USB recovery, the cloud connection
itself, virtual media, MQTT, serial, network, time, TLS.

The modules are written for proofs: parameters with named assumptions, one action per
operation, no recursive operators, a `TypeOK` each. Left to prove, in this order:

1. the types of the modules whose invariants above carry only the part of them that the
   proofs need (`Sessions.TypeOK`, `NativeRestart.TypeOK`);
2. the parts of `NoKeyAbandoned` that hold with several handlers: that a tapped key has a
   timer, a goroutine or a handler unless two handlers overlapped on it.
