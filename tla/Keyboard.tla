------------------------------ MODULE Keyboard ------------------------------
(***************************************************************************)
(* The keyboard gadget under concurrency: input handlers (the HID queue    *)
(* goroutine of a session, the JSON-RPC goroutine, MQTT goroutines), the   *)
(* auto-release timers and their goroutines, and the session cleaner that  *)
(* cancels the timers and clears the keys on close and on handoff.         *)
(*                                                                         *)
(* keyboardMutex makes one keypressReport or KeyboardReport one step;      *)
(* everything a caller does before or after it is a step of its own.       *)
(* Writes to /dev/hidg0 may fail; keysDownState is updated regardless, so  *)
(* the only state a failed write changes is consumerState, which is not    *)
(* updated.                                                                *)
(***************************************************************************)
EXTENDS KeyBuffer

CONSTANTS Modifiers,   \* key codes of KeyCodeToMaskMap
          Reports,     \* KeyboardReport bodies clients and macros send
          Handlers,    \* goroutines that call KeypressReport
          Releasers    \* bound: auto-release goroutines alive at once

ASSUME KeyboardAssumption ==
  /\ Modifiers \cap (NormalKeys \cup MediaKeys) = {}
  /\ NoKey \notin Modifiers
  /\ Reports \subseteq [mods : SUBSET Modifiers, keys : RawReport]

Keys == NormalKeys \cup MediaKeys \cup Modifiers
TimedKeys == NormalKeys \cup MediaKeys   \* "if !isModifier" in KeypressReport

VARIABLES
  usbReady,   \* usbReadyForHidReports()
  mods,       \* keysDownState.Modifier
  keys,       \* keysDownState.Keys
  consumer,   \* consumerState
  entries,    \* keys with an entry in kbdAutoReleaseTimers
  armed,      \* keys whose entry's timer has not fired since it was (re)set
  hnd,        \* per handler: message in hand and where in KeypressReport it is
  rel,        \* per auto-release goroutine: its key and where it is
  cleaner,    \* the session cleaner, between its two calls
  sess,       \* the session's end of life
  client,     \* the client still sends input and keepalives
  tapped,     \* history: held keys whose last press was a keypress message
  late,       \* history: input was applied after the closing clear
  skipped     \* history: the last clear was skipped, USB not being ready

timers == <<entries, armed>>
gadget == <<mods, keys, consumer>>
env    == <<usbReady, sess, client>>
vars   == <<usbReady, mods, keys, consumer, entries, armed, hnd, rel,
            cleaner, sess, client, tapped, late, skipped>>

HandlerState == [pc : {"idle", "got", "timer"},
                 key : Keys \cup {NoKey}, press : BOOLEAN]
ReleaserState == [pc : {"idle", "fired", "check", "release"},
                  key : TimedKeys \cup {NoKey}]
IdleHandler == [pc |-> "idle", key |-> NoKey, press |-> FALSE]
IdleReleaser == [pc |-> "idle", key |-> NoKey]

TypeOK ==
  /\ usbReady \in BOOLEAN
  /\ mods \subseteq Modifiers
  /\ keys \in Buffer
  /\ consumer \subseteq MediaKeys
  /\ entries \subseteq TimedKeys
  /\ armed \subseteq TimedKeys
  /\ hnd \in [Handlers -> HandlerState]
  /\ rel \in [Releasers -> ReleaserState]
  /\ cleaner \in {"idle", "close", "handoff"}
  /\ sess \in {"live", "cleared", "closed", "none"}
  /\ client \in BOOLEAN
  /\ tapped \subseteq NormalKeys
  /\ late \in BOOLEAN
  /\ skipped \in BOOLEAN

Init ==
  /\ usbReady \in BOOLEAN
  /\ mods = {} /\ keys = EmptyBuffer /\ consumer = {}
  /\ entries = {} /\ armed = {}
  /\ hnd = [h \in Handlers |-> IdleHandler]
  /\ rel = [r \in Releasers |-> IdleReleaser]
  /\ cleaner = "idle" /\ sess = "live" /\ client = TRUE
  /\ tapped = {} /\ late = FALSE /\ skipped = FALSE

----------------------------------------------------------------------------
(* keypressReport(key, press), the whole of it under keyboardMutex. *)

SetBit(S, k, press) == IF press THEN S \cup {k} ELSE S \ {k}

\* A media key goes to the Consumer Control report; consumerState keeps the
\* new bits only when the write succeeded.
KeypressMedia(k, press) ==
  /\ k \in MediaKeys
  /\ \/ consumer' = SetBit(consumer, k, press)
     \/ UNCHANGED consumer
  /\ UNCHANGED <<mods, keys, tapped>>

KeypressModifier(k, press) ==
  /\ k \in Modifiers
  /\ mods' = SetBit(mods, k, press)
  /\ UNCHANGED <<keys, consumer, tapped>>

KeypressNormal(k, press) ==
  /\ k \in NormalKeys
  /\ keys' = IF press THEN PressKey(keys, k) ELSE ReleaseKey(keys, k)
  /\ tapped' = (IF press THEN tapped \cup {k} ELSE tapped) \cap Held(keys')
  /\ UNCHANGED <<mods, consumer>>

keypressReport(k, press) ==
  \/ KeypressMedia(k, press)
  \/ KeypressModifier(k, press)
  \/ KeypressNormal(k, press)

\* KeyboardReport(modifier, keys): the Consumer Control report is written
\* when bits are set or were set, then the keyboard report; the latter
\* replaces keysDownState whatever the writes returned.
KeyboardReport(m, r) ==
  /\ mods' = m
  /\ keys' = StripMediaKeys(r)
  /\ \/ consumer' = ConsumerBits(r)
     \/ UNCHANGED consumer
  /\ tapped' = {}

----------------------------------------------------------------------------
(* Input handlers: rpcKeypressReport and rpcKeyboardReport. *)

\* A goroutine gets a keypress to handle: from the session's queue
\* (handleHidQueue, which stops once done is closed), or from an MQTT media
\* command, which needs no session and only ever sends the press.
Dequeue(h, k, press) ==
  /\ hnd[h].pc = "idle"
  /\ \/ client /\ sess \in {"live", "cleared"}
     \/ k \in MediaKeys /\ press
  /\ hnd' = [hnd EXCEPT ![h] = [pc |-> "got", key |-> k, press |-> press]]
  /\ UNCHANGED <<gadget, timers, rel, cleaner, env, tapped, late, skipped>>

\* rpcHidReport drops the message while USB is not ready; otherwise
\* KeypressReport runs keypressReport and has the key's timer to settle.
\* Modifiers never get a timer.
HandleKeypress(h) ==
  /\ hnd[h].pc = "got"
  /\ IF usbReady
       THEN /\ keypressReport(hnd[h].key, hnd[h].press)
            /\ hnd' = [hnd EXCEPT ![h] =
                         IF hnd[h].key \in Modifiers THEN IdleHandler
                         ELSE [hnd[h] EXCEPT !.pc = "timer"]]
            /\ late' = (late \/ sess # "live")
       ELSE /\ hnd' = [hnd EXCEPT ![h] = IdleHandler]
            /\ UNCHANGED <<gadget, tapped, late>>
  /\ UNCHANGED <<timers, rel, cleaner, env, skipped>>

\* Mutant: the press of a key that is already timed keeps the old timer.
SettleTimerKeepsOld(h) ==
  /\ hnd[h].pc = "timer"
  /\ LET k == hnd[h].key IN
       IF hnd[h].press
         THEN UNCHANGED timers
         ELSE entries' = entries \ {k} /\ armed' = armed \ {k}
  /\ hnd' = [hnd EXCEPT ![h] = IdleHandler]
  /\ UNCHANGED <<gadget, rel, cleaner, env, tapped, late, skipped>>

\* scheduleAutoRelease on a press, cancelAutoRelease on a release.  The test
\* for a rolled-over buffer never succeeds: UpdateKeysDown has zeroed the
\* keys it looks at, so a key that did not fit gets a timer like any other.
SettleTimer(h) ==
  /\ hnd[h].pc = "timer"
  /\ LET k == hnd[h].key IN
       IF hnd[h].press
         THEN entries' = entries \cup {k} /\ armed' = armed \cup {k}
         ELSE entries' = entries \ {k} /\ armed' = armed \ {k}
  /\ hnd' = [hnd EXCEPT ![h] = IdleHandler]
  /\ UNCHANGED <<gadget, rel, cleaner, env, tapped, late, skipped>>

\* A whole-state report: a client's keyboardReport or a macro step.
ReportAll(q) ==
  /\ client /\ sess \in {"live", "cleared"}
  /\ usbReady
  /\ KeyboardReport(q.mods, q.keys)
  /\ late' = (late \/ sess # "live")
  /\ skipped' = FALSE
  /\ UNCHANGED <<timers, hnd, rel, cleaner, env>>

----------------------------------------------------------------------------
(* Auto-release. *)

TimerFires(k, r) ==
  /\ k \in armed
  /\ rel[r].pc = "idle"
  /\ armed' = armed \ {k}
  /\ rel' = [rel EXCEPT ![r] = [pc |-> "fired", key |-> k]]
  /\ UNCHANGED <<gadget, entries, hnd, cleaner, env, tapped, late, skipped>>

\* Mutant: the goroutine leaves its entry in the map.
TakeEntryKeeps(r) ==
  /\ rel[r].pc = "fired"
  /\ rel' = [rel EXCEPT ![r] = IF rel[r].key \in entries
                                 THEN [rel[r] EXCEPT !.pc = "check"] ELSE IdleReleaser]
  /\ UNCHANGED <<timers, gadget, hnd, cleaner, env, tapped, late, skipped>>

\* performAutoRelease under kbdAutoReleaseLock: without an entry the timer
\* was cancelled meanwhile; otherwise the entry (maybe of a later press) is
\* stopped and removed.
TakeEntry(r) ==
  /\ rel[r].pc = "fired"
  /\ LET k == rel[r].key IN
       IF k \in entries
         THEN /\ entries' = entries \ {k} /\ armed' = armed \ {k}
              /\ rel' = [rel EXCEPT ![r].pc = "check"]
         ELSE /\ rel' = [rel EXCEPT ![r] = IdleReleaser]
              /\ UNCHANGED timers
  /\ UNCHANGED <<gadget, hnd, cleaner, env, tapped, late, skipped>>

\* Mutant: the test is the wrong way round.
CheckUp(r) ==
  /\ rel[r].pc = "check"
  /\ rel' = [rel EXCEPT ![r] =
               IF rel[r].key \in Held(keys)
                 THEN IdleReleaser ELSE [rel[r] EXCEPT !.pc = "release"]]
  /\ UNCHANGED <<gadget, timers, hnd, cleaner, env, tapped, late, skipped>>

\* The look at keysDownState.Keys: a key that is not in the buffer counts as
\* released already (a media key never is in the buffer).
CheckDown(r) ==
  /\ rel[r].pc = "check"
  /\ rel' = [rel EXCEPT ![r] =
               IF rel[r].key \in Held(keys)
                 THEN [rel[r] EXCEPT !.pc = "release"] ELSE IdleReleaser]
  /\ UNCHANGED <<gadget, timers, hnd, cleaner, env, tapped, late, skipped>>

\* Mutant: the auto-release sends a whole-state report without modifiers.
AutoReleaseAll(r) ==
  /\ rel[r].pc = "release"
  /\ KeyboardReport({}, ReleaseKey(keys, rel[r].key))
  /\ rel' = [rel EXCEPT ![r] = IdleReleaser]
  /\ UNCHANGED <<timers, hnd, cleaner, env, late, skipped>>

AutoRelease(r) ==
  /\ rel[r].pc = "release"
  /\ keypressReport(rel[r].key, FALSE)
  /\ rel' = [rel EXCEPT ![r] = IdleReleaser]
  /\ UNCHANGED <<timers, hnd, cleaner, env, late, skipped>>

\* An accepted keepalive (DelayAutoReleaseWithDuration) resets every timer,
\* the ones that have fired but whose goroutine has not run yet included.
\* Which keepalives are accepted is the subject of module KeepAlive.
DelayAutoRelease ==
  /\ client /\ sess \in {"live", "cleared"}
  /\ entries # {}
  /\ armed' = entries
  /\ UNCHANGED <<gadget, entries, hnd, rel, cleaner, env, tapped, late, skipped>>

----------------------------------------------------------------------------
(* Session close and handoff, and the world around. *)

\* CancelAllAutoReleaseTimers, the first call of both clean-ups.
CancelAllAutoReleaseTimers(why) ==
  /\ sess = "live" /\ cleaner = "idle"
  /\ cleaner' = why
  /\ entries' = {} /\ armed' = {}
  /\ UNCHANGED <<gadget, hnd, rel, env, tapped, late, skipped>>

\* Mutant: the clear forgets the modifiers.
ClearKeysOnly ==
  /\ cleaner # "idle"
  /\ IF usbReady
       THEN KeyboardReport(mods, EmptyBuffer) /\ skipped' = FALSE
       ELSE UNCHANGED <<gadget, tapped>> /\ skipped' = TRUE
  /\ late' = FALSE
  /\ sess' = IF cleaner = "close" THEN "cleared" ELSE sess
  /\ cleaner' = "idle"
  /\ UNCHANGED <<timers, hnd, rel, usbReady, client>>

\* rpcKeyboardReport(0, keyboardClearStateKeys), the second call: nothing at
\* all happens when USB is not ready.  A closing session stops being the
\* current one here.
ClearKeys ==
  /\ cleaner # "idle"
  /\ IF usbReady
       THEN KeyboardReport({}, EmptyBuffer) /\ skipped' = FALSE
       ELSE UNCHANGED <<gadget, tapped>> /\ skipped' = TRUE
  /\ late' = FALSE
  /\ sess' = IF cleaner = "close" THEN "cleared" ELSE sess
  /\ cleaner' = "idle"
  /\ UNCHANGED <<timers, hnd, rel, usbReady, client>>

\* session.close(): the done channel stops the queue handlers.
CloseDone ==
  /\ sess = "cleared"
  /\ sess' = "closed"
  /\ UNCHANGED <<gadget, timers, hnd, rel, cleaner, usbReady, client,
                 tapped, late, skipped>>

\* onLastSessionDisconnected: the safety-net clear.
LastSessionDisconnected ==
  /\ sess = "closed"
  /\ sess' = "none"
  /\ IF usbReady
       THEN KeyboardReport({}, EmptyBuffer) /\ skipped' = FALSE
       ELSE UNCHANGED <<gadget, tapped>> /\ skipped' = TRUE
  /\ late' = FALSE
  /\ UNCHANGED <<timers, hnd, rel, cleaner, usbReady, client>>

\* A new session becomes the current one; nothing is cleared, since there is
\* no current session to take over from.
NewSession ==
  /\ sess \in {"closed", "none"}
  /\ sess' = "live" /\ client' = TRUE /\ late' = FALSE
  /\ UNCHANGED <<gadget, timers, hnd, rel, cleaner, usbReady, tapped, skipped>>

ClientStops ==
  /\ client
  /\ client' = FALSE
  /\ UNCHANGED <<gadget, timers, hnd, rel, cleaner, usbReady, sess,
                 tapped, late, skipped>>

\* checkUSBState sees the gadget attach or detach; a rebind (ResetHIDFiles)
\* forgets the consumer bits and nothing else.
UsbChange ==
  /\ usbReady' = ~usbReady
  /\ consumer' \in {consumer, {}}
  /\ UNCHANGED <<mods, keys, timers, hnd, rel, cleaner, sess, client,
                 tapped, late, skipped>>

HandlerStep(h) == HandleKeypress(h) \/ SettleTimer(h)
ReleaserStep(r) == TakeEntry(r) \/ CheckDown(r) \/ AutoRelease(r)

Next ==
  \/ \E h \in Handlers :
       \/ HandlerStep(h)
       \/ \E k \in Keys, press \in BOOLEAN : Dequeue(h, k, press)
  \/ \E r \in Releasers :
       \/ ReleaserStep(r)
       \/ \E k \in TimedKeys : TimerFires(k, r)
  \/ \E q \in Reports : ReportAll(q)
  \/ DelayAutoRelease
  \/ \E why \in {"close", "handoff"} : CancelAllAutoReleaseTimers(why)
  \/ ClearKeys \/ CloseDone \/ LastSessionDisconnected \/ NewSession \/ ClientStops \/ UsbChange

Spec == Init /\ [][Next]_vars

\* Timers fire, and goroutines that are under way run to their end.  Firing
\* is strongly fair because the bound Releasers may be used up for a while,
\* which a program that starts a goroutine per timer does not know.  Nothing
\* is assumed of clients, sessions or USB.
Fairness ==
  /\ \A h \in Handlers : WF_vars(HandlerStep(h))
  /\ \A r \in Releasers : WF_vars(ReleaserStep(r))
  /\ \A k \in TimedKeys : SF_vars(\E r \in Releasers : TimerFires(k, r))
  /\ WF_vars(ClearKeys)

FairSpec == Spec /\ Fairness

----------------------------------------------------------------------------
(* Properties. *)

\* Someone is going to take key k up: it has a timer, or its handler is about
\* to start one, or an auto-release goroutine that removed its timer has not
\* released it yet, or the cleaner that cancelled the timers has not cleared.
Attended(k) ==
  \/ k \in entries
  \/ \E h \in Handlers :
       hnd[h].pc = "timer" /\ hnd[h].key = k /\ hnd[h].press
  \/ \E r \in Releasers :
       rel[r].pc \in {"check", "release"} /\ rel[r].key = k
  \/ cleaner # "idle"

\* No key pressed by a keypress message is ever left down with nobody to
\* release it (the timer map, the handlers and the auto-release goroutines
\* of hid_keyboard.go between them never drop a key), except a key whose
\* clear rpcHidReport skipped because USB was not ready.
NoAbandonedKey == skipped \/ \A k \in tapped : Attended(k)

\* A timer that has fired but still has its entry has a goroutine that will
\* come for it: entries never leak.
FiredEntryHasGoroutine ==
  \A k \in entries \ armed :
    \E r \in Releasers : rel[r].pc = "fired" /\ rel[r].key = k

\* The buffer never has a hole in front of a key, whatever clients report:
\* keypressReport stops at the first zero byte, so a key behind one could
\* not be released.
BufferCompact == Compact(keys)

\* The clear on session close is the last word on the keyboard state: no
\* auto-release goroutine already in flight brings a key back.
ClearIsFinal ==
  sess # "live" /\ ~late /\ ~skipped => mods = {} /\ keys = EmptyBuffer

\* A modifier is only released by its own key-up or by a report that
\* replaces the whole state, never by the auto-release machinery.
ModifierNeverAutoReleased ==
  [][\A r \in Releasers : ReleaserStep(r) => mods' = mods]_vars

\* An auto-release goroutine that has taken the timer of its key ends.
AutoReleaseEnds(r) == rel[r].pc \in {"check", "release"} /\ rel'[r].pc = "idle"

\* Whoever takes the timer of a key sees to it that the key goes up: although
\* performAutoRelease looks at the buffer before it takes keyboardMutex, and the
\* buffer is shifted, replaced or pressed into meanwhile, its key is not in the
\* buffer when it ends.
AutoReleaseReleases ==
  [][\A r \in Releasers : AutoReleaseEnds(r) => rel[r].key \notin Held(keys')]_vars

\* What the auto-release machinery does to the state of the keyboard: it ends
\* with its key up, and no modifier goes up with it.
AutoReleaseExact == ModifierNeverAutoReleased /\ AutoReleaseReleases

\* Once the client falls silent every key it pressed is released, except
\* under a skipped clear.
SilenceReleasesKeys ==
  \A k \in NormalKeys :
    (~client /\ k \in tapped) ~> (k \notin tapped \/ client \/ skipped)

HK == INSTANCE HeldKeys WITH held <- Held(keys), Keys <- NormalKeys,
                             Capacity <- HidKeyBufferSize,
                             Bodies <- {Held(StripMediaKeys(q.keys)) : q \in Reports} \cup {{}}

\* Every keypress is the abstract press or release of that very key, and so
\* is every auto-release.
StepSimulates ==
  /\ \A h \in Handlers :
       HandleKeypress(h) /\ usbReady /\ hnd[h].key \in NormalKeys =>
         IF hnd[h].press THEN HK!HPress(hnd[h].key) ELSE HK!HRelease(hnd[h].key)
  /\ \A r \in Releasers :
       AutoRelease(r) /\ rel[r].key \in NormalKeys => HK!HRelease(rel[r].key)

\* The buffer is a set of at most HidKeyBufferSize keys: the scan, the shift
\* to the left and the overrun of keypressReport amount to the press and the
\* release of one key of a set, and nothing else changes the set but a report.
ImplementsHeldKeys == HK!HSpec /\ [][StepSimulates]_vars

\* As the comment in the ICE handler of newSession has it, the clear is the
\* final keyboard state.  Once session.close has stopped the queues no handler
\* takes another message, so nothing may put a key or a modifier down any more.
ClearAlwaysFinal ==
  [][sess = "closed" => mods' \subseteq mods /\ Held(keys') \subseteq Held(keys)]_vars
============================================================================
