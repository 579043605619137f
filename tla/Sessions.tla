------------------------------ MODULE Sessions ------------------------------
(***************************************************************************)
(* WebRTC sessions and what they switch on and off (webrtc.go, cloud.go,   *)
(* web.go, video.go, audio.go): the active-session count, currentSession,  *)
(* the video stream, the audio capture, the display the host sees, and     *)
(* HDMI sleep mode.                                                        *)
(*                                                                         *)
(* Every session has a request handler and a goroutine that runs its ICE   *)
(* callbacks one after the other.  The count is guarded by a mutex of its  *)
(* own, which is free again when the actions of a 0 -> 1 or 1 -> 0 edge    *)
(* run; each of those is a step, since other goroutines run in between.    *)
(***************************************************************************)
EXTENDS Integers, FiniteSets

CONSTANTS Sessions,
          None,
          HideWhenIdle,   \* config.HideDisplayWhenIdle
          NativeCrashes   \* whether the native process may be restarted

ASSUME SessionsAssumption ==
  /\ None \notin Sessions
  /\ HideWhenIdle \in BOOLEAN /\ NativeCrashes \in BOOLEAN

VARIABLES
  req,       \* per session: its request handler
  ice,       \* per session: its ICE callback
  conn,      \* sessions whose isConnected is set
  count,     \* actionSessions
  current,   \* currentSession
  video,     \* the native video stream runs
  advert,    \* hostDisplayAdvertised
  audio,     \* whose track the audio capture writes to
  ticker,    \* the sleep-mode ticker: off, armed, or spent
  sleeper,   \* a ticker goroutine has seen no session and goes to sleep mode
  sleep,     \* the capture chip sleeps
  failed     \* history: writes that failed and whose errors nobody looks at

handlers == <<req, current>>
media    == <<video, audio>>
idle     == <<advert, ticker, sleeper, sleep, failed>>
vars     == <<req, ice, conn, count, current, video, advert, audio,
              ticker, sleeper, sleep, failed>>

IcePCs == {"none", "new", "first", "start", "audio", "up", "close", "nil",
           "unplug", "last", "vstop", "hide", "doze", "closed"}

TypeOK ==
  /\ req \in [Sessions -> {"none", "offered", "done"}]
  /\ ice \in [Sessions -> IcePCs]
  /\ conn \subseteq Sessions
  /\ count \in 0..Cardinality(Sessions)
  /\ {current, audio} \subseteq Sessions \cup {None}
  /\ ticker \in {"off", "armed", "spent"}
  /\ {video, advert, sleeper, sleep} \subseteq BOOLEAN
  /\ failed \subseteq {"show", "sleep"}

Init ==
  /\ req = [s \in Sessions |-> "none"]
  /\ ice = [s \in Sessions |-> "none"]
  /\ conn = {} /\ count = 0 /\ current = None
  /\ video = FALSE /\ audio = None
  /\ advert = ~HideWhenIdle
  /\ ticker = "off" /\ sleeper = FALSE /\ sleep = FALSE
  /\ failed = {}

Goto(s, pc) == ice' = [ice EXCEPT ![s] = pc]

\* shouldAdvertiseHostDisplayLocked.
shouldAdvertise == ~HideWhenIdle \/ count > 0

\* setHostDisplayAdvertised: nothing is written when the flag agrees, unless
\* forced.  A write of the EDID that fails leaves the flag as it was; all three
\* callers drop the error.  "show" notes an attempt to show the display that
\* failed, until the next attempt of either kind.
SetAdvertised(enabled, force) ==
  LET written == failed \ {"show"} IN
  \/ ~force /\ enabled = advert /\ failed' = written /\ UNCHANGED advert
  \/ (force \/ enabled # advert) /\ advert' = enabled /\ failed' = written
  \/ /\ force \/ enabled # advert
     /\ failed' = IF enabled THEN failed \cup {"show"} ELSE written
     /\ UNCHANGED advert

----------------------------------------------------------------------------
(* The request handler: handleSessionRequest and handleWebRTCSession. *)

\* newSession and ExchangeOffer: from here on ICE may connect.
Offer(s) ==
  /\ req[s] = "none"
  /\ req' = [req EXCEPT ![s] = "offered"]
  /\ Goto(s, "new")
  /\ UNCHANGED <<conn, count, current, media, idle>>

\* The rest of the handler.  A session that is taken over from has its peer
\* connection closed a second later, which is one of the ways to LoseIce.
BecomeCurrent(s) ==
  /\ req[s] = "offered"
  /\ current' = s
  /\ req' = [req EXCEPT ![s] = "done"]
  /\ UNCHANGED <<ice, conn, count, media, idle>>

----------------------------------------------------------------------------
(* ICE connected. *)

IceConnected(s) ==
  /\ ice[s] = "new"
  /\ conn' = conn \cup {s}
  /\ count' = count + 1
  /\ Goto(s, IF count + 1 = 1 THEN "first" ELSE "audio")
  /\ UNCHANGED <<handlers, media, idle>>

\* onFirstSessionConnected: stop the ticker, advertise the display ...
FirstSession(s) ==
  /\ ice[s] = "first"
  /\ ticker' = "off" /\ SetAdvertised(TRUE, FALSE)
  /\ Goto(s, "start")
  /\ UNCHANGED <<handlers, conn, count, media, sleeper, sleep>>

\* ... and start the video.  It leaves sleep mode first, and starts as well when
\* that write fails.
StartVideo(s) ==
  /\ ice[s] = "start"
  /\ video' = TRUE /\ sleep' \in {FALSE, sleep}
  /\ Goto(s, "audio")
  /\ UNCHANGED <<handlers, conn, count, audio, advert, ticker, sleeper, failed>>

\* onSessionConnected: the audio capture moves to this session's track; not
\* every browser offers audio.
StartAudio(s) ==
  /\ ice[s] = "audio"
  /\ audio' \in {s, audio}
  /\ Goto(s, "up")
  /\ UNCHANGED <<handlers, conn, count, video, idle>>

----------------------------------------------------------------------------
(* ICE closed. *)

\* The connection is lost or closed; the callback looks at currentSession.
LoseIce(s) ==
  /\ ice[s] \in {"new", "up"}
  /\ Goto(s, IF current = s THEN "nil" ELSE "close")
  /\ UNCHANGED <<handlers, conn, count, media, idle>>

\* ... and sets it to nil once the keys are cleared.
DropCurrent(s) ==
  /\ ice[s] = "nil"
  /\ current' = None
  /\ Goto(s, "close")
  /\ UNCHANGED <<req, conn, count, media, idle>>

\* Mutant: the audio capture is only stopped with the last session.
CloseNoAudio(s) ==
  /\ ice[s] = "close"
  /\ Goto(s, "unplug")
  /\ UNCHANGED <<handlers, conn, count, media, idle>>

\* session.close and stopAudioIfOwner.
CloseSession(s) ==
  /\ ice[s] = "close"
  /\ audio' = IF audio = s THEN None ELSE audio
  /\ Goto(s, "unplug")
  /\ UNCHANGED <<handlers, conn, count, video, idle>>

\* Mutant: a session that never connected is counted out too.
UncountAlways(s) ==
  /\ ice[s] = "unplug"
  /\ conn' = conn \ {s}
  /\ count' = IF count = 0 THEN 0 ELSE count - 1
  /\ Goto(s, IF count <= 1 THEN "last" ELSE "closed")
  /\ failed' = IF count <= 1 THEN failed \ {"sleep"} ELSE failed
  /\ UNCHANGED <<handlers, media, advert, ticker, sleeper, sleep>>

\* decrActiveSessions, for a session that had connected.  "sleep" is about the
\* time since the last session left.
Uncount(s) ==
  /\ ice[s] = "unplug"
  /\ IF s \in conn
       THEN /\ conn' = conn \ {s}
            /\ count' = count - 1
            /\ Goto(s, IF count - 1 = 0 THEN "last" ELSE "closed")
            /\ failed' = IF count - 1 = 0 THEN failed \ {"sleep"} ELSE failed
       ELSE Goto(s, "closed") /\ UNCHANGED <<conn, count, failed>>
  /\ UNCHANGED <<handlers, media, advert, ticker, sleeper, sleep>>

\* onLastSessionDisconnected: stopAudio, ...
LastSession(s) ==
  /\ ice[s] = "last"
  /\ audio' = None
  /\ Goto(s, "vstop")
  /\ UNCHANGED <<handlers, conn, count, video, idle>>

\* Mutant: the video is left running.
StopVideoNot(s) ==
  /\ ice[s] = "vstop"
  /\ Goto(s, "hide")
  /\ UNCHANGED <<handlers, conn, count, media, idle>>

\* ... VideoStop, ...
StopVideo(s) ==
  /\ ice[s] = "vstop"
  /\ video' = FALSE
  /\ Goto(s, "hide")
  /\ UNCHANGED <<handlers, conn, count, audio, idle>>

\* Mutant: the display is hidden on the word of the old count.
HideDisplayNow(s) ==
  /\ ice[s] = "hide"
  /\ SetAdvertised(~HideWhenIdle, FALSE)
  /\ Goto(s, "doze")
  /\ UNCHANGED <<handlers, conn, count, media, ticker, sleeper, sleep>>

\* ... applyHostDisplayAdvertisement, which looks at the count again, ...
HideDisplay(s) ==
  /\ ice[s] = "hide"
  /\ SetAdvertised(shouldAdvertise, FALSE)
  /\ Goto(s, "doze")
  /\ UNCHANGED <<handlers, conn, count, media, ticker, sleeper, sleep>>

\* Mutant: the ticker is only started when there was none.
ArmTickerOnce(s) ==
  /\ ice[s] = "doze"
  /\ ticker' = IF ticker = "off" THEN "armed" ELSE ticker
  /\ Goto(s, "closed")
  /\ UNCHANGED <<handlers, conn, count, media, advert, sleeper, sleep, failed>>

\* ... and startVideoSleepModeTicker.
ArmTicker(s) ==
  /\ ice[s] = "doze"
  /\ ticker' = "armed"
  /\ Goto(s, "closed")
  /\ UNCHANGED <<handlers, conn, count, media, advert, sleeper, sleep, failed>>

\* A closed session is garbage once nothing refers to it.
Forget(s) ==
  /\ ice[s] = "closed" /\ req[s] = "done" /\ current # s
  /\ req' = [req EXCEPT ![s] = "none"]
  /\ Goto(s, "none")
  /\ UNCHANGED <<conn, count, current, media, idle>>

----------------------------------------------------------------------------
(* doVideoSleepModeTicker, and the native process. *)

\* The timer fires once; with a session active the goroutine goes back to a
\* timer that will not fire again.
TickerFires ==
  /\ ticker = "armed"
  /\ ticker' = "spent"
  /\ sleeper' = (sleeper \/ count = 0)
  /\ UNCHANGED <<handlers, ice, conn, count, media, advert, sleep, failed>>

\* VideoSetSleepMode(true), which stops a stream that runs.  The write to the
\* chip may fail; the ticker's goroutine does not look.
EnterSleep ==
  /\ sleeper
  /\ sleeper' = FALSE /\ video' = FALSE
  /\ \/ sleep' = TRUE /\ UNCHANGED failed
     \/ failed' = failed \cup {"sleep"} /\ UNCHANGED sleep
  /\ UNCHANGED <<handlers, ice, conn, count, audio, advert, ticker>>

\* The native process dies and is started again: OnNativeRestart writes the
\* EDID anew, which may fail, and does nothing about the stream.
NativeRestart ==
  /\ NativeCrashes
  /\ video' = FALSE /\ sleep' = FALSE
  /\ SetAdvertised(shouldAdvertise, TRUE)
  /\ UNCHANGED <<handlers, ice, conn, count, audio, ticker, sleeper>>

IceStep(s) ==
  \/ FirstSession(s) \/ StartVideo(s) \/ StartAudio(s)
  \/ DropCurrent(s) \/ CloseSession(s) \/ Uncount(s)
  \/ LastSession(s) \/ StopVideo(s) \/ HideDisplay(s) \/ ArmTicker(s)

Next ==
  \/ \E s \in Sessions :
       \/ Offer(s) \/ BecomeCurrent(s) \/ IceConnected(s) \/ LoseIce(s)
       \/ IceStep(s) \/ Forget(s)
  \/ TickerFires \/ EnterSleep \/ NativeRestart

Spec == Init /\ [][Next]_vars

\* Callbacks that run come to their end, and so does the ticker's wait.
\* Nothing is assumed of browsers or of the native process.
Fairness ==
  /\ \A s \in Sessions : WF_vars(IceStep(s))
  /\ WF_vars(TickerFires) /\ WF_vars(EnterSleep)

FairSpec == Spec /\ Fairness

----------------------------------------------------------------------------

Settled == \A s \in Sessions : ice[s] \in {"none", "new", "up", "closed"}

\* The count is exactly the number of connected sessions, through handoffs
\* and for sessions that close without ever having connected.
CountExact == count = Cardinality(conn)

\* The audio capture never stays bound to the track of a session whose peer
\* connection has closed.
AudioTrackAlive == audio # None => ice[audio] \notin {"none", "closed", "unplug"}

\* With no session left and no callback under way the stream is down.
VideoOffWhenIdle == Settled /\ count = 0 => ~video

\* With a session connected and no callback under way the display is marked
\* advertised, although the last session's callback may hide it late, except
\* where the last attempt to show it failed: nobody looks at that error, so the
\* display stays hidden from the session that is there.
DisplayShown == Settled /\ count > 0 => advert \/ "show" \in failed

\* After the last disconnect the chip goes to sleep unless a session comes or
\* the chip refuses: a timer that fired in vain is started anew.
IdleSleeps ==
  \A s \in Sessions : ice[s] = "last" ~> (sleep \/ count > 0 \/ "sleep" \in failed)
============================================================================
