--------------------------- MODULE SessionsProofs ---------------------------
(***************************************************************************)
(* What Sessions guarantees for any finite number of sessions: the count   *)
(* of connected sessions is exact, and the shared devices follow it.       *)
(***************************************************************************)
EXTENDS Sessions, FiniteSetTheorems, TLAPS

\* A callback on its way up belongs to a session that has been counted.
UpPCs == {"first", "start", "audio"}

\* The pcs of a session that is not counted, never or no longer.
DownPCs == {"none", "new", "last", "vstop", "hide", "doze", "closed"}

\* Types that the proofs need, without the bound on the count.
TypeInv ==
  /\ ice \in [Sessions -> IcePCs]
  /\ conn \subseteq Sessions
  /\ IsFiniteSet(conn)
  /\ audio \in Sessions \cup {None}
  /\ {video, advert} \subseteq BOOLEAN

CountInv ==
  /\ CountExact
  /\ \A s \in Sessions : ice[s] \in UpPCs => s \in conn
  /\ \A s \in Sessions : ice[s] \in DownPCs => s \notin conn

\* A display that is hidden although a session is connected has a callback
\* about to show it, or the attempt to show it has failed.
DisplayInv ==
  count > 0 /\ ~advert => "show" \in failed \/ \E s \in Sessions : ice[s] = "first"

\* A stream that runs with no session connected has a callback about to stop
\* it.
VideoInv == video /\ count = 0 => \E s \in Sessions : ice[s] \in {"last", "vstop"}

AudioInv == audio # None => ice[audio] \in {"up", "nil", "close"}

\* A session nobody has asked for has no callback.
RequestInv ==
  /\ DOMAIN req = Sessions /\ DOMAIN ice = Sessions
  /\ \A s \in Sessions : req[s] = "none" => ice[s] = "none"

SessionsInv == TypeInv /\ CountInv /\ DisplayInv /\ VideoInv /\ AudioInv

\* RequestInv is inductive by itself: only Offer and Forget move both.
LEMMA RequestInvStep == RequestInv /\ [Next]_vars => RequestInv'
<1> SUFFICES ASSUME RequestInv, [Next]_vars PROVE RequestInv'
  OBVIOUS
<1> USE DEF RequestInv, Goto, handlers, media, idle
<1>1. ASSUME NEW s \in Sessions, Offer(s) \/ BecomeCurrent(s) \/ Forget(s) PROVE RequestInv'
  BY <1>1 DEF Offer, BecomeCurrent, Forget
<1>2. ASSUME NEW s \in Sessions,
             IceConnected(s) \/ LoseIce(s) \/ FirstSession(s) \/ StartVideo(s) \/ StartAudio(s)
      PROVE  RequestInv'
  BY <1>2 DEF IceConnected, LoseIce, FirstSession, StartVideo, StartAudio
<1>3. ASSUME NEW s \in Sessions,
             \/ DropCurrent(s) \/ CloseSession(s) \/ Uncount(s) \/ LastSession(s)
             \/ StopVideo(s) \/ HideDisplay(s) \/ ArmTicker(s)
      PROVE  RequestInv'
  BY <1>3 DEF DropCurrent, CloseSession, Uncount, LastSession, StopVideo, HideDisplay, ArmTicker
<1>4. CASE TickerFires \/ EnterSleep \/ NativeRestart \/ UNCHANGED vars
  BY <1>4 DEF TickerFires, EnterSleep, NativeRestart, vars
<1> QED BY <1>1, <1>2, <1>3, <1>4 DEF Next, IceStep

\* The invariant holds when the program starts.
LEMMA SessionsInvInit == Init => SessionsInv
<1> SUFFICES ASSUME Init PROVE SessionsInv
  OBVIOUS
<1> USE SessionsAssumption DEF Init
<1>1. TypeInv
  <2>1. conn = {} /\ IsFiniteSet(conn)
    BY FS_EmptySet
  <2> QED BY <2>1 DEF TypeInv, IcePCs
<1>2. CountInv
  BY FS_EmptySet DEF CountInv, CountExact, UpPCs, DownPCs
<1>3. DisplayInv /\ VideoInv /\ AudioInv
  BY DEF DisplayInv, VideoInv, AudioInv
<1> QED BY <1>1, <1>2, <1>3 DEF SessionsInv

\* Connecting and counting out are the only steps that change the count, and
\* they change it by the one session they are about.
LEMMA CountStep ==
  ASSUME TypeInv, CountInv, NEW s \in Sessions
  PROVE  /\ IceConnected(s) => TypeInv' /\ CountInv'
         /\ Uncount(s) => TypeInv' /\ CountInv'
<1> USE DEF TypeInv, CountInv, CountExact, UpPCs, DownPCs, Goto
<1>0. count \in Nat
  BY FS_CardinalityType
<1>1. ASSUME IceConnected(s) PROVE TypeInv' /\ CountInv'
  <2>1. s \notin conn /\ conn' = conn \cup {s} /\ count' = count + 1
    BY <1>1 DEF IceConnected
  <2>2. IsFiniteSet(conn') /\ Cardinality(conn') = Cardinality(conn) + 1
    BY <2>1, FS_AddElement
  <2>3. count + 1 # 1 \/ count + 1 = 1
    OBVIOUS
  <2>4. ice' = [ice EXCEPT ![s] = "first"] \/ ice' = [ice EXCEPT ![s] = "audio"]
    BY <1>1, <2>3 DEF IceConnected
  <2>5. ice' \in [Sessions -> IcePCs] /\ audio' = audio /\ video' = video /\ advert' = advert
    BY <1>1, <2>4 DEF IceConnected, IcePCs, media, idle
  <2> QED BY <2>1, <2>2, <2>4, <2>5
<1>2. ASSUME Uncount(s) PROVE TypeInv' /\ CountInv'
  <2>1. audio' = audio /\ video' = video /\ advert' = advert /\ ice[s] = "unplug"
    BY <1>2 DEF Uncount, media, idle
  <2>2. CASE s \in conn
    <3>1. conn' = conn \ {s} /\ count' = count - 1
      BY <1>2, <2>2 DEF Uncount
    <3>2. IsFiniteSet(conn') /\ Cardinality(conn') = Cardinality(conn) - 1
      BY <2>2, <3>1, FS_RemoveElement
    <3>3. ice' = [ice EXCEPT ![s] = "last"] \/ ice' = [ice EXCEPT ![s] = "closed"]
      BY <1>2, <2>2 DEF Uncount
    <3>4. ice' \in [Sessions -> IcePCs]
      BY <3>3 DEF IcePCs
    <3> QED BY <2>1, <3>1, <3>2, <3>3, <3>4
  <2>3. CASE s \notin conn
    <3>1. conn' = conn /\ count' = count /\ ice' = [ice EXCEPT ![s] = "closed"]
      BY <1>2, <2>3 DEF Uncount
    <3> QED BY <2>1, <2>3, <3>1 DEF IcePCs
  <2> QED BY <2>2, <2>3
<1> QED BY <1>1, <1>2

\* What a step of another kind does to a callback: it moves that of one session,
\* and leaves the count alone.
Moves(s, from, to) ==
  /\ ice[s] \in from
  /\ to \in IcePCs
  /\ ice' = [ice EXCEPT ![s] = to]
  /\ UNCHANGED <<conn, count>>

\* A step that changes neither the count nor the connected sessions keeps both
\* in order, if it does not take a callback to a place it may not be in.
LEMMA MoveStep ==
  ASSUME TypeInv, CountInv, NEW s \in Sessions, NEW from, NEW to, Moves(s, from, to),
         to \in UpPCs => ice[s] \in UpPCs,
         to \in DownPCs => ice[s] \in DownPCs,
         audio' \in Sessions \cup {None}, {video', advert'} \subseteq BOOLEAN
  PROVE  TypeInv' /\ CountInv'
BY DEF TypeInv, CountInv, CountExact, Moves

\* An attempt to set what the host sees sets it or leaves it; one to show the
\* display shows it or notes the failure.
LEMMA AdvertisedStep ==
  ASSUME NEW enabled \in BOOLEAN, NEW force \in BOOLEAN, SetAdvertised(enabled, force)
  PROVE  /\ advert' \in {advert, enabled}
         /\ enabled => advert' \/ "show" \in failed'
BY DEF SetAdvertised

\* A connected session means a positive count, and no connected session none.
LEMMA ConnectedCounts ==
  ASSUME TypeInv, CountInv
  PROVE  /\ count \in Nat
         /\ \A s \in Sessions : s \in conn => count > 0
<1>1. count \in Nat
  BY FS_CardinalityType DEF TypeInv, CountInv, CountExact
<1>2. ASSUME NEW s \in Sessions, s \in conn PROVE count # 0
  BY <1>2, FS_EmptySet DEF TypeInv, CountInv, CountExact
<1> QED BY <1>1, <1>2

\* Every step preserves the invariant.
LEMMA SessionsInvStep == SessionsInv /\ RequestInv /\ [Next]_vars => SessionsInv'
<1> SUFFICES ASSUME SessionsInv, RequestInv, [Next]_vars PROVE SessionsInv'
  OBVIOUS
<1>0. TypeInv /\ CountInv /\ DisplayInv /\ VideoInv /\ AudioInv
  BY DEF SessionsInv
<1>c. count \in Nat /\ \A s \in Sessions : s \in conn => count > 0
  BY <1>0, ConnectedCounts
<1> USE <1>0, <1>c, SessionsAssumption DEF handlers, media, idle
<1>1. ASSUME NEW s \in Sessions, IceConnected(s) PROVE SessionsInv'
  <2>1. TypeInv' /\ CountInv'
    BY <1>1, CountStep
  <2>2. /\ ice[s] = "new" /\ count' = count + 1
        /\ ice' = [ice EXCEPT ![s] = IF count + 1 = 1 THEN "first" ELSE "audio"]
        /\ UNCHANGED <<audio, video, advert, failed>>
    BY <1>1 DEF IceConnected, Goto
  <2>3. DisplayInv'
    BY <2>2 DEF DisplayInv, TypeInv
  <2>4. VideoInv' /\ AudioInv'
    BY <2>2 DEF VideoInv, AudioInv, TypeInv
  <2> QED BY <2>1, <2>3, <2>4 DEF SessionsInv
<1>2. ASSUME NEW s \in Sessions, Uncount(s) PROVE SessionsInv'
  <2>1. TypeInv' /\ CountInv'
    BY <1>2, CountStep
  <2>2. ice[s] = "unplug" /\ UNCHANGED <<audio, video, advert>>
    BY <1>2 DEF Uncount
  <2>3. CASE s \in conn
    <3>1. /\ count' = count - 1
          /\ ice' = [ice EXCEPT ![s] = IF count - 1 = 0 THEN "last" ELSE "closed"]
          /\ failed' = failed \/ count' = 0
      BY <1>2, <2>3 DEF Uncount, Goto
    <3> QED BY <2>1, <2>2, <2>3, <3>1 DEF SessionsInv, DisplayInv, VideoInv, AudioInv, TypeInv
  <2>4. CASE s \notin conn
    <3>1. count' = count /\ failed' = failed /\ ice' = [ice EXCEPT ![s] = "closed"]
      BY <1>2, <2>4 DEF Uncount, Goto
    <3> QED BY <2>1, <2>2, <3>1 DEF SessionsInv, DisplayInv, VideoInv, AudioInv, TypeInv
  <2> QED BY <2>3, <2>4
<1>3. ASSUME NEW s \in Sessions, FirstSession(s) PROVE SessionsInv'
  <2>1. /\ Moves(s, {"first"}, "start") /\ SetAdvertised(TRUE, FALSE)
        /\ UNCHANGED <<audio, video>>
    BY <1>3 DEF FirstSession, Moves, Goto, IcePCs
  <2>a. advert' \in {advert, TRUE} /\ (advert' \/ "show" \in failed')
    BY <2>1, AdvertisedStep
  <2>2. TypeInv' /\ CountInv'
    BY <2>1, <2>a, MoveStep DEF Moves, UpPCs, DownPCs, TypeInv
  <2> QED BY <2>1, <2>2, <2>a DEF SessionsInv, DisplayInv, VideoInv, AudioInv, TypeInv, Moves
<1>4. ASSUME NEW s \in Sessions, StartVideo(s) PROVE SessionsInv'
  <2>1. Moves(s, {"start"}, "audio") /\ video' = TRUE /\ UNCHANGED <<audio, advert, failed>>
    BY <1>4 DEF StartVideo, Moves, Goto, IcePCs
  <2>2. s \in conn
    BY <2>1 DEF Moves, CountInv, UpPCs
  <2>3. TypeInv' /\ CountInv'
    BY <2>1, MoveStep DEF Moves, UpPCs, DownPCs, TypeInv
  <2> QED BY <2>1, <2>2, <2>3 DEF SessionsInv, DisplayInv, VideoInv, AudioInv, TypeInv, Moves
<1>5. ASSUME NEW s \in Sessions, StartAudio(s) PROVE SessionsInv'
  <2>1. Moves(s, {"audio"}, "up") /\ audio' \in {s, audio} /\ UNCHANGED <<video, advert, failed>>
    BY <1>5 DEF StartAudio, Moves, Goto, IcePCs
  <2>2. TypeInv' /\ CountInv'
    BY <2>1, MoveStep DEF Moves, UpPCs, DownPCs, TypeInv
  <2> QED BY <2>1, <2>2 DEF SessionsInv, DisplayInv, VideoInv, AudioInv, TypeInv, Moves
<1>6. ASSUME NEW s \in Sessions, Offer(s) \/ Forget(s) PROVE SessionsInv'
  <2>1. UNCHANGED <<video, advert, audio, failed>>
    BY <1>6 DEF Offer, Forget
  <2>2. Moves(s, {"none"}, "new") \/ Moves(s, {"closed"}, "none")
    BY <1>6 DEF Offer, Forget, RequestInv, Moves, Goto, IcePCs
  <2>3. TypeInv' /\ CountInv'
    BY <2>1, <2>2, MoveStep DEF Moves, UpPCs, DownPCs, TypeInv
  <2> QED BY <2>1, <2>2, <2>3 DEF SessionsInv, DisplayInv, VideoInv, AudioInv, TypeInv, Moves
<1>7. ASSUME NEW s \in Sessions, LoseIce(s) \/ DropCurrent(s) PROVE SessionsInv'
  <2>1. UNCHANGED <<video, advert, audio, failed>>
    BY <1>7 DEF LoseIce, DropCurrent
  <2>2. Moves(s, {"new", "up", "nil"}, "nil") \/ Moves(s, {"new", "up", "nil"}, "close")
    BY <1>7 DEF LoseIce, DropCurrent, Moves, Goto, IcePCs
  <2>3. TypeInv' /\ CountInv'
    BY <2>1, <2>2, MoveStep DEF Moves, UpPCs, DownPCs, TypeInv
  <2> QED BY <2>1, <2>2, <2>3 DEF SessionsInv, DisplayInv, VideoInv, AudioInv, TypeInv, Moves
<1>8. ASSUME NEW s \in Sessions, CloseSession(s) PROVE SessionsInv'
  <2>1. /\ Moves(s, {"close"}, "unplug") /\ UNCHANGED <<video, advert, failed>>
        /\ audio' = IF audio = s THEN None ELSE audio
    BY <1>8 DEF CloseSession, Moves, Goto, IcePCs
  <2>2. TypeInv' /\ CountInv'
    BY <2>1, MoveStep DEF Moves, UpPCs, DownPCs, TypeInv
  <2> QED BY <2>1, <2>2 DEF SessionsInv, DisplayInv, VideoInv, AudioInv, TypeInv, Moves
<1>9. ASSUME NEW s \in Sessions, LastSession(s) \/ StopVideo(s) PROVE SessionsInv'
  <2>1. \/ Moves(s, {"last"}, "vstop") /\ audio' = None /\ UNCHANGED <<video, advert, failed>>
        \/ Moves(s, {"vstop"}, "hide") /\ video' = FALSE /\ UNCHANGED <<audio, advert, failed>>
    BY <1>9 DEF LastSession, StopVideo, Moves, Goto, IcePCs
  <2>2. TypeInv' /\ CountInv'
    BY <2>1, MoveStep DEF Moves, UpPCs, DownPCs, TypeInv
  <2> QED BY <2>1, <2>2 DEF SessionsInv, DisplayInv, VideoInv, AudioInv, TypeInv, Moves
<1>a. shouldAdvertise \in BOOLEAN /\ (count > 0 => shouldAdvertise)
  BY DEF shouldAdvertise
<1>10. ASSUME NEW s \in Sessions, HideDisplay(s) PROVE SessionsInv'
  <2>1. /\ Moves(s, {"hide"}, "doze") /\ SetAdvertised(shouldAdvertise, FALSE)
        /\ UNCHANGED <<video, audio>>
    BY <1>10 DEF HideDisplay, shouldAdvertise, Moves, Goto, IcePCs
  <2>a. advert' \in {advert, shouldAdvertise} /\ (count > 0 => advert' \/ "show" \in failed')
    BY <1>a, <2>1, AdvertisedStep
  <2>2. TypeInv' /\ CountInv'
    BY <1>a, <2>1, <2>a, MoveStep DEF Moves, UpPCs, DownPCs, TypeInv
  <2> QED BY <2>1, <2>2, <2>a DEF SessionsInv, DisplayInv, VideoInv, AudioInv, TypeInv, Moves
<1>11. ASSUME NEW s \in Sessions, ArmTicker(s) PROVE SessionsInv'
  <2>1. Moves(s, {"doze"}, "closed") /\ UNCHANGED <<video, audio, advert, failed>>
    BY <1>11 DEF ArmTicker, Moves, Goto, IcePCs
  <2>2. TypeInv' /\ CountInv'
    BY <2>1, MoveStep DEF Moves, UpPCs, DownPCs, TypeInv
  <2> QED BY <2>1, <2>2 DEF SessionsInv, DisplayInv, VideoInv, AudioInv, TypeInv, Moves
<1>12. CASE \/ \E s \in Sessions : BecomeCurrent(s)
            \/ TickerFires \/ EnterSleep \/ NativeRestart \/ UNCHANGED vars
  <2>a. ASSUME NativeRestart
        PROVE  /\ advert' \in {advert, shouldAdvertise}
               /\ count > 0 => advert' \/ "show" \in failed'
    <3>1. SetAdvertised(shouldAdvertise, TRUE)
      BY <2>a DEF NativeRestart, shouldAdvertise
    <3> QED BY <1>a, <3>1, AdvertisedStep
  <2>b. ASSUME ~NativeRestart
        PROVE  advert' = advert /\ ("show" \in failed => "show" \in failed')
    BY <1>12, <2>b DEF BecomeCurrent, TickerFires, EnterSleep, vars
  <2>1. /\ UNCHANGED <<ice, conn, count, audio>>
        /\ advert' \in {advert, shouldAdvertise}
        /\ video' \in {video, FALSE}
    BY <1>12, <2>a, <2>b DEF BecomeCurrent, TickerFires, EnterSleep, NativeRestart, vars
  <2>2. TypeInv'
    <3>1. {video', advert'} \subseteq BOOLEAN
      BY <1>a, <2>1 DEF SessionsInv, TypeInv
    <3> QED BY <2>1, <3>1 DEF SessionsInv, TypeInv
  <2>3. CountInv'
    BY <2>1 DEF SessionsInv, CountInv, CountExact
  <2>4. DisplayInv'
    BY <2>1, <2>a, <2>b DEF SessionsInv, DisplayInv
  <2>5. VideoInv'
    BY <2>1 DEF SessionsInv, VideoInv, TypeInv
  <2>6. AudioInv'
    BY <2>1 DEF SessionsInv, AudioInv
  <2> QED BY <2>2, <2>3, <2>4, <2>5, <2>6 DEF SessionsInv
<1> QED BY <1>1, <1>2, <1>3, <1>4, <1>5, <1>6, <1>7, <1>8, <1>9, <1>10, <1>11, <1>12
        DEF Next, IceStep

----------------------------------------------------------------------------

\* The two invariants hold in every state of every behaviour.
LEMMA SessionsInvHolds == Spec => []SessionsInv
<1>1. Init => RequestInv
  BY DEF Init, RequestInv
<1> QED BY <1>1, SessionsInvInit, SessionsInvStep, RequestInvStep, PTL DEF Spec

\* actionSessions is exactly the number of sessions whose ICE connection was
\* counted in and not yet counted out, for any number of sessions.
THEOREM CountStaysExact == Spec => []CountExact
<1>1. SessionsInv => CountExact
  BY DEF SessionsInv, CountInv
<1> QED BY <1>1, SessionsInvHolds, PTL

\* The audio capture is never bound to the track of a session that is closed.
THEOREM AudioTrackStaysAlive == Spec => []AudioTrackAlive
<1>1. SessionsInv => AudioTrackAlive
  BY DEF SessionsInv, AudioInv, AudioTrackAlive
<1> QED BY <1>1, SessionsInvHolds, PTL

\* The stream is down whenever no session is connected and no callback is
\* under way.
THEOREM IdleVideoIsOff == Spec => []VideoOffWhenIdle
<1>1. SessionsInv => VideoOffWhenIdle
  BY DEF SessionsInv, VideoInv, VideoOffWhenIdle, Settled
<1> QED BY <1>1, SessionsInvHolds, PTL

\* The display is marked advertised whenever a session is connected and no
\* callback is under way, however late the last session's callback hides it,
\* unless the last attempt to show it failed.
THEOREM DisplayStaysShown == Spec => []DisplayShown
<1>1. SessionsInv => DisplayShown
  BY DEF SessionsInv, DisplayInv, DisplayShown, Settled
<1> QED BY <1>1, SessionsInvHolds, PTL
============================================================================
