------------------------- MODULE VideoStreamProofs -------------------------
(***************************************************************************)
(* Theorems about VideoStream, for any number of calls, changes of the     *)
(* source and failures, any sources and qualities, and calls and restarts  *)
(* of the detector that come together at any statements.                   *)
(*                                                                         *)
(* The invariant has three parts.  What the streaming threads do to the    *)
(* pool and to the encoder is right whatever the controllers do; the       *)
(* thread handle is used rightly until two calls are between their look at *)
(* it and the assignment that follows; and the stream is as it was asked   *)
(* to be until a restart comes together with a call.                       *)
(***************************************************************************)
EXTENDS VideoStream, FiniteSetTheorems, TLAPS

Formats == [size : Sizes, fps : Nat \ {0}]
Attrs == {NoAttr} \cup
         {populate_venc_attr(calculate_bitrate(q, f.size), f.size, f.fps, c) :
            q \in Qualities, f \in Formats, c \in Codecs}

ThrType == [pc : ThreadPCs, fmt : Formats]
CtlType == [pc : CtlPCs, op : Ops \cup {"none", "restart"}, thread : Threads \cup {NoThread}]
VencType == [channel : BOOLEAN, running : BOOLEAN,
             reader : {"none", "alive", "dead", "garbage"}, attr : Attrs]
DetType == [pc : {"query", "height", "store", "busy", "wait", "dead"},
            fmt : Formats, restart : BOOLEAN]

\* Every variable has its type.
VType ==
  /\ scope \in Scopes
  /\ ptr \in Threads \cup {NoThread}
  /\ mem \subseteq Threads
  /\ thr \in [Threads -> ThrType]
  /\ pool \in 0 .. InputBufferCount
  /\ venc \in VencType
  /\ ctl \in [Controllers -> CtlType]
  /\ \A c \in Controllers : ctl[c].pc \in {"joining", "publish"} => ctl[c].thread \in Threads
  /\ det \in DetType
  /\ detected \in Formats
  /\ source \in Signals \cup {NoSignal}
  /\ set \in [quality : Qualities, codec : Codecs]
  /\ sleep \in {"off", "on", "stuck"}
  /\ overlap \in {"none", "calls", "sections"}

----------------------------------------------------------------------------
(* What holds whatever the controllers do. *)

\* A thread between buffers and cleanup has all blocks, so that there is one at
\* most; unless a thread gave up, all others are in the pool.
Holding == {"venc", "run", "cleanup", "joinreader", "release"}
PoolInv ==
  /\ \A t \in Threads : thr[t].pc \in Holding => pool = 0
  /\ \A t, u \in Threads : thr[t].pc \in Holding /\ thr[u].pc \in Holding => t = u
  /\ ~aborted /\ (\A t \in Threads : thr[t].pc \notin Holding) => pool = InputBufferCount

\* The reader's channel exists, and the reader that is joined was told to end; a
\* running thread's channel has the thread's format.
VencInv ==
  /\ venc.reader = "alive" => venc.channel
  /\ \A t \in Threads : thr[t].pc = "joinreader" => ~venc.running
  /\ \A t \in Threads : thr[t].pc = "run" =>
       \E q \in Qualities, k \in Codecs :
         venc.attr = populate_venc_attr(calculate_bitrate(q, thr[t].fmt.size),
                                        thr[t].fmt.size, thr[t].fmt.fps, k)

\* Each controller makes its own calls.
SidesInv ==
  /\ det.restart => det.pc \in {"height", "store"}
  /\ ctl["det"].pc # "idle" => det.pc = "busy" /\ ctl["det"].op = "restart"
  /\ ctl["rpc"].pc # "idle" => ctl["rpc"].op \in {"start", "stop", "sleep", "quality"}
  /\ ctl["rpc"].pc # "idle" /\ ctl["rpc"].op \in {"stop", "sleep"} => ~want
  /\ \A c \in Controllers :
       /\ ctl[c].pc \in {"status", "rewait"} => ctl[c].op \in {"quality", "restart"}
       /\ ctl[c].pc \in {"nap", "napwait", "napwrite"} => ctl[c].op = "sleep"
       /\ ctl[c].pc = "wake" => ctl[c].op = "start"
       /\ ctl[c].pc \in {"start", "create", "publish"} =>
            ctl[c].op \in {"start", "quality", "restart"}
       /\ ctl[c].pc \in {"stop"} \cup StopSection => ctl[c].op # "start"

----------------------------------------------------------------------------
(* What holds until two calls are in their sections at once. *)

\* One controller at most is between its look at streaming_thread and the
\* assignment to it.
RegionInv ==
  \A c, d \in Controllers : ctl[c].pc \in Section /\ ctl[d].pc \in Section => c = d

\* There is at most one streaming thread, and streaming_thread points to it
\* but between free and the NULL, and between pthread_create and the publication.
HandleInv ==
  /\ \A t \in Threads : thr[t].pc = "none" <=> t \notin mem
  /\ \A t \in Threads : thr[t].pc = "joined" => \E c \in Controllers : ctl[c].pc = "free"
  /\ \A c \in Controllers :
       /\ ctl[c].pc \in StopSection => ptr # NoThread
       /\ ctl[c].pc = "joining" => ctl[c].thread = ptr
       /\ ctl[c].pc = "free" => thr[ptr].pc = "joined"
       /\ ctl[c].pc = "null" => mem = {}
       /\ ctl[c].pc \in StartSection => ptr = NoThread
       /\ ctl[c].pc = "publish" => mem = {ctl[c].thread}
  /\ (\A c \in Controllers : ctl[c].pc \notin {"null", "publish"}) => mem = {ptr} \ {NoThread}

\* streaming_flag is up exactly while there is a thread, but inside a stop or
\* a start; a thread ends when the flag is down or on an error.
FlagInv ==
  /\ \A c \in Controllers :
       /\ ctl[c].pc \in StopSection \ {"unflag"} => ~flag
       /\ ctl[c].pc \in StartSection => flag
  /\ (\A c \in Controllers : ctl[c].pc \notin Section \ {"unflag"}) => (flag <=> ptr # NoThread)
  /\ \A t \in Threads : thr[t].pc \in {"leaving", "exited", "joined"} => ~flag \/ aborted
  /\ ~aborted /\ (\A t \in Threads : ~Alive(t)) => stopped

PtrInv == RegionInv /\ HandleInv /\ FlagInv

\* A stream that was asked to start is up, or a call is about to see to it: one that
\* finds a thread where it wants to start one finds it running, or being stopped to
\* be started again.
UpInv ==
  want /\ ~aborted =>
    flag \/ \E c \in Controllers :
              \/ ctl[c].op = "start" /\ ctl[c].pc \in {"wake", "start"}
              \/ /\ ctl[c].op \in {"quality", "restart"}
                 /\ ctl[c].pc \in (StopSection \ {"unflag"}) \cup {"rewait", "start"}


----------------------------------------------------------------------------
(* What holds until a restart comes together with a call. *)

\* One controller at most is in a call ...
OneCall == \A c, d \in Controllers : ctl[c].pc # "idle" /\ ctl[d].pc # "idle" => c = d

\* ... so that nobody creates a thread while it waits for the stream to be down.
WaitInv ==
  \A c \in Controllers :
    /\ ctl[c].pc \in {"napwait", "napwrite", "rewait"} => ptr = NoThread
    /\ ctl[c].pc = "napwrite" => stopped

\* A stream that was asked to stop is down, or its stop is under way.
DownInv ==
  ~want =>
    \/ ctl["rpc"].pc # "idle" /\ ctl["rpc"].op \in {"stop", "sleep"}
    \/ /\ ptr = NoThread
       /\ \A c \in Controllers :
            /\ ctl[c].pc \in {"idle", "status", "stop", "rewait"}
            /\ ctl[c].pc \in {"stop", "rewait"} => ~stopped

\* While the chip sleeps, and no write to wake it has failed, there is no stream,
\* and no call is past the point where it would have woken the chip.
SleepInv ==
  sleep = "on" =>
    /\ stopped /\ ptr = NoThread
    /\ \A c \in Controllers :
         \/ ctl[c].pc \in {"idle", "status", "nap", "napwait", "napwrite", "wake"}
         \/ ctl[c].pc = "stop" /\ ctl[c].op \in {"stop", "sleep"}

\* A call that is about to stop the thread.
Stopping == {"status", "stop", "unflag", "wait", "join", "joining"}

\* A running thread's channel has the codec and the quality that were set last,
\* unless a call is about to stop it for another quality.
SettingsInv ==
  \A t \in Threads : thr[t].pc = "run" =>
    \E q \in Qualities :
      /\ venc.attr = populate_venc_attr(calculate_bitrate(q, thr[t].fmt.size),
                                        thr[t].fmt.size, thr[t].fmt.fps, set.codec)
      /\ q = set.quality \/ (ctl["rpc"].op = "quality" /\ ctl["rpc"].pc \in Stopping)

\* The detector has decided to restart the stream, and the stop is to come.
RestartDue == det.restart \/ ctl["det"].pc \in Stopping

\* What the detector knows is what the source is, unless it is about to look; a
\* thread that has read another width or height is about to be stopped.
DetInv ==
  /\ ~event /\ det.pc \in {"height", "store", "busy"} =>
       source # NoSignal /\ detected.size.w = source.size.w
  /\ ~event /\ det.pc = "height" => det.fmt.size.h = source.size.h
  /\ ~event /\ det.pc \in {"store", "busy"} => detected.size.h = source.size.h
  /\ ~event /\ det.pc = "wait" =>
       IF source = NoSignal THEN ~signal
       ELSE detected.size.w = source.size.w /\ detected.size.h = source.size.h
  /\ det.pc = "height" /\ ~det.restart => detected.size.h = det.fmt.size.h
  /\ \A t \in Threads :
       /\ thr[t].pc \in {"height", "rate", "alloc", "venc", "run"} =>
            thr[t].fmt.size.w = detected.size.w \/ RestartDue
       /\ thr[t].pc \in {"rate", "alloc", "venc", "run"} =>
            thr[t].fmt.size.h = detected.size.h \/ RestartDue

CallInv == OneCall /\ WaitInv /\ DownInv /\ SleepInv /\ SettingsInv /\ DetInv

\* The parts that are proved by the statements of the controllers, and all of it.
CallsInv ==
  /\ SidesInv
  /\ crashed => overlap = "sections" \/ venc.reader = "garbage"
  /\ overlap # "sections" => PtrInv /\ UpInv
  /\ overlap = "none" => CallInv

VideoInv == VType /\ PoolInv /\ VencInv /\ CallsInv

----------------------------------------------------------------------------
(* Types. *)

\* What the detector makes of a source is a format.
LEMMA FormatType == \A s \in Signals : FormatOf(s) \in Formats
BY DEF Signals, Formats, FormatOf, RoundedFps

\* A format with one field of another.
LEMMA FieldType ==
  ASSUME NEW f \in Formats, NEW g \in Formats
  PROVE  /\ [f EXCEPT !.size.w = g.size.w] \in Formats
         /\ [f EXCEPT !.size.h = g.size.h] \in Formats
         /\ [f EXCEPT !.fps = g.fps] \in Formats
BY DEF Formats, Sizes

\* A channel's attributes.
LEMMA AttrType ==
  ASSUME NEW q \in Qualities, NEW f \in Formats, NEW c \in Codecs
  PROVE  populate_venc_attr(calculate_bitrate(q, f.size), f.size, f.fps, c) \in Attrs
BY DEF Attrs

\* The types hold initially ...
LEMMA VTypeInit == Init => VType
<1> SUFFICES ASSUME Init PROVE VType
  OBVIOUS
<1>1. FormatOf(FirstSource) \in Formats
  BY FormatType, VideoAssumption
<1>2. detected \in Formats /\ source \in Signals
  BY <1>1, VideoAssumption DEF Init
<1>3. PICK t \in Threads :
        /\ ptr = IF scope.up THEN t ELSE NoThread
        /\ mem = {ptr} \ {NoThread}
        /\ thr = [u \in Threads |->
                    IF u = ptr THEN [NoStream EXCEPT !.pc = "loop"] ELSE NoStream]
  BY DEF Init
<1>4. ptr \in Threads \cup {NoThread} /\ mem \subseteq Threads
  BY <1>3
<1>5. NoStream \in ThrType /\ [NoStream EXCEPT !.pc = "loop"] \in ThrType
  BY <1>1 DEF NoStream, ThreadPCs, ThrType
<1>6. thr \in [Threads -> ThrType]
  BY <1>3, <1>5
<1>7. venc \in VencType
  BY DEF Init, NoVenc, Attrs, VencType
<1>8. ctl \in [Controllers -> CtlType] /\ \A c \in Controllers : ctl[c].pc = "idle"
  BY DEF Init, Idle, CtlPCs, CtlType
<1>9. det \in DetType
  BY <1>2 DEF Init, DetType
<1>10. /\ set \in [quality : Qualities, codec : Codecs]
       /\ pool \in 0 .. InputBufferCount /\ scope \in Scopes
       /\ sleep \in {"off", "on", "stuck"} /\ overlap \in {"none", "calls", "sections"}
  BY VideoAssumption DEF Init, Codecs, InputBufferCount
<1> QED BY <1>2, <1>4, <1>6, <1>7, <1>8, <1>9, <1>10 DEF VType

\* Where a controller is after a step.
At(c, pc) ==
  /\ ctl'[c].pc = pc /\ ctl'[c].op = ctl[c].op /\ ctl'[c].thread = ctl[c].thread
  /\ \A d \in Controllers : d = c \/ ctl'[d] = ctl[d]
Back(c) == ctl'[c].pc = "idle" /\ \A d \in Controllers : d = c \/ ctl'[d] = ctl[d]

Left(c) ==
  \/ ctl[c].op \in {"restart", "quality"} /\ At(c, "rewait")
  \/ ctl[c].op = "sleep" /\ At(c, "napwait")
  \/ ctl[c].op \notin {"restart", "quality", "sleep"} /\ Back(c)

\* A controller moves to another statement, ...
LEMMA GotoFacts ==
  ASSUME VType, NEW c \in Controllers, NEW pc, Goto(c, pc)
  PROVE  At(c, pc)
BY DEF VType, CtlType, Goto, At

\* ... returns from its call, ...
LEMMA ReturnFacts ==
  ASSUME VType, NEW c \in Controllers, Return(c)
  PROVE  Back(c)
BY DEF VType, CtlType, Return, Back, Idle

\* ... or from video_stop_streaming.
LEMMA AfterStopFacts ==
  ASSUME VType, NEW c \in Controllers, AfterStop(c)
  PROVE  Left(c)
BY GotoFacts, ReturnFacts DEF AfterStop, Left

\* No step takes an overlap back.
LEMMA OverlapStays ==
  ASSUME VType, (UNCHANGED overlap) \/ \E c \in Controllers : CallBegins(c) \/ SectionBegins(c)
  PROVE  /\ overlap' \in {"none", "calls", "sections"}
         /\ overlap' # "sections" => overlap # "sections"
         /\ overlap' = "none" => overlap = "none"
BY DEF VType, CallBegins, SectionBegins

\* A write to the sleep_mode file that was to wake the chip.
LEMMA AwakeFacts ==
  ASSUME WriteAwake PROVE sleep' \in {"off", "stuck"}
BY DEF WriteAwake

\* What a statement of a controller leaves alone ...
LEMMA ControlKeeps ==
  ASSUME NEW c \in Controllers, ControlStep(c)
  PROVE  /\ UNCHANGED <<pool, venc, det, detected, signal, source, event, want, scope, set>>
         /\ UNCHANGED overlap \/ SectionBegins(c)
<1>1. CASE Wake(c) \/ Nap(c) \/ NapWait(c) \/ NapWrite(c) \/ RestartStatus(c) \/ RestartWait(c)
  BY <1>1 DEF Wake, Nap, NapWait, NapWrite, RestartStatus, RestartWait, pipe, world, param
<1>2. CASE StopBegin(c) \/ StartBegin(c)
  BY <1>2 DEF StopBegin, StartBegin, pipe, world
<1>3. CASE StopUnflag(c) \/ StopWait(c) \/ StopJoin(c) \/ StopJoined(c) \/ StopFree(c) \/ StopNull(c)
           \/ StartCreate(c) \/ StartPublish(c)
  BY <1>3 DEF StopUnflag, StopWait, StopJoin, StopJoined, StopFree, StopNull, StartCreate,
         StartPublish, pipe, world, param
<1> QED BY <1>1, <1>2, <1>3 DEF ControlStep

\* ... and a controller keeps the types ...
LEMMA VTypeControl ==
  ASSUME VType, NEW c \in Controllers, ControlStep(c)
  PROVE  VType'
<1> DEFINE CtlOk == /\ ctl' \in [Controllers -> CtlType]
                    /\ \A d \in Controllers : ctl'[d].pc \in {"joining", "publish"} => ctl'[d].thread \in Threads
<1>0. /\ ctl \in [Controllers -> CtlType] /\ thr \in [Threads -> ThrType]
      /\ mem \subseteq Threads /\ ptr \in Threads \cup {NoThread} /\ sleep \in {"off", "on", "stuck"}
      /\ \A d \in Controllers : ctl[d].pc \in {"joining", "publish"} => ctl[d].thread \in Threads
  BY DEF VType
<1>1. ASSUME NEW pc \in CtlPCs \ {"joining", "publish"}, Goto(c, pc) PROVE CtlOk
  <2>1. ctl' \in [Controllers -> CtlType]
    BY <1>0, <1>1 DEF Goto, CtlType
  <2>2. At(c, pc)
    BY <1>1, GotoFacts
  <2> QED BY <1>0, <2>1, <2>2 DEF At
<1>2. ASSUME Return(c) PROVE CtlOk
  <2>1. ctl' \in [Controllers -> CtlType]
    BY <1>0, <1>2 DEF Return, Idle, CtlPCs, CtlType
  <2>2. Back(c)
    BY <1>2, ReturnFacts
  <2> QED BY <1>0, <2>1, <2>2 DEF Back
<1>3. ASSUME AfterStop(c) PROVE CtlOk
  BY <1>1, <1>2, <1>3 DEF AfterStop, CtlPCs
<1>4. ASSUME NEW pc \in CtlPCs, NEW t \in Threads, ctl' = [ctl EXCEPT ![c].pc = pc, ![c].thread = t]
      PROVE  CtlOk
  <2>1. ctl' \in [Controllers -> CtlType]
    BY <1>0, <1>4, ZenonT(60) DEF CtlType
  <2>2. ctl'[c].thread = t /\ \A d \in Controllers : d = c \/ ctl'[d] = ctl[d]
    BY <1>0, <1>4 DEF CtlType
  <2> QED BY <1>0, <2>1, <2>2
<1>5. /\ UNCHANGED <<pool, venc, det, detected, source, scope, set>>
      /\ overlap' \in {"none", "calls", "sections"}
  BY ControlKeeps, OverlapStays
<1>6. SUFFICES /\ CtlOk /\ mem' \subseteq Threads /\ thr' \in [Threads -> ThrType]
               /\ ptr' \in Threads \cup {NoThread} /\ sleep' \in {"off", "on", "stuck"}
  BY <1>5 DEF VType
<1>7. ASSUME UNCHANGED ctl PROVE CtlOk
  BY <1>0, <1>7
<1> HIDE DEF CtlOk
<1>8. CASE Wake(c) \/ Nap(c) \/ NapWait(c) \/ NapWrite(c) \/ RestartStatus(c) \/ RestartWait(c)
  <2>1. CtlOk
    BY <1>1, <1>2, <1>8
       DEF Wake, Nap, NapWait, NapWrite, RestartStatus, RestartWait, CtlPCs, Status
  <2> QED BY <1>0, <1>8, <2>1, AwakeFacts
          DEF Wake, Nap, NapWait, NapWrite, RestartStatus, RestartWait, pipe, shared
<1>9. CASE StopBegin(c) \/ StopUnflag(c) \/ StopWait(c) \/ StopNull(c) \/ StartBegin(c)
  <2>1. CtlOk
    BY <1>1, <1>2, <1>3, <1>9
       DEF StopBegin, StopUnflag, StopWait, StopNull, StartBegin, CtlPCs, Section, StopSection, StartSection
  <2> QED BY <1>0, <1>9, <2>1
          DEF StopBegin, StopUnflag, StopWait, StopNull, StartBegin, pipe, shared
<1>10. CASE StopJoin(c)
  <2>1. UNCHANGED <<thr, mem, ptr, sleep>>
    BY <1>10 DEF StopJoin, Crash, shared
  <2>2. \/ UNCHANGED ctl
        \/ ctl' = [ctl EXCEPT ![c].pc = "joining", ![c].thread = ptr] /\ ptr \in Threads
    BY <1>0, <1>10 DEF StopJoin, Crash
  <2>3. CtlOk
    <3>1. "joining" \in CtlPCs
      BY DEF CtlPCs, Section, StopSection
    <3> QED BY <1>4, <1>7, <2>2, <3>1
  <2> QED BY <1>0, <2>1, <2>3
<1>11. CASE StopJoined(c)
  <2>0. ctl' = [ctl EXCEPT ![c].pc = "free", ![c].thread = NoThread]
    BY <1>11 DEF StopJoined
  <2>1. ctl' \in [Controllers -> CtlType]
    BY <1>0, <2>0, ZenonT(60) DEF CtlType, CtlPCs, Section, StopSection
  <2>2. ctl'[c].pc = "free" /\ \A d \in Controllers : d = c \/ ctl'[d] = ctl[d]
    BY <1>0, <2>0 DEF CtlType
  <2>3. CtlOk
    BY <1>0, <2>1, <2>2 DEF CtlOk
  <2>4. PICK pc \in {"joined", "none"} : thr' = [thr EXCEPT ![ctl[c].thread].pc = pc]
    BY <1>11 DEF StopJoined
  <2>5. thr' \in [Threads -> ThrType]
    BY <1>0, <2>4 DEF ThreadPCs, ThrType
  <2> QED BY <1>0, <1>11, <2>3, <2>5 DEF StopJoined, shared
<1>12. CASE StopFree(c)
  <2>0. NoStream \in ThrType
    BY FormatType, VideoAssumption DEF NoStream, ThreadPCs, ThrType
  <2>1. CASE Crash(c)
    BY <1>0, <1>7, <1>12, <2>1 DEF StopFree, Crash, shared
  <2>2. CASE ~(ptr \in Threads \ mem)
    <3>1. CtlOk
      BY <1>1, <1>12, <2>2 DEF StopFree, CtlPCs, Section, StopSection
    <3>2. thr' \in [Threads -> ThrType]
      BY <1>0, <1>12, <2>0, <2>2 DEF StopFree
    <3> QED BY <1>0, <1>12, <2>2, <3>1, <3>2 DEF StopFree
  <2> QED BY <1>12, <2>1, <2>2 DEF StopFree
<1>13. CASE StartCreate(c)
  <2>1. CASE Return(c) /\ UNCHANGED <<thr, mem>>
    BY <1>0, <1>2, <1>13, <2>1 DEF StartCreate
  <2>2. ASSUME NEW t \in Threads, thr' = [thr EXCEPT ![t].pc = "new"], mem' = mem \cup {t},
               ctl' = [ctl EXCEPT ![c].pc = "publish", ![c].thread = t]
        PROVE  CtlOk /\ mem' \subseteq Threads /\ thr' \in [Threads -> ThrType]
    <3>1. "publish" \in CtlPCs
      BY DEF CtlPCs, Section, StartSection
    <3>2. thr' \in [Threads -> ThrType]
      BY <1>0, <2>2 DEF ThreadPCs, ThrType
    <3> QED BY <1>0, <1>4, <2>2, <3>1, <3>2
  <2> QED BY <1>0, <1>13, <2>1, <2>2 DEF StartCreate
<1>14. CASE StartPublish(c)
  BY <1>0, <1>2, <1>14 DEF StartPublish, pipe
<1> QED BY <1>8, <1>9, <1>10, <1>11, <1>12, <1>13, <1>14 DEF ControlStep

\* A thread moves on and keeps the format it has read.
LEMMA MoveFacts ==
  ASSUME VType, NEW t \in Threads, NEW pc, Move(t, pc)
  PROVE  thr'[t].pc = pc /\ thr'[t].fmt = thr[t].fmt /\ \A u \in Threads : u = t \/ thr'[u] = thr[u]
BY DEF VType, ThrType, Move

\* What a step of a streaming thread leaves alone, ...
LEMMA StreamKeeps ==
  ASSUME NEW t \in Threads, StreamStep(t)
  PROVE  UNCHANGED <<flag, ptr, mem, ctl, world, want, set, scope, overlap>>
<1>1. CASE StreamBegin(t) \/ StreamConfigure(t) \/ ReadHeight(t) \/ ReadRate(t) \/ StreamLeave(t)
           \/ StreamAlloc(t) \/ \E n \in 0..InputBufferCount : StreamAbort(t, n)
  BY <1>1 DEF StreamBegin, StreamConfigure, ReadHeight, ReadRate, StreamLeave, StreamAlloc,
         StreamAbort, shared, param
<1>2. CASE VencStart(t) \/ StreamEnd(t) \/ VencStop(t) \/ VencDestroy(t) \/ StreamRelease(t)
           \/ StreamExit(t)
  BY <1>2 DEF VencStart, StreamEnd, VencStop, VencDestroy, StreamRelease, StreamExit, shared, param
<1> QED BY <1>1, <1>2 DEF StreamStep

\* ... what it reads, ...
LEMMA ReadFacts ==
  ASSUME VType, NEW t \in Threads
  PROVE  /\ StreamConfigure(t) =>
              /\ thr[t].pc = "loop" /\ thr'[t].pc = "height"
              /\ thr'[t].fmt = [thr[t].fmt EXCEPT !.size.w = detected.size.w]
              /\ UNCHANGED <<stopped, pool, venc, aborted, sleep, crashed>>
              /\ \A u \in Threads : u = t \/ thr'[u] = thr[u]
         /\ ReadHeight(t) =>
              /\ thr[t].pc = "height" /\ thr'[t].pc = "rate"
              /\ thr'[t].fmt = [thr[t].fmt EXCEPT !.size.h = detected.size.h]
              /\ UNCHANGED <<stopped, pool, venc, aborted, sleep, crashed>>
              /\ \A u \in Threads : u = t \/ thr'[u] = thr[u]
         /\ ReadRate(t) =>
              /\ thr[t].pc = "rate" /\ thr'[t].pc \in {"alloc", "loop"}
              /\ UNCHANGED <<stopped, pool, venc, aborted, sleep, crashed>>
              /\ thr'[t].fmt = [thr[t].fmt EXCEPT !.fps = detected.fps]
              /\ \A u \in Threads : u = t \/ thr'[u] = thr[u]
<1>0. thr \in [Threads -> ThrType]
  BY DEF VType
<1>1. ASSUME NEW v, thr' = [thr EXCEPT ![t] = v]
      PROVE  thr'[t] = v /\ \A u \in Threads : u = t \/ thr'[u] = thr[u]
  BY <1>0, <1>1
<1>2. CASE StreamConfigure(t)
  BY <1>1, <1>2 DEF StreamConfigure, ReadHeight, ReadRate, shared
<1>3. CASE ReadHeight(t)
  BY <1>1, <1>3 DEF StreamConfigure, ReadHeight, ReadRate, shared
<1>4. CASE ReadRate(t)
  <2>1. PICK pc \in {"alloc", "loop"} :
          thr' = [thr EXCEPT ![t] = [pc |-> pc, fmt |-> [@.fmt EXCEPT !.fps = detected.fps]]]
    BY <1>4 DEF ReadRate
  <2>2. /\ thr'[t] = [pc |-> pc, fmt |-> [thr[t].fmt EXCEPT !.fps = detected.fps]]
        /\ \A u \in Threads : u = t \/ thr'[u] = thr[u]
    BY <1>0, <2>1
  <2> QED BY <1>4, <2>2 DEF StreamConfigure, ReadHeight, ReadRate, shared
<1> QED BY <1>2, <1>3, <1>4

\* ... and it keeps the types.
LEMMA VTypeStream ==
  ASSUME VType, PoolInv, NEW t \in Threads, StreamStep(t)
  PROVE  VType'
<1>0. /\ thr \in [Threads -> ThrType] /\ pool \in 0 .. 3 /\ venc \in VencType /\ detected \in Formats
      /\ sleep \in {"off", "on", "stuck"} /\ thr[t].fmt \in Formats
  BY DEF VType, InputBufferCount, ThrType
<1>1. ASSUME NEW pc \in ThreadPCs, Move(t, pc) PROVE thr' \in [Threads -> ThrType]
  BY <1>0, <1>1 DEF Move, ThrType
<1>2. UNCHANGED <<ptr, mem, ctl, det, detected, source, scope, set, overlap>>
  BY StreamKeeps DEF world
<1>3. SUFFICES /\ thr' \in [Threads -> ThrType] /\ pool' \in 0 .. 3 /\ venc' \in VencType
               /\ sleep' \in {"off", "on", "stuck"}
  BY <1>2 DEF VType, InputBufferCount
<1>4. CASE StreamBegin(t) \/ StreamLeave(t) \/ StreamEnd(t) \/ StreamExit(t)
  <2>1. sleep' \in {"off", "on", "stuck"}
    BY <1>0, <1>4, AwakeFacts
       DEF StreamBegin, StreamLeave, StreamEnd, StreamExit, ensure_sleep_mode_disabled
  <2> QED BY <1>0, <1>1, <1>4, <2>1 DEF StreamBegin, StreamLeave, StreamEnd, StreamExit, ThreadPCs
<1>5. CASE StreamConfigure(t) \/ ReadHeight(t) \/ ReadRate(t)
  <2>1. \E pc \in ThreadPCs, f \in Formats : thr' = [thr EXCEPT ![t] = [pc |-> pc, fmt |-> f]]
    BY <1>0, <1>5, FieldType DEF StreamConfigure, ReadHeight, ReadRate, ThreadPCs
  <2> QED BY <1>0, <1>5, <2>1 DEF StreamConfigure, ReadHeight, ReadRate, ThrType
<1>6. CASE StreamAlloc(t)
  BY <1>0, <1>1, <1>6 DEF StreamAlloc, ThreadPCs
<1>7. ASSUME NEW n \in 0 .. InputBufferCount, StreamAbort(t, n)
      PROVE  /\ thr' \in [Threads -> ThrType] /\ pool' \in 0 .. 3 /\ venc' \in VencType
             /\ sleep' \in {"off", "on", "stuck"}
  <2>1. n \in 0 .. 3 /\ n <= pool /\ pool' = pool - n
    BY <1>7 DEF StreamAbort, InputBufferCount
  <2>2. pool' \in 0 .. 3
    BY <1>0, <2>1
  <2> QED BY <1>0, <1>1, <1>7, <2>2 DEF StreamAbort, ThreadPCs
<1>8. CASE VencStart(t)
  <2>1. AttrFor(t) \in Attrs
    <3>1. set.quality \in Qualities /\ set.codec \in Codecs
      BY DEF VType
    <3> QED BY <1>0, <3>1, AttrType DEF AttrFor
  <2>2. thr' \in [Threads -> ThrType]
    BY <1>1, <1>8 DEF VencStart, ThreadPCs
  <2>3. /\ UNCHANGED <<pool, sleep>>
        /\ \/ CreateChn(t, TRUE, "alive") \/ UNCHANGED venc
           \/ CreateChn(t, venc.running, venc.reader) \/ CreateChn(t, TRUE, "garbage")
    BY <1>8 DEF VencStart
  <2>4. venc.running \in BOOLEAN /\ venc.reader \in {"none", "alive", "dead", "garbage"}
    BY <1>0 DEF VencType
  <2>5. ASSUME NEW running \in BOOLEAN, NEW reader \in {"none", "alive", "dead", "garbage"},
               CreateChn(t, running, reader)
        PROVE  venc' \in VencType
    BY <2>1, <2>5 DEF CreateChn, VencType
  <2>6. TRUE \in BOOLEAN
    BY Zenon
  <2> QED BY <1>0, <2>2, <2>3, <2>4, <2>5, <2>6
<1>9. CASE VencStop(t)
  <2>1. venc' \in VencType
    BY <1>0, <1>9 DEF VencStop, VencType
  <2> QED BY <1>0, <1>1, <1>9, <2>1 DEF VencStop, ThreadPCs
<1>10. CASE VencDestroy(t)
  <2>1. PICK gone \in BOOLEAN :
          venc' = [venc EXCEPT !.channel = ~gone,
                               !.reader = IF @ = "garbage" THEN @ ELSE "none",
                               !.attr = IF gone THEN NoAttr ELSE @]
    BY <1>10 DEF VencDestroy
  <2>2. NoAttr \in Attrs
    BY DEF Attrs
  <2>3. venc' \in VencType
    BY <1>0, <2>1, <2>2 DEF VencType
  <2> QED BY <1>0, <1>1, <1>10, <2>3 DEF VencDestroy, ThreadPCs
<1>11. CASE StreamRelease(t)
  <2>1. pool = 0
    BY <1>11 DEF StreamRelease, PoolInv, Holding
  <2> QED BY <1>0, <1>1, <1>11, <2>1 DEF StreamRelease, ThreadPCs, InputBufferCount
<1> QED BY <1>4, <1>5, <1>6, <1>7, <1>8, <1>9, <1>10, <1>11 DEF StreamStep

\* Every step that is none of a controller or of a streaming thread.
Other ==
  \/ \E op \in Ops : RpcCall(op)
  \/ SetCodec \/ ReaderExit \/ DetectStep
  \/ \E s \in scope.sources : SourceChange(s)

\* The beginning of a call or of a restart.
LEMMA BeginFacts ==
  ASSUME VType
  PROVE  /\ \A op \in Ops : RpcCall(op) =>
              /\ ctl["rpc"].pc = "idle" /\ op \in {"start", "stop", "sleep", "quality"}
              /\ ctl'["rpc"].pc = FirstPC(op) /\ ctl'["rpc"].op = op /\ ctl'["det"] = ctl["det"]
              /\ FirstPC(op) \in {"wake", "stop", "nap", "status"}
              /\ ctl' \in [Controllers -> CtlType]
         /\ DetectStore =>
              /\ UNCHANGED set
              /\ \/ /\ det.restart
                    /\ det'.pc = "busy" /\ ~det'.restart /\ CallBegins("det")
                    /\ ctl'["det"].pc = "status" /\ ctl'["det"].op = "restart" /\ ctl'["rpc"] = ctl["rpc"]
                    /\ ctl' \in [Controllers -> CtlType]
                 \/ /\ ~det.restart
                    /\ det'.pc = "wait" /\ ~det'.restart /\ UNCHANGED <<ctl, overlap>>
<1>0. ctl \in [Controllers -> CtlType] /\ det \in DetType /\ "rpc" \in Controllers /\ "det" \in Controllers
  BY DEF VType, Controllers
<1>1. ASSUME NEW op \in Ops, RpcCall(op)
      PROVE  /\ ctl["rpc"].pc = "idle" /\ op \in {"start", "stop", "sleep", "quality"}
             /\ ctl'["rpc"].pc = FirstPC(op) /\ ctl'["rpc"].op = op /\ ctl'["det"] = ctl["det"]
             /\ FirstPC(op) \in {"wake", "stop", "nap", "status"}
             /\ ctl' \in [Controllers -> CtlType]
  <2>1. /\ ctl["rpc"] = Idle /\ op \in Ops \ {"codec"}
        /\ ctl' = [ctl EXCEPT !["rpc"] = [Idle EXCEPT !.pc = FirstPC(op), !.op = op]]
    BY <1>1 DEF RpcCall
  <2>2. FirstPC(op) \in {"wake", "stop", "nap", "status"}
    BY <2>1 DEF FirstPC, Ops
  <2>3. [Idle EXCEPT !.pc = FirstPC(op), !.op = op] \in CtlType
    BY <2>1, <2>2 DEF Idle, CtlType, CtlPCs
  <2>4. ctl' \in [Controllers -> CtlType]
    BY <1>0, <2>1, <2>3
  <2>5. /\ ctl'["rpc"] = [Idle EXCEPT !.pc = FirstPC(op), !.op = op]
        /\ ctl'["det"] = ctl["det"]
    BY <1>0, <2>1
  <2>6. ctl'["rpc"].pc = FirstPC(op) /\ ctl'["rpc"].op = op
    BY <2>5 DEF Idle
  <2> QED BY <2>1, <2>2, <2>4, <2>5, <2>6 DEF Idle, Ops
<1>2. ASSUME DetectStore
      PROVE  /\ UNCHANGED set
             /\ \/ /\ det.restart
                   /\ det'.pc = "busy" /\ ~det'.restart /\ CallBegins("det")
                   /\ ctl'["det"].pc = "status" /\ ctl'["det"].op = "restart" /\ ctl'["rpc"] = ctl["rpc"]
                   /\ ctl' \in [Controllers -> CtlType]
                \/ /\ ~det.restart
                   /\ det'.pc = "wait" /\ ~det'.restart /\ UNCHANGED <<ctl, overlap>>
  <2>1. CASE det.restart
    <3>1. /\ ctl' = [ctl EXCEPT !["det"] = [Idle EXCEPT !.pc = "status", !.op = "restart"]]
          /\ det' = [det EXCEPT !.pc = "busy", !.restart = FALSE] /\ CallBegins("det") /\ UNCHANGED set
      BY <1>2, <2>1 DEF DetectStore
    <3>2. [Idle EXCEPT !.pc = "status", !.op = "restart"] \in CtlType
      BY DEF Idle, CtlType, CtlPCs
    <3>3. /\ ctl'["det"] = [Idle EXCEPT !.pc = "status", !.op = "restart"]
          /\ ctl'["rpc"] = ctl["rpc"] /\ ctl' \in [Controllers -> CtlType]
      BY <1>0, <3>1, <3>2
    <3>4. det'.pc = "busy" /\ ~det'.restart
      BY <1>0, <3>1 DEF DetType
    <3> QED BY <2>1, <3>1, <3>3, <3>4 DEF Idle
  <2>2. CASE ~det.restart
    <3>1. det' = [det EXCEPT !.pc = "wait"] /\ UNCHANGED <<ctl, overlap, set>>
      BY <1>2, <2>2 DEF DetectStore
    <3> QED BY <1>0, <2>2, <3>1 DEF DetType
  <2> QED BY <2>1, <2>2
<1> QED BY <1>1, <1>2

\* The calls, the reader, the source and the detector keep the types.
LEMMA VTypeOther ==
  ASSUME VType, Other
  PROVE  VType'
<1> DEFINE Set == [quality : Qualities, codec : Codecs]
<1>0. /\ ctl \in [Controllers -> CtlType] /\ det \in DetType /\ detected \in Formats
      /\ source \in Signals \cup {NoSignal} /\ set \in Set /\ venc \in VencType
      /\ "rpc" \in Controllers /\ "det" \in Controllers /\ sleep \in {"off", "on", "stuck"}
      /\ \A c \in Controllers : ctl[c].pc \in {"joining", "publish"} => ctl[c].thread \in Threads
  BY DEF VType, Controllers
<1>1. SUFFICES /\ UNCHANGED <<scope, ptr, mem, thr, pool>>
               /\ ctl' \in [Controllers -> CtlType]
               /\ \A c \in Controllers : ctl'[c].pc \in {"joining", "publish"} => ctl'[c].thread \in Threads
               /\ det' \in DetType /\ detected' \in Formats
               /\ source' \in Signals \cup {NoSignal} /\ set' \in Set /\ venc' \in VencType
               /\ sleep' \in {"off", "on", "stuck"}
               /\ UNCHANGED overlap \/ \E c \in Controllers : CallBegins(c) \/ SectionBegins(c)
  BY OverlapStays DEF VType
<1> HIDE DEF Set
<1>2. ASSUME NEW op \in Ops, RpcCall(op)
      PROVE  /\ UNCHANGED <<scope, ptr, mem, thr, pool, venc, det, detected, source, sleep>>
             /\ ctl' \in [Controllers -> CtlType] /\ set' \in Set /\ CallBegins("rpc")
             /\ \A c \in Controllers : ctl'[c].pc \in {"joining", "publish"} => ctl'[c].thread \in Threads
  <2>1. /\ UNCHANGED <<scope, ptr, mem, thr, pool, venc, det, detected, source, sleep>>
        /\ UNCHANGED set \/ \E q \in Qualities : video_set_quality_factor(q)
        /\ CallBegins("rpc")
    BY <1>2 DEF RpcCall, pipe, shared, world
  <2>2. set' \in Set
    BY <1>0, <2>1 DEF video_set_quality_factor, Set
  <2> QED BY <1>0, <1>2, <2>1, <2>2, BeginFacts DEF Controllers
<1>3. CASE SetCodec
  <2>1. set' \in Set
    BY <1>0, <1>3 DEF SetCodec, video_set_codec_type, Set
  <2> QED BY <1>0, <1>3, <2>1 DEF SetCodec, pipe, shared, world
<1>4. CASE ReaderExit
  <2>1. venc' \in VencType
    BY <1>0, <1>4 DEF ReaderExit, VencType
  <2> QED BY <1>0, <1>4, <2>1 DEF ReaderExit, shared, world, param
<1>5. ASSUME NEW s \in scope.sources, SourceChange(s)
      PROVE  /\ UNCHANGED <<scope, ptr, mem, thr, pool, venc, det, detected, set, ctl, sleep, overlap>>
             /\ source' \in Signals \cup {NoSignal}
  <2>1. s \in Signals \cup {NoSignal}
    BY VideoAssumption DEF VType
  <2> QED BY <1>5, <2>1 DEF SourceChange, pipe, shared, param
<1>6. CASE DetectQuery
  <2>0. /\ UNCHANGED <<scope, ptr, mem, thr, pool, venc, source, set, ctl, overlap>>
        /\ sleep' \in {"off", "on", "stuck"}
    BY <1>6, AwakeFacts DEF DetectQuery, pipe, shared, param, ensure_sleep_mode_disabled
  <2>1. ASSUME source # NoSignal,
               det' = [pc |-> "height", fmt |-> FormatOf(source),
                       restart |-> ShouldRestart(FormatOf(source))],
               detected' = [detected EXCEPT !.size.w = source.size.w]
        PROVE  det' \in DetType /\ detected' \in Formats
    <3>1. PICK r \in BOOLEAN : r = ShouldRestart(FormatOf(source))
      BY Zenon DEF ShouldRestart
    <3>2. FormatOf(source) \in Formats
      BY <1>0, <2>1, FormatType
    <3>3. detected' = [detected EXCEPT !.size.w = FormatOf(source).size.w]
      BY <2>1 DEF FormatOf
    <3>4. det' = [pc |-> "height", fmt |-> FormatOf(source), restart |-> r]
      BY <2>1, <3>1
    <3>5. det' \in DetType
      BY <3>2, <3>4 DEF DetType
    <3> QED BY <1>0, <3>2, <3>3, <3>5, FieldType
  <2>2. ASSUME UNCHANGED detected, UNCHANGED det \/ det' = [det EXCEPT !.pc = "wait"]
        PROVE  det' \in DetType /\ detected' \in Formats
    BY <1>0, <2>2 DEF DetType
  <2>3. det' \in DetType /\ detected' \in Formats
    BY <1>6, <2>1, <2>2 DEF DetectQuery
  <2> QED BY <1>0, <2>0, <2>3
<1>7. CASE DetectHeight
  <2>1. /\ UNCHANGED <<scope, ptr, mem, thr, pool, venc, source, set, ctl, overlap, sleep>>
        /\ det' = [det EXCEPT !.pc = "store"]
        /\ detected' = [detected EXCEPT !.size.h = det.fmt.size.h]
    BY <1>7 DEF DetectHeight, pipe, shared, param
  <2>2. det' \in DetType /\ det.fmt \in Formats
    BY <1>0, <2>1 DEF DetType
  <2>3. detected' \in Formats
    BY <1>0, <2>1, <2>2, FieldType
  <2> QED BY <1>0, <2>1, <2>2, <2>3
<1>8. CASE DetectStore
  <2>0. UNCHANGED <<scope, ptr, mem, thr, pool, venc, source, set, sleep>>
    BY <1>8 DEF DetectStore, pipe, shared
  <2>1. detected' = [detected EXCEPT !.fps = det.fmt.fps]
    BY <1>8 DEF DetectStore
  <2>2. det.fmt \in Formats
    BY <1>0 DEF DetType
  <2>3. detected' \in Formats
    BY <1>0, <2>1, <2>2, FieldType
  <2>4. \/ det' = [det EXCEPT !.pc = "busy", !.restart = FALSE] \/ det' = [det EXCEPT !.pc = "wait"]
    BY <1>8 DEF DetectStore
  <2>5. det' \in DetType
    BY <1>0, <2>4 DEF DetType
  <2>6. /\ ctl' \in [Controllers -> CtlType]
        /\ \A c \in Controllers : ctl'[c].pc \in {"joining", "publish"} => ctl'[c].thread \in Threads
        /\ UNCHANGED overlap \/ CallBegins("det")
    BY <1>0, <1>8, BeginFacts DEF Controllers
  <2> QED BY <1>0, <2>0, <2>3, <2>5, <2>6
<1>9. CASE DetectDone \/ DetectEvent
  <2>1. \E pc \in {"query", "wait", "dead"} : det' = [det EXCEPT !.pc = pc]
    BY <1>9 DEF DetectDone, DetectEvent
  <2>2. det' \in DetType
    BY <1>0, <2>1 DEF DetType
  <2> QED BY <1>0, <1>9, <2>2 DEF DetectDone, DetectEvent, pipe, shared, param
<1> QED BY <1>0, <1>2, <1>3, <1>4, <1>5, <1>6, <1>7, <1>8, <1>9 DEF Other, DetectStep

----------------------------------------------------------------------------
(* The pool and the encoder. *)

\* A controller creates, joins and frees threads that hold nothing.
LEMMA PipeControl ==
  ASSUME VType, PoolInv, VencInv, NEW c \in Controllers, ControlStep(c)
  PROVE  /\ PoolInv' /\ VencInv'
         /\ \A t \in Threads : \/ thr'[t] = thr[t]
                               \/ /\ thr[t].pc \in {"none", "exited", "joined"}
                                  /\ thr'[t].pc \in {"none", "new", "joined"}
<1>0. thr \in [Threads -> ThrType] /\ UNCHANGED <<pool, venc>> /\ (aborted => aborted')
  <2>1. aborted => aborted'
    BY DEF ControlStep, Wake, Nap, NapWait, NapWrite, RestartStatus, StopBegin, StopUnflag, StopWait,
       StopJoin, StopJoined, StopFree, StopNull, RestartWait, StartBegin, StartCreate, StartPublish, pipe
  <2> QED BY <2>1, ControlKeeps DEF VType
<1>1. \A t \in Threads : \/ thr'[t] = thr[t]
                         \/ /\ thr[t].pc \in {"none", "exited", "joined"}
                            /\ thr'[t].pc \in {"none", "new", "joined"}
  <2>1. CASE UNCHANGED thr
    BY <2>1
  <2>2. CASE StopJoined(c)
    <3>1. PICK pc \in {"joined", "none"} : thr' = [thr EXCEPT ![ctl[c].thread].pc = pc]
      BY <2>2 DEF StopJoined
    <3>2. thr[ctl[c].thread].pc = "exited" /\ ctl[c].thread \in Threads
      BY <2>2 DEF StopJoined, VType
    <3> QED BY <1>0, <3>1, <3>2 DEF ThrType
  <2>3. CASE StopFree(c)
    BY <1>0, <2>1, <2>3 DEF StopFree, Crash, NoStream
  <2>4. CASE StartCreate(c)
    <3>1. CASE UNCHANGED thr
      BY <2>1, <3>1
    <3>2. ASSUME NEW t \in Threads, thr[t].pc = "none", thr' = [thr EXCEPT ![t].pc = "new"]
          PROVE  /\ thr'[t].pc = "new" /\ \A u \in Threads : u = t \/ thr'[u] = thr[u]
      BY <1>0, <3>2 DEF ThrType
    <3> QED BY <2>4, <3>1, <3>2 DEF StartCreate
  <2> QED BY <2>1, <2>2, <2>3, <2>4
          DEF ControlStep, Wake, Nap, NapWait, NapWrite, RestartStatus, StopBegin, StopUnflag, StopWait,
              StopJoin, StopNull, RestartWait, StartBegin, StartPublish, pipe, Crash
<1>2. PoolInv'
  BY <1>0, <1>1 DEF PoolInv, Holding
<1>3. VencInv'
  BY <1>0, <1>1 DEF VencInv
<1> QED BY <1>1, <1>2, <1>3

\* A step of a thread that leaves the others alone.
LEMMA StreamMoves ==
  ASSUME VType, NEW t \in Threads, StreamStep(t)
  PROVE  /\ thr[t].pc \notin {"none", "exited", "joined"} /\ thr'[t].pc \notin {"none", "new", "joined"}
         /\ \A u \in Threads : u = t \/ thr'[u] = thr[u]
<1>1. CASE StreamConfigure(t) \/ ReadHeight(t) \/ ReadRate(t)
  BY <1>1, ReadFacts
<1>2. ASSUME NEW pc \in ThreadPCs \ {"none", "new", "joined"}, Move(t, pc)
      PROVE  thr'[t].pc \notin {"none", "new", "joined"} /\ \A u \in Threads : u = t \/ thr'[u] = thr[u]
  BY <1>2, MoveFacts
<1>3. CASE StreamBegin(t) \/ StreamLeave(t) \/ StreamAlloc(t) \/ \E n \in 0..InputBufferCount : StreamAbort(t, n)
  BY <1>2, <1>3 DEF StreamBegin, StreamLeave, StreamAlloc, StreamAbort, ThreadPCs
<1>4. CASE VencStart(t) \/ StreamEnd(t) \/ VencStop(t) \/ VencDestroy(t) \/ StreamRelease(t) \/ StreamExit(t)
  BY <1>2, <1>4 DEF VencStart, StreamEnd, VencStop, VencDestroy, StreamRelease, StreamExit, ThreadPCs
<1> QED BY <1>1, <1>3, <1>4 DEF StreamStep

\* A streaming thread takes all blocks or gives up, and gives them back when it
\* has put the encoder down.
LEMMA PipeStream ==
  ASSUME VType, PoolInv, VencInv, NEW t \in Threads, StreamStep(t)
  PROVE  PoolInv' /\ VencInv'
<1>0. /\ thr[t].pc \notin {"none", "exited", "joined"}
      /\ \A u \in Threads : u = t \/ thr'[u] = thr[u]
  BY StreamMoves
<1>1. pool \in 0 .. 3 /\ venc \in VencType /\ set.quality \in Qualities /\ set.codec \in Codecs
  BY DEF VType, InputBufferCount
\* A step within or without what the blocks are held for, that leaves the encoder alone.
<1>2. ASSUME UNCHANGED <<venc, pool>>, aborted => aborted',
             thr[t].pc \in Holding <=> thr'[t].pc \in Holding,
             thr'[t].pc \notin {"run", "joinreader"}
      PROVE  PoolInv' /\ VencInv'
  <2>1. PoolInv'
    BY <1>0, <1>2 DEF PoolInv
  <2>2. VencInv'
    BY <1>0, <1>2 DEF VencInv
  <2> QED BY <2>1, <2>2
<1>3. CASE StreamBegin(t) \/ StreamLeave(t) \/ StreamEnd(t) \/ StreamExit(t)
  <2>1. /\ UNCHANGED <<venc, pool, aborted>>
        /\ thr[t].pc \in Holding <=> thr'[t].pc \in Holding
        /\ thr'[t].pc \notin {"run", "joinreader"}
    BY <1>3, MoveFacts DEF StreamBegin, StreamLeave, StreamEnd, StreamExit, Holding
  <2> QED BY <1>2, <2>1
<1>4. CASE StreamConfigure(t) \/ ReadHeight(t) \/ ReadRate(t)
  <2>1. /\ UNCHANGED <<venc, pool, aborted>>
        /\ thr[t].pc \in Holding <=> thr'[t].pc \in Holding
        /\ thr'[t].pc \notin {"run", "joinreader"}
    BY <1>4, ReadFacts DEF Holding
  <2> QED BY <1>2, <2>1
<1>5. CASE StreamAlloc(t)
  <2>1. /\ thr'[t].pc = "venc" /\ pool = 3 /\ pool' = 0 /\ UNCHANGED <<venc, aborted>>
        /\ \A u \in Threads : thr[u].pc \notin Holding
    BY <1>5, MoveFacts DEF StreamAlloc, PoolInv, InputBufferCount
  <2>2. PoolInv'
    BY <1>0, <2>1 DEF PoolInv, Holding
  <2>3. VencInv'
    BY <1>0, <2>1 DEF VencInv
  <2> QED BY <2>2, <2>3
<1>6. ASSUME NEW n \in 0 .. InputBufferCount, StreamAbort(t, n)
      PROVE  PoolInv' /\ VencInv'
  <2>1. /\ thr[t].pc = "alloc" /\ thr'[t].pc = "exited" /\ aborted' /\ UNCHANGED venc
        /\ n \in 0 .. 3 /\ n <= pool /\ pool' = pool - n
    BY <1>6, MoveFacts DEF StreamAbort, InputBufferCount
  <2>2. pool = 0 => pool' = 0
    BY <2>1
  <2>3. PoolInv'
    BY <1>0, <2>1, <2>2 DEF PoolInv, Holding
  <2>4. VencInv'
    BY <1>0, <2>1 DEF VencInv
  <2> QED BY <2>3, <2>4
<1>7. CASE VencStart(t)
  <2>1. /\ thr[t].pc = "venc" /\ UNCHANGED <<pool, aborted>>
        /\ \A u \in Threads : u = t \/ thr'[u].pc \notin Holding
    BY <1>0, <1>7 DEF VencStart, PoolInv, Holding
  <2>2. \/ CreateChn(t, TRUE, "alive") /\ Move(t, "run")
        \/ /\ Move(t, "cleanup")
           /\ \/ UNCHANGED venc
              \/ CreateChn(t, venc.running, venc.reader) \/ CreateChn(t, TRUE, "garbage")
    BY <1>7 DEF VencStart
  <2>3. PoolInv'
    BY <1>0, <2>1, <2>2, MoveFacts DEF PoolInv, Holding
  <2>4. VencInv'
    <3>1. CASE CreateChn(t, TRUE, "alive") /\ Move(t, "run")
      <4>1. thr'[t].pc = "run" /\ thr'[t].fmt = thr[t].fmt /\ venc'.channel /\ venc'.attr = AttrFor(t)
        BY <3>1, MoveFacts DEF CreateChn
      <4> QED BY <1>1, <2>1, <4>1 DEF VencInv, AttrFor, Holding
    <3>2. CASE Move(t, "cleanup") /\ (UNCHANGED venc \/ CreateChn(t, venc.running, venc.reader)
                                      \/ CreateChn(t, TRUE, "garbage"))
      <4>1. thr'[t].pc = "cleanup" /\ (UNCHANGED venc \/ venc'.channel)
        BY <3>2, MoveFacts DEF CreateChn
      <4> QED BY <2>1, <4>1 DEF VencInv, Holding
    <3> QED BY <2>2, <3>1, <3>2
  <2> QED BY <2>3, <2>4
<1>8. CASE VencStop(t)
  <2>1. /\ thr[t].pc = "cleanup" /\ UNCHANGED <<pool, aborted>>
        /\ venc'.reader = venc.reader /\ venc'.channel = venc.channel /\ ~venc'.running
        /\ \A u \in Threads : u = t \/ thr'[u].pc \notin Holding
    BY <1>0, <1>1, <1>8 DEF VencStop, PoolInv, Holding, VencType
  <2>2. thr'[t].pc \in {"joinreader", "release"}
    BY <1>8, MoveFacts DEF VencStop
  <2>3. PoolInv'
    BY <1>0, <2>1, <2>2 DEF PoolInv, Holding
  <2>4. VencInv'
    BY <2>1, <2>2 DEF VencInv, Holding
  <2> QED BY <2>3, <2>4
<1>9. CASE VencDestroy(t)
  <2>1. /\ thr[t].pc = "joinreader" /\ thr'[t].pc = "release" /\ UNCHANGED <<pool, aborted>>
        /\ \A u \in Threads : u = t \/ thr'[u].pc \notin Holding
    BY <1>0, <1>9, MoveFacts DEF VencDestroy, PoolInv, Holding
  <2>2. venc'.reader # "alive"
    <3>1. venc.reader # "alive"
      BY <1>9 DEF VencDestroy
    <3>2. \E gone \in BOOLEAN :
            venc' = [venc EXCEPT !.channel = ~gone,
                                 !.reader = IF @ = "garbage" THEN @ ELSE "none",
                                 !.attr = IF gone THEN NoAttr ELSE @]
      BY <1>9 DEF VencDestroy
    <3> QED BY <1>1, <3>1, <3>2 DEF VencType
  <2>3. PoolInv'
    BY <1>0, <2>1 DEF PoolInv, Holding
  <2>4. VencInv'
    BY <2>1, <2>2 DEF VencInv, Holding
  <2> QED BY <2>3, <2>4
<1>10. CASE StreamRelease(t)
  <2>1. /\ thr[t].pc = "release" /\ thr'[t].pc = "loop" /\ pool = 0 /\ pool' = pool + 3
        /\ UNCHANGED <<venc, aborted>>
        /\ \A u \in Threads : thr'[u].pc \notin Holding
    BY <1>0, <1>10, MoveFacts DEF StreamRelease, PoolInv, Holding, InputBufferCount
  <2>2. pool' = 3
    BY <2>1
  <2>3. PoolInv'
    BY <2>1, <2>2 DEF PoolInv, InputBufferCount
  <2>4. VencInv'
    BY <2>1 DEF VencInv, Holding
  <2> QED BY <2>3, <2>4
<1> QED BY <1>3, <1>4, <1>5, <1>6, <1>7, <1>8, <1>9, <1>10 DEF StreamStep

\* The other steps leave the threads alone, and but for the reader's end the
\* encoder too.
LEMMA PipeOther ==
  ASSUME VType, PoolInv, VencInv, Other
  PROVE  PoolInv' /\ VencInv'
<1>1. CASE ReaderExit
  <2>1. /\ UNCHANGED <<thr, pool, aborted>> /\ venc'.reader = "dead"
        /\ venc'.running = venc.running /\ venc'.attr = venc.attr
    BY <1>1 DEF ReaderExit, VType, VencType
  <2> QED BY <2>1 DEF PoolInv, VencInv
<1>2. CASE UNCHANGED pipe
  BY <1>2 DEF PoolInv, VencInv, pipe
<1> QED BY <1>1, <1>2 DEF Other, RpcCall, SetCodec, SourceChange, DetectStep, DetectQuery, DetectHeight,
           DetectStore, DetectDone, DetectEvent

----------------------------------------------------------------------------
(* The controllers. *)

\* A statement outside the sections touches nothing that the use of the thread
\* handle rests on.
LEMMA PtrKept ==
  ASSUME PtrInv, UNCHANGED <<thr, aborted, shared>>,
         \A d \in Controllers : \/ ctl'[d] = ctl[d]
                                \/ ctl[d].pc \notin Section /\ ctl'[d].pc \notin Section
  PROVE  PtrInv'
<1>1. RegionInv'
  BY DEF PtrInv, RegionInv
<1>2. HandleInv'
  BY DEF PtrInv, HandleInv, Section, StopSection, StartSection, shared
<1>3. FlagInv'
  BY DEF PtrInv, FlagInv, Section, StopSection, StartSection, Alive, shared
<1> QED BY <1>1, <1>2, <1>3 DEF PtrInv

\* Every statement of the control functions preserves the invariant.
LEMMA ControlInv ==
  ASSUME VideoInv, ~crashed, NEW c \in Controllers, ControlStep(c)
  PROVE  CallsInv'
<1>0. /\ VType /\ SidesInv /\ Controllers = {"rpc", "det"}
      /\ overlap # "sections" => RegionInv /\ HandleInv /\ FlagInv /\ PtrInv /\ UpInv
      /\ overlap = "none" => /\ OneCall /\ WaitInv /\ DownInv /\ SleepInv
                             /\ SettingsInv /\ DetInv
  BY DEF VideoInv, CallsInv, PtrInv, CallInv, Controllers
<1>1. /\ overlap' # "sections" => overlap # "sections"
      /\ overlap' = "none" => overlap = "none"
      /\ UNCHANGED <<det, detected, signal, source, event, want, set>>
  BY <1>0, ControlKeeps, OverlapStays
\* Where the others are.
<1>2. /\ overlap # "sections" /\ ctl[c].pc \in Section =>
           \A d \in Controllers : d = c \/ ctl[d].pc \notin Section
      /\ overlap = "none" /\ ctl[c].pc # "idle" => \A d \in Controllers : d = c \/ ctl[d].pc = "idle"
  BY <1>0 DEF RegionInv, OneCall
<1>3. CASE Wake(c)
  <2>1. /\ ctl[c].pc = "wake"
        /\ At(c, "start") /\ sleep' # "on"
        /\ UNCHANGED <<pipe, shared, crashed>>
        /\ ~crashed'
    BY <1>0, <1>3, GotoFacts, AwakeFacts DEF Wake
  <2>2. SidesInv'
    BY <1>0, <1>1, <2>1 DEF SidesInv, At, Back, Left, Controllers, StopSection
  <2>3. ASSUME overlap' # "sections" PROVE PtrInv'
    BY <1>0, <1>1, <2>1, <2>3, PtrKept
       DEF At, Back, pipe, shared, Section, StopSection, StartSection
  <2>4. ASSUME overlap' = "none" PROVE CallInv'
    <3>1. \A d \in Controllers : d = c \/ ctl[d].pc = "idle"
      BY <1>1, <1>2, <2>1, <2>4
    <3>2. OneCall'
      BY <1>0, <1>1, <2>1, <2>4, <3>1
         DEF OneCall, At, Back, Left
    <3>3. WaitInv'
      BY <1>0, <1>1, <2>1, <2>4, <3>1
         DEF WaitInv, HandleInv, FlagInv, SidesInv, Section, StopSection, StartSection, At,
             Back, Left, pipe, shared
    <3>4. DownInv'
      BY <1>0, <1>1, <2>1, <2>4, <3>1
         DEF DownInv, WaitInv, SidesInv, HandleInv, FlagInv, Alive, Section, StopSection,
             StartSection, At, Back, Left, pipe, shared
    <3>5. SleepInv'
      BY <1>0, <1>1, <2>1, <2>4, <3>1
         DEF SleepInv, WaitInv, SidesInv, HandleInv, FlagInv, Section, StopSection,
             StartSection, At, Back, Left, pipe, shared
    <3>6. SettingsInv'
      BY <1>0, <1>1, <2>1, <2>4, <3>1
         DEF SettingsInv, HandleInv, FlagInv, Stopping, Section, StopSection, StartSection,
             At, Back, Left, pipe, shared
    <3>7. DetInv'
      BY <1>0, <1>1, <2>1, <2>4, <3>1
         DEF DetInv, HandleInv, FlagInv, RestartDue, Stopping, Section, StopSection,
             StartSection, At, Back, Left, pipe, shared
    <3> QED BY <3>2, <3>3, <3>4, <3>5, <3>6, <3>7 DEF CallInv
  <2>5. ASSUME overlap' # "sections" PROVE UpInv'
    BY <1>0, <1>1, <2>1, <2>5
       DEF UpInv, SidesInv, HandleInv, FlagInv, Alive, Section, StopSection, StartSection, At,
           Back, Left, VType, pipe, shared
  <2> QED BY <2>1, <2>2, <2>3, <2>4, <2>5 DEF CallsInv
<1>4. CASE Nap(c)
  <2>1. /\ ctl[c].pc = "nap" /\ UNCHANGED sleep
        /\ \/ flag /\ At(c, "stop")
           \/ ~flag /\ ~stopped /\ At(c, "napwait")
           \/ ~flag /\ stopped /\ At(c, "napwrite")
        /\ UNCHANGED <<pipe, shared, crashed>>
        /\ ~crashed'
    BY <1>0, <1>4, GotoFacts DEF Nap, Status
  <2>2. SidesInv'
    BY <1>0, <1>1, <2>1 DEF SidesInv, At, Back, Left, Controllers, StopSection
  <2>3. ASSUME overlap' # "sections" PROVE PtrInv'
    BY <1>0, <1>1, <2>1, <2>3, PtrKept
       DEF At, Back, pipe, shared, Section, StopSection, StartSection
  <2>4. ASSUME overlap' = "none" PROVE CallInv'
    <3>1. \A d \in Controllers : d = c \/ ctl[d].pc = "idle"
      BY <1>1, <1>2, <2>1, <2>4
    <3>2. OneCall'
      BY <1>0, <1>1, <2>1, <2>4, <3>1
         DEF OneCall, At, Back, Left
    <3>3. WaitInv'
      BY <1>0, <1>1, <2>1, <2>4, <3>1
         DEF WaitInv, HandleInv, FlagInv, SidesInv, Section, StopSection, StartSection, At,
             Back, Left, pipe, shared
    <3>4. DownInv'
      BY <1>0, <1>1, <2>1, <2>4, <3>1
         DEF DownInv, WaitInv, SidesInv, HandleInv, FlagInv, Alive, Section, StopSection,
             StartSection, At, Back, Left, pipe, shared
    <3>5. SleepInv'
      BY <1>0, <1>1, <2>1, <2>4, <3>1
         DEF SleepInv, WaitInv, SidesInv, HandleInv, FlagInv, Section, StopSection,
             StartSection, At, Back, Left, pipe, shared
    <3>6. SettingsInv'
      BY <1>0, <1>1, <2>1, <2>4, <3>1
         DEF SettingsInv, HandleInv, FlagInv, Stopping, Section, StopSection, StartSection,
             At, Back, Left, pipe, shared
    <3>7. DetInv'
      BY <1>0, <1>1, <2>1, <2>4, <3>1
         DEF DetInv, HandleInv, FlagInv, RestartDue, Stopping, Section, StopSection,
             StartSection, At, Back, Left, pipe, shared
    <3> QED BY <3>2, <3>3, <3>4, <3>5, <3>6, <3>7 DEF CallInv
  <2>5. ASSUME overlap' # "sections" PROVE UpInv'
    BY <1>0, <1>1, <2>1, <2>5
       DEF UpInv, SidesInv, HandleInv, FlagInv, Alive, Section, StopSection, StartSection, At,
           Back, Left, VType, pipe, shared
  <2> QED BY <2>1, <2>2, <2>3, <2>4, <2>5 DEF CallsInv
<1>5. CASE NapWait(c)
  <2>1. /\ ctl[c].pc = "napwait" /\ UNCHANGED sleep
        /\ (stopped /\ At(c, "napwrite")) \/ Back(c)
        /\ UNCHANGED <<pipe, shared, crashed>>
        /\ ~crashed'
    BY <1>0, <1>5, GotoFacts, ReturnFacts DEF NapWait, Status
  <2>2. SidesInv'
    BY <1>0, <1>1, <2>1 DEF SidesInv, At, Back, Left, Controllers, StopSection
  <2>3. ASSUME overlap' # "sections" PROVE PtrInv'
    BY <1>0, <1>1, <2>1, <2>3, PtrKept
       DEF At, Back, pipe, shared, Section, StopSection, StartSection
  <2>4. ASSUME overlap' = "none" PROVE CallInv'
    <3>1. \A d \in Controllers : d = c \/ ctl[d].pc = "idle"
      BY <1>1, <1>2, <2>1, <2>4
    <3>2. OneCall'
      BY <1>0, <1>1, <2>1, <2>4, <3>1
         DEF OneCall, At, Back, Left
    <3>3. WaitInv'
      BY <1>0, <1>1, <2>1, <2>4, <3>1
         DEF WaitInv, HandleInv, FlagInv, SidesInv, Section, StopSection, StartSection, At,
             Back, Left, pipe, shared
    <3>4. DownInv'
      BY <1>0, <1>1, <2>1, <2>4, <3>1
         DEF DownInv, WaitInv, SidesInv, HandleInv, FlagInv, Alive, Section, StopSection,
             StartSection, At, Back, Left, pipe, shared
    <3>5. SleepInv'
      BY <1>0, <1>1, <2>1, <2>4, <3>1
         DEF SleepInv, WaitInv, SidesInv, HandleInv, FlagInv, Section, StopSection,
             StartSection, At, Back, Left, pipe, shared
    <3>6. SettingsInv'
      BY <1>0, <1>1, <2>1, <2>4, <3>1
         DEF SettingsInv, HandleInv, FlagInv, Stopping, Section, StopSection, StartSection,
             At, Back, Left, pipe, shared
    <3>7. DetInv'
      BY <1>0, <1>1, <2>1, <2>4, <3>1
         DEF DetInv, HandleInv, FlagInv, RestartDue, Stopping, Section, StopSection,
             StartSection, At, Back, Left, pipe, shared
    <3> QED BY <3>2, <3>3, <3>4, <3>5, <3>6, <3>7 DEF CallInv
  <2>5. ASSUME overlap' # "sections" PROVE UpInv'
    BY <1>0, <1>1, <2>1, <2>5
       DEF UpInv, SidesInv, HandleInv, FlagInv, Alive, Section, StopSection, StartSection, At,
           Back, Left, VType, pipe, shared
  <2> QED BY <2>1, <2>2, <2>3, <2>4, <2>5 DEF CallsInv
<1>6. CASE NapWrite(c)
  <2>1. /\ ctl[c].pc = "napwrite" /\ Back(c)
        /\ UNCHANGED <<pipe, shared, crashed>>
        /\ ~crashed'
    BY <1>0, <1>6, ReturnFacts DEF NapWrite
  <2>2. SidesInv'
    BY <1>0, <1>1, <2>1 DEF SidesInv, At, Back, Left, Controllers, StopSection
  <2>3. ASSUME overlap' # "sections" PROVE PtrInv'
    BY <1>0, <1>1, <2>1, <2>3, PtrKept
       DEF At, Back, pipe, shared, Section, StopSection, StartSection
  <2>4. ASSUME overlap' = "none" PROVE CallInv'
    <3>1. \A d \in Controllers : d = c \/ ctl[d].pc = "idle"
      BY <1>1, <1>2, <2>1, <2>4
    <3>2. OneCall'
      BY <1>0, <1>1, <2>1, <2>4, <3>1
         DEF OneCall, At, Back, Left
    <3>3. WaitInv'
      BY <1>0, <1>1, <2>1, <2>4, <3>1
         DEF WaitInv, HandleInv, FlagInv, SidesInv, Section, StopSection, StartSection, At,
             Back, Left, pipe, shared
    <3>4. DownInv'
      BY <1>0, <1>1, <2>1, <2>4, <3>1
         DEF DownInv, WaitInv, SidesInv, HandleInv, FlagInv, Alive, Section, StopSection,
             StartSection, At, Back, Left, pipe, shared
    <3>5. SleepInv'
      BY <1>0, <1>1, <2>1, <2>4, <3>1
         DEF SleepInv, WaitInv, SidesInv, HandleInv, FlagInv, Section, StopSection,
             StartSection, At, Back, Left, pipe, shared
    <3>6. SettingsInv'
      BY <1>0, <1>1, <2>1, <2>4, <3>1
         DEF SettingsInv, HandleInv, FlagInv, Stopping, Section, StopSection, StartSection,
             At, Back, Left, pipe, shared
    <3>7. DetInv'
      BY <1>0, <1>1, <2>1, <2>4, <3>1
         DEF DetInv, HandleInv, FlagInv, RestartDue, Stopping, Section, StopSection,
             StartSection, At, Back, Left, pipe, shared
    <3> QED BY <3>2, <3>3, <3>4, <3>5, <3>6, <3>7 DEF CallInv
  <2>5. ASSUME overlap' # "sections" PROVE UpInv'
    BY <1>0, <1>1, <2>1, <2>5
       DEF UpInv, SidesInv, HandleInv, FlagInv, Alive, Section, StopSection, StartSection, At,
           Back, Left, VType, pipe, shared
  <2> QED BY <2>1, <2>2, <2>3, <2>4, <2>5 DEF CallsInv
<1>7. CASE RestartStatus(c)
  <2>1. /\ ctl[c].pc = "status" /\ UNCHANGED sleep
        /\ (~flag /\ stopped /\ Back(c)) \/ ((flag \/ ~stopped) /\ At(c, "stop"))
        /\ UNCHANGED <<pipe, shared, crashed>>
        /\ ~crashed'
    BY <1>0, <1>7, GotoFacts, ReturnFacts DEF RestartStatus, Status
  <2>2. SidesInv'
    BY <1>0, <1>1, <2>1 DEF SidesInv, At, Back, Left, Controllers, StopSection
  <2>3. ASSUME overlap' # "sections" PROVE PtrInv'
    BY <1>0, <1>1, <2>1, <2>3, PtrKept
       DEF At, Back, pipe, shared, Section, StopSection, StartSection
  <2>4. ASSUME overlap' = "none" PROVE CallInv'
    <3>1. \A d \in Controllers : d = c \/ ctl[d].pc = "idle"
      BY <1>1, <1>2, <2>1, <2>4
    <3>2. OneCall'
      BY <1>0, <1>1, <2>1, <2>4, <3>1
         DEF OneCall, At, Back, Left
    <3>3. WaitInv'
      BY <1>0, <1>1, <2>1, <2>4, <3>1
         DEF WaitInv, HandleInv, FlagInv, SidesInv, Section, StopSection, StartSection, At,
             Back, Left, pipe, shared
    <3>4. DownInv'
      BY <1>0, <1>1, <2>1, <2>4, <3>1
         DEF DownInv, WaitInv, SidesInv, HandleInv, FlagInv, Alive, Section, StopSection,
             StartSection, At, Back, Left, pipe, shared
    <3>5. SleepInv'
      BY <1>0, <1>1, <2>1, <2>4, <3>1
         DEF SleepInv, WaitInv, SidesInv, HandleInv, FlagInv, Section, StopSection,
             StartSection, At, Back, Left, pipe, shared
    <3>6. SettingsInv'
      BY <1>0, <1>1, <2>1, <2>4, <3>1
         DEF SettingsInv, HandleInv, FlagInv, Stopping, Section, StopSection, StartSection,
             At, Back, Left, pipe, shared
    <3>7. DetInv'
      BY <1>0, <1>1, <2>1, <2>4, <3>1
         DEF DetInv, HandleInv, FlagInv, RestartDue, Stopping, Section, StopSection,
             StartSection, At, Back, Left, pipe, shared
    <3> QED BY <3>2, <3>3, <3>4, <3>5, <3>6, <3>7 DEF CallInv
  <2>5. ASSUME overlap' # "sections" PROVE UpInv'
    BY <1>0, <1>1, <2>1, <2>5
       DEF UpInv, SidesInv, HandleInv, FlagInv, Alive, Section, StopSection, StartSection, At,
           Back, Left, VType, pipe, shared
  <2> QED BY <2>1, <2>2, <2>3, <2>4, <2>5 DEF CallsInv
<1>8. CASE RestartWait(c)
  <2>1. /\ ctl[c].pc = "rewait" /\ UNCHANGED sleep
        /\ (stopped /\ At(c, "start")) \/ (~stopped /\ Back(c))
        /\ UNCHANGED <<pipe, shared, crashed>>
        /\ ~crashed'
    BY <1>0, <1>8, GotoFacts, ReturnFacts DEF RestartWait
  <2>2. SidesInv'
    BY <1>0, <1>1, <2>1 DEF SidesInv, At, Back, Left, Controllers, StopSection
  <2>3. ASSUME overlap' # "sections" PROVE PtrInv'
    BY <1>0, <1>1, <2>1, <2>3, PtrKept
       DEF At, Back, pipe, shared, Section, StopSection, StartSection
  <2>4. ASSUME overlap' = "none" PROVE CallInv'
    <3>1. \A d \in Controllers : d = c \/ ctl[d].pc = "idle"
      BY <1>1, <1>2, <2>1, <2>4
    <3>2. OneCall'
      BY <1>0, <1>1, <2>1, <2>4, <3>1
         DEF OneCall, At, Back, Left
    <3>3. WaitInv'
      BY <1>0, <1>1, <2>1, <2>4, <3>1
         DEF WaitInv, HandleInv, FlagInv, SidesInv, Section, StopSection, StartSection, At,
             Back, Left, pipe, shared
    <3>4. DownInv'
      BY <1>0, <1>1, <2>1, <2>4, <3>1
         DEF DownInv, WaitInv, SidesInv, HandleInv, FlagInv, Alive, Section, StopSection,
             StartSection, At, Back, Left, pipe, shared
    <3>5. SleepInv'
      BY <1>0, <1>1, <2>1, <2>4, <3>1
         DEF SleepInv, WaitInv, SidesInv, HandleInv, FlagInv, Section, StopSection,
             StartSection, At, Back, Left, pipe, shared
    <3>6. SettingsInv'
      BY <1>0, <1>1, <2>1, <2>4, <3>1
         DEF SettingsInv, HandleInv, FlagInv, Stopping, Section, StopSection, StartSection,
             At, Back, Left, pipe, shared
    <3>7. DetInv'
      BY <1>0, <1>1, <2>1, <2>4, <3>1
         DEF DetInv, HandleInv, FlagInv, RestartDue, Stopping, Section, StopSection,
             StartSection, At, Back, Left, pipe, shared
    <3> QED BY <3>2, <3>3, <3>4, <3>5, <3>6, <3>7 DEF CallInv
  <2>5. ASSUME overlap' # "sections" PROVE UpInv'
    BY <1>0, <1>1, <2>1, <2>5
       DEF UpInv, SidesInv, HandleInv, FlagInv, Alive, Section, StopSection, StartSection, At,
           Back, Left, VType, pipe, shared
  <2> QED BY <2>1, <2>2, <2>3, <2>4, <2>5 DEF CallsInv
<1>9. CASE StopBegin(c)
  <2>1. /\ ctl[c].pc = "stop" /\ UNCHANGED flag
        /\ \/ ptr # NoThread /\ At(c, "unflag") /\ SectionBegins(c)
           \/ ptr = NoThread /\ Left(c)
        /\ UNCHANGED <<pipe, stopped, ptr, mem, sleep, crashed>> /\ ~crashed'
    BY <1>0, <1>9, GotoFacts, AfterStopFacts DEF StopBegin, shared
  <2>2. SidesInv'
    BY <1>0, <1>1, <2>1 DEF SidesInv, At, Back, Left, Controllers, StopSection
  <2>3. ASSUME overlap' # "sections" PROVE PtrInv'
    <3>1. CASE ptr = NoThread
      BY <1>0, <1>1, <2>1, <2>3, <3>1, PtrKept
         DEF At, Back, Left, pipe, shared, Section, StopSection, StartSection
    <3>2. CASE ~(ptr = NoThread)
      <4>1. \A d \in Controllers : d = c \/ ctl[d].pc \notin Section
        BY <2>1, <2>3, <3>2 DEF SectionBegins
      <4>2. RegionInv'
        BY <1>0, <2>1, <3>2, <4>1 DEF RegionInv, At, Section, StopSection, StartSection
      <4>3. HandleInv'
        BY <1>0, <1>1, <2>1, <2>3, <3>2, <4>1
           DEF HandleInv, At, pipe, Section, StopSection, StartSection
      <4>4. FlagInv'
        BY <1>0, <1>1, <2>1, <2>3, <3>2, <4>1
           DEF FlagInv, HandleInv, Alive, At, pipe, Section, StopSection, StartSection
      <4> QED BY <4>2, <4>3, <4>4 DEF PtrInv
    <3> QED BY <3>1, <3>2
  <2>4. ASSUME overlap' = "none" PROVE CallInv'
    <3>1. \A d \in Controllers : d = c \/ ctl[d].pc = "idle"
      BY <1>1, <1>2, <2>1, <2>4
    <3>2. OneCall'
      BY <1>0, <1>1, <2>1, <2>4, <3>1
         DEF OneCall, At, Back, Left
    <3>3. WaitInv'
      BY <1>0, <1>1, <2>1, <2>4, <3>1
         DEF WaitInv, HandleInv, FlagInv, SidesInv, Section, StopSection, StartSection, At,
             Back, Left, pipe, shared
    <3>4. DownInv'
      BY <1>0, <1>1, <2>1, <2>4, <3>1
         DEF DownInv, WaitInv, SidesInv, HandleInv, FlagInv, Alive, Section, StopSection,
             StartSection, At, Back, Left, pipe, shared
    <3>5. SleepInv'
      BY <1>0, <1>1, <2>1, <2>4, <3>1
         DEF SleepInv, WaitInv, SidesInv, HandleInv, FlagInv, Section, StopSection,
             StartSection, At, Back, Left, pipe, shared
    <3>6. SettingsInv'
      BY <1>0, <1>1, <2>1, <2>4, <3>1
         DEF SettingsInv, HandleInv, FlagInv, Stopping, Section, StopSection, StartSection,
             At, Back, Left, pipe, shared
    <3>7. DetInv'
      BY <1>0, <1>1, <2>1, <2>4, <3>1
         DEF DetInv, HandleInv, FlagInv, RestartDue, Stopping, Section, StopSection,
             StartSection, At, Back, Left, pipe, shared
    <3> QED BY <3>2, <3>3, <3>4, <3>5, <3>6, <3>7 DEF CallInv
  <2>5. ASSUME overlap' # "sections" PROVE UpInv'
    BY <1>0, <1>1, <2>1, <2>5
       DEF UpInv, SidesInv, HandleInv, FlagInv, Alive, Section, StopSection, StartSection, At,
           Back, Left, VType, pipe, shared
  <2> QED BY <2>1, <2>2, <2>3, <2>4, <2>5 DEF CallsInv
<1>10. CASE StartBegin(c)
  <2>1. /\ ctl[c].pc = "start"
        /\ \/ ptr # NoThread /\ Back(c) /\ UNCHANGED flag
           \/ ptr = NoThread /\ At(c, "create") /\ flag' /\ SectionBegins(c)
        /\ UNCHANGED <<pipe, stopped, ptr, mem, sleep, crashed>> /\ ~crashed'
    BY <1>0, <1>10, GotoFacts, ReturnFacts DEF StartBegin
  <2>2. SidesInv'
    BY <1>0, <1>1, <2>1 DEF SidesInv, At, Back, Left, Controllers, StopSection
  <2>3. ASSUME overlap' # "sections" PROVE PtrInv'
    <3>1. CASE ptr # NoThread
      BY <1>0, <1>1, <2>1, <2>3, <3>1, PtrKept
         DEF At, Back, Left, pipe, shared, Section, StopSection, StartSection
    <3>2. CASE ~(ptr # NoThread)
      <4>1. \A d \in Controllers : d = c \/ ctl[d].pc \notin Section
        BY <2>1, <2>3, <3>2 DEF SectionBegins
      <4>2. RegionInv'
        BY <1>0, <2>1, <3>2, <4>1 DEF RegionInv, At, Section, StopSection, StartSection
      <4>3. HandleInv'
        BY <1>0, <1>1, <2>1, <2>3, <3>2, <4>1
           DEF HandleInv, At, pipe, Section, StopSection, StartSection
      <4>4. FlagInv'
        BY <1>0, <1>1, <2>1, <2>3, <3>2, <4>1
           DEF FlagInv, HandleInv, Alive, At, pipe, Section, StopSection, StartSection
      <4> QED BY <4>2, <4>3, <4>4 DEF PtrInv
    <3> QED BY <3>1, <3>2
  <2>4. ASSUME overlap' = "none" PROVE CallInv'
    <3>1. \A d \in Controllers : d = c \/ ctl[d].pc = "idle"
      BY <1>1, <1>2, <2>1, <2>4
    <3>2. OneCall'
      BY <1>0, <1>1, <2>1, <2>4, <3>1
         DEF OneCall, At, Back, Left
    <3>3. WaitInv'
      BY <1>0, <1>1, <2>1, <2>4, <3>1
         DEF WaitInv, HandleInv, FlagInv, SidesInv, Section, StopSection, StartSection, At,
             Back, Left, pipe, shared
    <3>4. DownInv'
      BY <1>0, <1>1, <2>1, <2>4, <3>1
         DEF DownInv, WaitInv, SidesInv, HandleInv, FlagInv, Alive, Section, StopSection,
             StartSection, At, Back, Left, pipe, shared
    <3>5. SleepInv'
      BY <1>0, <1>1, <2>1, <2>4, <3>1
         DEF SleepInv, WaitInv, SidesInv, HandleInv, FlagInv, Section, StopSection,
             StartSection, At, Back, Left, pipe, shared
    <3>6. SettingsInv'
      BY <1>0, <1>1, <2>1, <2>4, <3>1
         DEF SettingsInv, HandleInv, FlagInv, Stopping, Section, StopSection, StartSection,
             At, Back, Left, pipe, shared
    <3>7. DetInv'
      BY <1>0, <1>1, <2>1, <2>4, <3>1
         DEF DetInv, HandleInv, FlagInv, RestartDue, Stopping, Section, StopSection,
             StartSection, At, Back, Left, pipe, shared
    <3> QED BY <3>2, <3>3, <3>4, <3>5, <3>6, <3>7 DEF CallInv
  <2>5. ASSUME overlap' # "sections" PROVE UpInv'
    BY <1>0, <1>1, <2>1, <2>5
       DEF UpInv, SidesInv, HandleInv, FlagInv, Alive, Section, StopSection, StartSection, At,
           Back, Left, VType, pipe, shared
  <2> QED BY <2>1, <2>2, <2>3, <2>4, <2>5 DEF CallsInv
<1>11. CASE StopUnflag(c)
  <2>1. /\ ctl[c].pc = "unflag" /\ At(c, "wait") /\ ~flag'
        /\ UNCHANGED <<pipe, stopped, ptr, mem, sleep, crashed, overlap>> /\ ~crashed'
    BY <1>0, <1>11, GotoFacts DEF StopUnflag, param
  <2>2. SidesInv'
    BY <1>0, <1>1, <2>1 DEF SidesInv, At, Back, Left, Controllers, StopSection
  <2>3. ASSUME overlap # "sections"
        PROVE  ~crashed' /\ PtrInv' /\ UpInv' /\ (overlap = "none" => CallInv')
    <3>1. \A d \in Controllers : d = c \/ ctl[d].pc \notin Section
      BY <1>2, <2>1, <2>3 DEF Section, StopSection, StartSection
    <3>3. ~crashed'
      BY <2>1
    <3>4. RegionInv'
      BY <1>0, <2>1, <3>1, <3>3 DEF RegionInv, At, Back, Left, Section, StopSection, StartSection
    <3>5. HandleInv'
      BY <1>0, <2>3, <2>1, <3>1, <3>3, VideoAssumption
         DEF HandleInv, FlagInv, At, Back, Left, VType, pipe, shared, Section, StopSection,
             StartSection
    <3>6. FlagInv'
      BY <1>0, <2>3, <2>1, <3>1, <3>3, VideoAssumption
         DEF FlagInv, HandleInv, Alive, At, Back, Left, VType, pipe, shared, Section, StopSection,
             StartSection
    <3>7. UpInv'
      BY <1>0, <1>1, <2>3, <2>1, <3>1, <3>3
         DEF UpInv, SidesInv, StopSection, At, Back, Left, pipe, shared
    <3>8. ASSUME overlap = "none" PROVE CallInv'
      <4>1. \A d \in Controllers : d = c \/ ctl[d].pc = "idle"
        BY <1>2, <2>1, <3>8
      <4>2. OneCall'
        BY <1>0, <1>1, <2>1, <3>3, <3>8, <4>1
           DEF OneCall, At, Back, Left
      <4>3. WaitInv'
        BY <1>0, <1>1, <2>1, <3>3, <3>8, <4>1
           DEF WaitInv, HandleInv, FlagInv, SidesInv, Section, StopSection, StartSection, At,
               Back, Left, pipe, shared
      <4>4. DownInv'
        BY <1>0, <1>1, <2>1, <3>3, <3>8, <4>1
           DEF DownInv, WaitInv, SidesInv, HandleInv, FlagInv, Alive, Section, StopSection,
               StartSection, At, Back, Left, pipe, shared
      <4>5. SleepInv'
        BY <1>0, <1>1, <2>1, <3>3, <3>8, <4>1
           DEF SleepInv, WaitInv, SidesInv, HandleInv, FlagInv, Section, StopSection,
               StartSection, At, Back, Left, pipe, shared
      <4>6. SettingsInv'
        BY <1>0, <1>1, <2>1, <3>3, <3>8, <4>1
           DEF SettingsInv, HandleInv, FlagInv, Stopping, Section, StopSection, StartSection,
               At, Back, Left, pipe, shared
      <4>7. DetInv'
        BY <1>0, <1>1, <2>1, <3>3, <3>8, <4>1
           DEF DetInv, HandleInv, FlagInv, RestartDue, Stopping, Section, StopSection,
               StartSection, At, Back, Left, pipe, shared
      <4> QED BY <4>2, <4>3, <4>4, <4>5, <4>6, <4>7 DEF CallInv
    <3> QED BY <3>3, <3>4, <3>5, <3>6, <3>7, <3>8 DEF PtrInv
  <2> QED BY <1>1, <2>1, <2>2, <2>3 DEF CallsInv
<1>12. CASE StopWait(c)
  <2>1. /\ ctl[c].pc = "wait" /\ At(c, "join")
        /\ UNCHANGED <<pipe, shared, sleep, crashed, overlap>> /\ ~crashed'
    BY <1>0, <1>12, GotoFacts DEF StopWait, param
  <2>2. SidesInv'
    BY <1>0, <1>1, <2>1 DEF SidesInv, At, Back, Left, Controllers, StopSection
  <2>3. ASSUME overlap # "sections"
        PROVE  ~crashed' /\ PtrInv' /\ UpInv' /\ (overlap = "none" => CallInv')
    <3>1. \A d \in Controllers : d = c \/ ctl[d].pc \notin Section
      BY <1>2, <2>1, <2>3 DEF Section, StopSection, StartSection
    <3>3. ~crashed'
      BY <2>1
    <3>4. RegionInv'
      BY <1>0, <2>1, <3>1, <3>3 DEF RegionInv, At, Back, Left, Section, StopSection, StartSection
    <3>5. HandleInv'
      BY <1>0, <2>3, <2>1, <3>1, <3>3, VideoAssumption
         DEF HandleInv, FlagInv, At, Back, Left, VType, pipe, shared, Section, StopSection,
             StartSection
    <3>6. FlagInv'
      BY <1>0, <2>3, <2>1, <3>1, <3>3, VideoAssumption
         DEF FlagInv, HandleInv, Alive, At, Back, Left, VType, pipe, shared, Section, StopSection,
             StartSection
    <3>7. UpInv'
      BY <1>0, <1>1, <2>3, <2>1, <3>1, <3>3
         DEF UpInv, SidesInv, StopSection, At, Back, Left, pipe, shared
    <3>8. ASSUME overlap = "none" PROVE CallInv'
      <4>1. \A d \in Controllers : d = c \/ ctl[d].pc = "idle"
        BY <1>2, <2>1, <3>8
      <4>2. OneCall'
        BY <1>0, <1>1, <2>1, <3>3, <3>8, <4>1
           DEF OneCall, At, Back, Left
      <4>3. WaitInv'
        BY <1>0, <1>1, <2>1, <3>3, <3>8, <4>1
           DEF WaitInv, HandleInv, FlagInv, SidesInv, Section, StopSection, StartSection, At,
               Back, Left, pipe, shared
      <4>4. DownInv'
        BY <1>0, <1>1, <2>1, <3>3, <3>8, <4>1
           DEF DownInv, WaitInv, SidesInv, HandleInv, FlagInv, Alive, Section, StopSection,
               StartSection, At, Back, Left, pipe, shared
      <4>5. SleepInv'
        BY <1>0, <1>1, <2>1, <3>3, <3>8, <4>1
           DEF SleepInv, WaitInv, SidesInv, HandleInv, FlagInv, Section, StopSection,
               StartSection, At, Back, Left, pipe, shared
      <4>6. SettingsInv'
        BY <1>0, <1>1, <2>1, <3>3, <3>8, <4>1
           DEF SettingsInv, HandleInv, FlagInv, Stopping, Section, StopSection, StartSection,
               At, Back, Left, pipe, shared
      <4>7. DetInv'
        BY <1>0, <1>1, <2>1, <3>3, <3>8, <4>1
           DEF DetInv, HandleInv, FlagInv, RestartDue, Stopping, Section, StopSection,
               StartSection, At, Back, Left, pipe, shared
      <4> QED BY <4>2, <4>3, <4>4, <4>5, <4>6, <4>7 DEF CallInv
    <3> QED BY <3>3, <3>4, <3>5, <3>6, <3>7, <3>8 DEF PtrInv
  <2> QED BY <1>1, <2>1, <2>2, <2>3 DEF CallsInv
<1>13. CASE StopNull(c)
  <2>1. /\ ctl[c].pc = "null" /\ Left(c) /\ ptr' = NoThread
        /\ UNCHANGED <<pipe, flag, stopped, mem, sleep, crashed, overlap>> /\ ~crashed'
    BY <1>0, <1>13, AfterStopFacts DEF StopNull, param
  <2>2. SidesInv'
    BY <1>0, <1>1, <2>1 DEF SidesInv, At, Back, Left, Controllers, StopSection
  <2>3. ASSUME overlap # "sections"
        PROVE  ~crashed' /\ PtrInv' /\ UpInv' /\ (overlap = "none" => CallInv')
    <3>1. \A d \in Controllers : d = c \/ ctl[d].pc \notin Section
      BY <1>2, <2>1, <2>3 DEF Section, StopSection, StartSection
    <3>3. ~crashed'
      BY <2>1
    <3>4. RegionInv'
      BY <1>0, <2>1, <3>1, <3>3 DEF RegionInv, At, Back, Left, Section, StopSection, StartSection
    <3>5. HandleInv'
      BY <1>0, <2>3, <2>1, <3>1, <3>3, VideoAssumption
         DEF HandleInv, FlagInv, At, Back, Left, VType, pipe, shared, Section, StopSection,
             StartSection
    <3>6. FlagInv'
      BY <1>0, <2>3, <2>1, <3>1, <3>3, VideoAssumption
         DEF FlagInv, HandleInv, Alive, At, Back, Left, VType, pipe, shared, Section, StopSection,
             StartSection
    <3>7. UpInv'
      BY <1>0, <1>1, <2>3, <2>1, <3>1, <3>3
         DEF UpInv, SidesInv, StopSection, At, Back, Left, pipe, shared
    <3>8. ASSUME overlap = "none" PROVE CallInv'
      <4>1. \A d \in Controllers : d = c \/ ctl[d].pc = "idle"
        BY <1>2, <2>1, <3>8
      <4>2. OneCall'
        BY <1>0, <1>1, <2>1, <3>3, <3>8, <4>1
           DEF OneCall, At, Back, Left
      <4>3. WaitInv'
        BY <1>0, <1>1, <2>1, <3>3, <3>8, <4>1
           DEF WaitInv, HandleInv, FlagInv, SidesInv, Section, StopSection, StartSection, At,
               Back, Left, pipe, shared
      <4>4. DownInv'
        BY <1>0, <1>1, <2>1, <3>3, <3>8, <4>1
           DEF DownInv, WaitInv, SidesInv, HandleInv, FlagInv, Alive, Section, StopSection,
               StartSection, At, Back, Left, pipe, shared
      <4>5. SleepInv'
        BY <1>0, <1>1, <2>1, <3>3, <3>8, <4>1
           DEF SleepInv, WaitInv, SidesInv, HandleInv, FlagInv, Section, StopSection,
               StartSection, At, Back, Left, pipe, shared
      <4>6. SettingsInv'
        BY <1>0, <1>1, <2>1, <3>3, <3>8, <4>1
           DEF SettingsInv, HandleInv, FlagInv, Stopping, Section, StopSection, StartSection,
               At, Back, Left, pipe, shared
      <4>7. DetInv'
        BY <1>0, <1>1, <2>1, <3>3, <3>8, <4>1
           DEF DetInv, HandleInv, FlagInv, RestartDue, Stopping, Section, StopSection,
               StartSection, At, Back, Left, pipe, shared
      <4> QED BY <4>2, <4>3, <4>4, <4>5, <4>6, <4>7 DEF CallInv
    <3> QED BY <3>3, <3>4, <3>5, <3>6, <3>7, <3>8 DEF PtrInv
  <2> QED BY <1>1, <2>1, <2>2, <2>3 DEF CallsInv
<1>14. CASE StartPublish(c)
  <2>1. /\ ctl[c].pc = "publish" /\ Back(c) /\ ptr' = ctl[c].thread /\ ctl[c].thread \in Threads
        /\ UNCHANGED <<pipe, flag, stopped, mem, sleep, crashed, overlap>> /\ ~crashed'
    BY <1>0, <1>14, ReturnFacts DEF StartPublish, param, VType
  <2>2. SidesInv'
    BY <1>0, <1>1, <2>1 DEF SidesInv, At, Back, Left, Controllers, StopSection
  <2>3. ASSUME overlap # "sections"
        PROVE  ~crashed' /\ PtrInv' /\ UpInv' /\ (overlap = "none" => CallInv')
    <3>1. \A d \in Controllers : d = c \/ ctl[d].pc \notin Section
      BY <1>2, <2>1, <2>3 DEF Section, StopSection, StartSection
    <3>3. ~crashed'
      BY <2>1
    <3>4. RegionInv'
      BY <1>0, <2>1, <3>1, <3>3 DEF RegionInv, At, Back, Left, Section, StopSection, StartSection
    <3>5. HandleInv'
      BY <1>0, <2>3, <2>1, <3>1, <3>3, VideoAssumption
         DEF HandleInv, FlagInv, At, Back, Left, VType, pipe, shared, Section, StopSection,
             StartSection
    <3>6. FlagInv'
      BY <1>0, <2>3, <2>1, <3>1, <3>3, VideoAssumption
         DEF FlagInv, HandleInv, Alive, At, Back, Left, VType, pipe, shared, Section, StopSection,
             StartSection
    <3>7. UpInv'
      BY <1>0, <1>1, <2>3, <2>1, <3>1, <3>3
         DEF UpInv, SidesInv, StopSection, At, Back, Left, pipe, shared
    <3>8. ASSUME overlap = "none" PROVE CallInv'
      <4>1. \A d \in Controllers : d = c \/ ctl[d].pc = "idle"
        BY <1>2, <2>1, <3>8
      <4>2. OneCall'
        BY <1>0, <1>1, <2>1, <3>3, <3>8, <4>1
           DEF OneCall, At, Back, Left
      <4>3. WaitInv'
        BY <1>0, <1>1, <2>1, <3>3, <3>8, <4>1
           DEF WaitInv, HandleInv, FlagInv, SidesInv, Section, StopSection, StartSection, At,
               Back, Left, pipe, shared
      <4>4. DownInv'
        BY <1>0, <1>1, <2>1, <3>3, <3>8, <4>1
           DEF DownInv, WaitInv, SidesInv, HandleInv, FlagInv, Alive, Section, StopSection,
               StartSection, At, Back, Left, pipe, shared
      <4>5. SleepInv'
        BY <1>0, <1>1, <2>1, <3>3, <3>8, <4>1
           DEF SleepInv, WaitInv, SidesInv, HandleInv, FlagInv, Section, StopSection,
               StartSection, At, Back, Left, pipe, shared
      <4>6. SettingsInv'
        BY <1>0, <1>1, <2>1, <3>3, <3>8, <4>1
           DEF SettingsInv, HandleInv, FlagInv, Stopping, Section, StopSection, StartSection,
               At, Back, Left, pipe, shared
      <4>7. DetInv'
        BY <1>0, <1>1, <2>1, <3>3, <3>8, <4>1
           DEF DetInv, HandleInv, FlagInv, RestartDue, Stopping, Section, StopSection,
               StartSection, At, Back, Left, pipe, shared
      <4> QED BY <4>2, <4>3, <4>4, <4>5, <4>6, <4>7 DEF CallInv
    <3> QED BY <3>3, <3>4, <3>5, <3>6, <3>7, <3>8 DEF PtrInv
  <2> QED BY <1>1, <2>1, <2>2, <2>3 DEF CallsInv
<1>15. CASE StopJoin(c)
  <2>1. /\ ctl[c].pc = "join"
        /\ UNCHANGED <<pool, venc, aborted, sleep, overlap>>
        /\ \/ UNCHANGED ctl
           \/ /\ ctl'[c].pc = "joining" /\ ctl'[c].op = ctl[c].op
              /\ \A d \in Controllers : d = c \/ ctl'[d] = ctl[d]
    BY <1>0, <1>15 DEF StopJoin, Crash, param, VType, CtlType
  <2>2. SidesInv'
    BY <1>0, <1>1, <2>1 DEF SidesInv, At, Back, Left, Controllers, StopSection
  <2>3. ASSUME overlap # "sections"
        PROVE  ~crashed' /\ PtrInv' /\ UpInv' /\ (overlap = "none" => CallInv')
    <3>1. \A d \in Controllers : d = c \/ ctl[d].pc \notin Section
      BY <1>2, <2>1, <2>3 DEF Section, StopSection, StartSection
    <3>2. /\ ptr \in mem /\ thr[ptr].pc # "joined"
          /\ ~ \E d \in Controllers : ctl[d].pc = "joining" /\ ctl[d].thread = ptr
      BY <1>0, <2>1, <2>3, <3>1 DEF HandleInv, VType, Section, StopSection, StartSection
    <3>3. /\ ctl'[c].pc = "joining" /\ ctl'[c].thread = ptr /\ ctl'[c].op = ctl[c].op
          /\ \A d \in Controllers : d = c \/ ctl'[d] = ctl[d]
          /\ UNCHANGED <<thr, shared, crashed>> /\ ~crashed'
      BY <1>0, <1>15, <3>2 DEF StopJoin, VType, CtlType
    <3>4. RegionInv'
      BY <1>0, <2>1, <3>1, <3>3 DEF RegionInv, At, Back, Left, Section, StopSection, StartSection
    <3>5. HandleInv'
      BY <1>0, <2>3, <2>1, <3>1, <3>3, VideoAssumption
         DEF HandleInv, FlagInv, At, Back, Left, VType, pipe, shared, Section, StopSection,
             StartSection
    <3>6. FlagInv'
      BY <1>0, <2>3, <2>1, <3>1, <3>3, VideoAssumption
         DEF FlagInv, HandleInv, Alive, At, Back, Left, VType, pipe, shared, Section, StopSection,
             StartSection
    <3>7. UpInv'
      BY <1>0, <1>1, <2>3, <2>1, <3>1, <3>3
         DEF UpInv, SidesInv, StopSection, At, Back, Left, pipe, shared
    <3>8. ASSUME overlap = "none" PROVE CallInv'
      <4>1. \A d \in Controllers : d = c \/ ctl[d].pc = "idle"
        BY <1>2, <2>1, <3>8
      <4>2. OneCall'
        BY <1>0, <1>1, <2>1, <3>3, <3>8, <4>1
           DEF OneCall, At, Back, Left
      <4>3. WaitInv'
        BY <1>0, <1>1, <2>1, <3>3, <3>8, <4>1
           DEF WaitInv, HandleInv, FlagInv, SidesInv, Section, StopSection, StartSection, At,
               Back, Left, pipe, shared
      <4>4. DownInv'
        BY <1>0, <1>1, <2>1, <3>3, <3>8, <4>1
           DEF DownInv, WaitInv, SidesInv, HandleInv, FlagInv, Alive, Section, StopSection,
               StartSection, At, Back, Left, pipe, shared
      <4>5. SleepInv'
        BY <1>0, <1>1, <2>1, <3>3, <3>8, <4>1
           DEF SleepInv, WaitInv, SidesInv, HandleInv, FlagInv, Section, StopSection,
               StartSection, At, Back, Left, pipe, shared
      <4>6. SettingsInv'
        BY <1>0, <1>1, <2>1, <3>3, <3>8, <4>1
           DEF SettingsInv, HandleInv, FlagInv, Stopping, Section, StopSection, StartSection,
               At, Back, Left, pipe, shared
      <4>7. DetInv'
        BY <1>0, <1>1, <2>1, <3>3, <3>8, <4>1
           DEF DetInv, HandleInv, FlagInv, RestartDue, Stopping, Section, StopSection,
               StartSection, At, Back, Left, pipe, shared
      <4> QED BY <4>2, <4>3, <4>4, <4>5, <4>6, <4>7 DEF CallInv
    <3> QED BY <3>3, <3>4, <3>5, <3>6, <3>7, <3>8 DEF PtrInv
  <2> QED BY <1>1, <2>1, <2>2, <2>3 DEF CallsInv
<1>16. CASE StopJoined(c)
  <2>1. /\ ctl[c].pc = "joining" /\ ctl'[c].pc = "free" /\ ctl'[c].op = ctl[c].op
        /\ \A d \in Controllers : d = c \/ ctl'[d] = ctl[d]
        /\ UNCHANGED <<pool, venc, aborted, shared, sleep, crashed, overlap>> /\ ~crashed'
    BY <1>0, <1>16 DEF StopJoined, param, VType, CtlType
  <2>2. SidesInv'
    BY <1>0, <1>1, <2>1 DEF SidesInv, At, Back, Left, Controllers, StopSection
  <2>3. ASSUME overlap # "sections"
        PROVE  ~crashed' /\ PtrInv' /\ UpInv' /\ (overlap = "none" => CallInv')
    <3>1. \A d \in Controllers : d = c \/ ctl[d].pc \notin Section
      BY <1>2, <2>1, <2>3 DEF Section, StopSection, StartSection
    <3>2. ctl[c].thread = ptr /\ ptr \in Threads /\ mem = {ptr}
      BY <1>0, <2>1, <2>3, <3>1 DEF HandleInv, VType, Section, StopSection, StartSection
    <3>3. /\ ptr \in Threads /\ mem = {ptr} /\ ~crashed'
          /\ thr[ptr].pc = "exited" /\ thr'[ptr].pc = "joined" /\ thr'[ptr].fmt = thr[ptr].fmt
          /\ \A t \in Threads : t = ptr \/ thr'[t] = thr[t]
      <4>1. thr' = [thr EXCEPT ![ptr].pc = "joined"] /\ thr[ptr].pc = "exited"
        BY <1>16, <3>2 DEF StopJoined
      <4> QED BY <1>0, <2>1, <3>2, <4>1 DEF VType, ThrType
    <3>4. RegionInv'
      BY <1>0, <2>1, <3>1, <3>3 DEF RegionInv, At, Back, Left, Section, StopSection, StartSection
    <3>5. HandleInv'
      BY <1>0, <2>3, <2>1, <3>1, <3>3, VideoAssumption
         DEF HandleInv, FlagInv, At, Back, Left, VType, pipe, shared, Section, StopSection,
             StartSection
    <3>6. FlagInv'
      BY <1>0, <2>3, <2>1, <3>1, <3>3, VideoAssumption
         DEF FlagInv, HandleInv, Alive, At, Back, Left, VType, pipe, shared, Section, StopSection,
             StartSection
    <3>7. UpInv'
      BY <1>0, <1>1, <2>3, <2>1, <3>1, <3>3
         DEF UpInv, SidesInv, StopSection, At, Back, Left, pipe, shared
    <3>8. ASSUME overlap = "none" PROVE CallInv'
      <4>1. \A d \in Controllers : d = c \/ ctl[d].pc = "idle"
        BY <1>2, <2>1, <3>8
      <4>2. OneCall'
        BY <1>0, <1>1, <2>1, <3>3, <3>8, <4>1
           DEF OneCall, At, Back, Left
      <4>3. WaitInv'
        BY <1>0, <1>1, <2>1, <3>3, <3>8, <4>1
           DEF WaitInv, HandleInv, FlagInv, SidesInv, Section, StopSection, StartSection, At,
               Back, Left, pipe, shared
      <4>4. DownInv'
        BY <1>0, <1>1, <2>1, <3>3, <3>8, <4>1
           DEF DownInv, WaitInv, SidesInv, HandleInv, FlagInv, Alive, Section, StopSection,
               StartSection, At, Back, Left, pipe, shared
      <4>5. SleepInv'
        BY <1>0, <1>1, <2>1, <3>3, <3>8, <4>1
           DEF SleepInv, WaitInv, SidesInv, HandleInv, FlagInv, Section, StopSection,
               StartSection, At, Back, Left, pipe, shared
      <4>6. SettingsInv'
        BY <1>0, <1>1, <2>1, <3>3, <3>8, <4>1
           DEF SettingsInv, HandleInv, FlagInv, Stopping, Section, StopSection, StartSection,
               At, Back, Left, pipe, shared
      <4>7. DetInv'
        BY <1>0, <1>1, <2>1, <3>3, <3>8, <4>1
           DEF DetInv, HandleInv, FlagInv, RestartDue, Stopping, Section, StopSection,
               StartSection, At, Back, Left, pipe, shared
      <4> QED BY <4>2, <4>3, <4>4, <4>5, <4>6, <4>7 DEF CallInv
    <3> QED BY <3>3, <3>4, <3>5, <3>6, <3>7, <3>8 DEF PtrInv
  <2> QED BY <1>1, <2>1, <2>2, <2>3 DEF CallsInv
<1>17. CASE StopFree(c)
  <2>1. /\ ctl[c].pc = "free"
        /\ UNCHANGED <<pool, venc, aborted, sleep, overlap>>
        /\ UNCHANGED ctl \/ At(c, "null")
    BY <1>0, <1>17, GotoFacts DEF StopFree, Crash, param
  <2>2. SidesInv'
    BY <1>0, <1>1, <2>1 DEF SidesInv, At, Back, Left, Controllers, StopSection
  <2>3. ASSUME overlap # "sections"
        PROVE  ~crashed' /\ PtrInv' /\ UpInv' /\ (overlap = "none" => CallInv')
    <3>1. \A d \in Controllers : d = c \/ ctl[d].pc \notin Section
      BY <1>2, <2>1, <2>3 DEF Section, StopSection, StartSection
    <3>2. thr[ptr].pc = "joined" /\ ptr \in Threads /\ mem = {ptr}
      BY <1>0, <2>1, <2>3, <3>1 DEF HandleInv, VType, Section, StopSection, StartSection
    <3>3. /\ At(c, "null") /\ mem' = {} /\ mem = {ptr} /\ ptr \in Threads
          /\ \A t \in Threads : thr'[t].pc = "none"
          /\ UNCHANGED <<flag, stopped, ptr, crashed>> /\ ~crashed'
      <4>1. /\ At(c, "null") /\ mem' = mem \ {ptr}
            /\ thr' = [t \in Threads |-> IF t = ptr /\ thr[t].pc = "joined" THEN NoStream ELSE thr[t]]
            /\ UNCHANGED <<flag, stopped, ptr, crashed>>
        BY <1>0, <1>17, <3>2, GotoFacts DEF StopFree
      <4>2. \A t \in Threads : t = ptr \/ thr[t].pc = "none"
        BY <1>0, <2>3, <3>2 DEF HandleInv
      <4>3. \A t \in Threads : thr'[t].pc = "none"
        BY <3>2, <4>1, <4>2 DEF NoStream
      <4> QED BY <3>2, <4>1, <4>3
    <3>4. RegionInv'
      BY <1>0, <2>1, <3>1, <3>3 DEF RegionInv, At, Back, Left, Section, StopSection, StartSection
    <3>5. HandleInv'
      BY <1>0, <2>3, <2>1, <3>1, <3>3, VideoAssumption
         DEF HandleInv, FlagInv, At, Back, Left, VType, pipe, shared, Section, StopSection,
             StartSection
    <3>6. FlagInv'
      BY <1>0, <2>3, <2>1, <3>1, <3>3, VideoAssumption
         DEF FlagInv, HandleInv, Alive, At, Back, Left, VType, pipe, shared, Section, StopSection,
             StartSection
    <3>7. UpInv'
      BY <1>0, <1>1, <2>3, <2>1, <3>1, <3>3
         DEF UpInv, SidesInv, StopSection, At, Back, Left, pipe, shared
    <3>8. ASSUME overlap = "none" PROVE CallInv'
      <4>1. \A d \in Controllers : d = c \/ ctl[d].pc = "idle"
        BY <1>2, <2>1, <3>8
      <4>2. OneCall'
        BY <1>0, <1>1, <2>1, <3>3, <3>8, <4>1
           DEF OneCall, At, Back, Left
      <4>3. WaitInv'
        BY <1>0, <1>1, <2>1, <3>3, <3>8, <4>1
           DEF WaitInv, HandleInv, FlagInv, SidesInv, Section, StopSection, StartSection, At,
               Back, Left, pipe, shared
      <4>4. DownInv'
        BY <1>0, <1>1, <2>1, <3>3, <3>8, <4>1
           DEF DownInv, WaitInv, SidesInv, HandleInv, FlagInv, Alive, Section, StopSection,
               StartSection, At, Back, Left, pipe, shared
      <4>5. SleepInv'
        BY <1>0, <1>1, <2>1, <3>3, <3>8, <4>1
           DEF SleepInv, WaitInv, SidesInv, HandleInv, FlagInv, Section, StopSection,
               StartSection, At, Back, Left, pipe, shared
      <4>6. SettingsInv'
        BY <1>0, <1>1, <2>1, <3>3, <3>8, <4>1
           DEF SettingsInv, HandleInv, FlagInv, Stopping, Section, StopSection, StartSection,
               At, Back, Left, pipe, shared
      <4>7. DetInv'
        BY <1>0, <1>1, <2>1, <3>3, <3>8, <4>1
           DEF DetInv, HandleInv, FlagInv, RestartDue, Stopping, Section, StopSection,
               StartSection, At, Back, Left, pipe, shared
      <4> QED BY <4>2, <4>3, <4>4, <4>5, <4>6, <4>7 DEF CallInv
    <3> QED BY <3>3, <3>4, <3>5, <3>6, <3>7, <3>8 DEF PtrInv
  <2> QED BY <1>1, <2>1, <2>2, <2>3 DEF CallsInv
<1>18. CASE StartCreate(c)
  <2>1. /\ ctl[c].pc = "create"
        /\ UNCHANGED <<pool, venc, stopped, ptr, sleep, crashed, overlap>> /\ ~crashed'
        /\ \A d \in Controllers : d = c \/ ctl'[d] = ctl[d]
        /\ \/ Back(c) /\ ~flag' /\ aborted' /\ UNCHANGED <<thr, mem>>
           \/ /\ ctl'[c].pc = "publish" /\ ctl'[c].op = ctl[c].op
              /\ UNCHANGED <<flag, aborted>>
              /\ mem' = mem \cup {ctl'[c].thread} /\ ctl'[c].thread \in Threads
              /\ thr'[ctl'[c].thread].pc = "new"
              /\ \A u \in Threads : u = ctl'[c].thread \/ thr'[u] = thr[u]
    <3>1. CASE Return(c) /\ flag' = FALSE /\ aborted' = TRUE /\ UNCHANGED <<thr, mem>>
      BY <1>0, <1>18, <3>1, ReturnFacts DEF StartCreate, param, Back
    <3>2. ASSUME NEW t \in Threads, mem' = mem \cup {t}, thr' = [thr EXCEPT ![t].pc = "new"],
                 ctl' = [ctl EXCEPT ![c].pc = "publish", ![c].thread = t], UNCHANGED <<flag, aborted>>
          PROVE  /\ \A d \in Controllers : d = c \/ ctl'[d] = ctl[d]
                 /\ ctl'[c].pc = "publish" /\ ctl'[c].op = ctl[c].op /\ ctl'[c].thread = t
                 /\ thr'[t].pc = "new" /\ \A u \in Threads : u = t \/ thr'[u] = thr[u]
      BY <1>0, <3>2 DEF VType, ThrType, CtlType
    <3> QED BY <1>18, <3>1, <3>2 DEF StartCreate, param
  <2>2. SidesInv'
    BY <1>0, <1>1, <2>1 DEF SidesInv, At, Back, Left, Controllers, StopSection
  <2>3. ASSUME overlap # "sections"
        PROVE  ~crashed' /\ PtrInv' /\ UpInv' /\ (overlap = "none" => CallInv')
    <3>1. \A d \in Controllers : d = c \/ ctl[d].pc \notin Section
      BY <1>2, <2>1, <2>3 DEF Section, StopSection, StartSection
    <3>3. ptr = NoThread /\ mem = {} /\ (\A t \in Threads : thr[t].pc = "none") /\ ~crashed'
      BY <1>0, <2>1, <2>3, <3>1 DEF HandleInv, Section, StopSection, StartSection
    <3>4. RegionInv'
      BY <1>0, <2>1, <3>1, <3>3 DEF RegionInv, At, Back, Left, Section, StopSection, StartSection
    <3>5. HandleInv'
      BY <1>0, <2>3, <2>1, <3>1, <3>3, VideoAssumption
         DEF HandleInv, FlagInv, At, Back, Left, VType, pipe, shared, Section, StopSection,
             StartSection
    <3>6. FlagInv'
      BY <1>0, <2>3, <2>1, <3>1, <3>3, VideoAssumption
         DEF FlagInv, HandleInv, Alive, At, Back, Left, VType, pipe, shared, Section, StopSection,
             StartSection
    <3>7. UpInv'
      BY <1>0, <1>1, <2>3, <2>1, <3>1, <3>3
         DEF UpInv, SidesInv, StopSection, At, Back, Left, pipe, shared
    <3>8. ASSUME overlap = "none" PROVE CallInv'
      <4>1. \A d \in Controllers : d = c \/ ctl[d].pc = "idle"
        BY <1>2, <2>1, <3>8
      <4>2. OneCall'
        BY <1>0, <1>1, <2>1, <3>3, <3>8, <4>1
           DEF OneCall, At, Back, Left
      <4>3. WaitInv'
        BY <1>0, <1>1, <2>1, <3>3, <3>8, <4>1
           DEF WaitInv, HandleInv, FlagInv, SidesInv, Section, StopSection, StartSection, At,
               Back, Left, pipe, shared
      <4>4. DownInv'
        BY <1>0, <1>1, <2>1, <3>3, <3>8, <4>1
           DEF DownInv, WaitInv, SidesInv, HandleInv, FlagInv, Alive, Section, StopSection,
               StartSection, At, Back, Left, pipe, shared
      <4>5. SleepInv'
        BY <1>0, <1>1, <2>1, <3>3, <3>8, <4>1
           DEF SleepInv, WaitInv, SidesInv, HandleInv, FlagInv, Section, StopSection,
               StartSection, At, Back, Left, pipe, shared
      <4>6. SettingsInv'
        BY <1>0, <1>1, <2>1, <3>3, <3>8, <4>1
           DEF SettingsInv, HandleInv, FlagInv, Stopping, Section, StopSection, StartSection,
               At, Back, Left, pipe, shared
      <4>7. DetInv'
        BY <1>0, <1>1, <2>1, <3>3, <3>8, <4>1
           DEF DetInv, HandleInv, FlagInv, RestartDue, Stopping, Section, StopSection,
               StartSection, At, Back, Left, pipe, shared
      <4> QED BY <4>2, <4>3, <4>4, <4>5, <4>6, <4>7 DEF CallInv
    <3> QED BY <3>3, <3>4, <3>5, <3>6, <3>7, <3>8 DEF PtrInv
  <2> QED BY <1>1, <2>1, <2>2, <2>3 DEF CallsInv
<1> QED BY <1>3, <1>4, <1>5, <1>6, <1>7, <1>8, <1>9, <1>10, <1>11, <1>12, <1>13, <1>14,
           <1>15, <1>16, <1>17, <1>18 DEF ControlStep

----------------------------------------------------------------------------
(* The streaming threads. *)

\* A thread that is there is the only one.
LEMMA OneThread ==
  ASSUME VType, PtrInv, NEW t \in Threads, thr[t].pc # "none"
  PROVE  mem = {t} /\ \A u \in Threads : u = t \/ thr[u].pc = "none"
<1>0. HandleInv
  BY DEF PtrInv
<1>1. CASE \A c \in Controllers : ctl[c].pc \notin {"null", "publish"}
  BY <1>0, <1>1 DEF HandleInv
<1>2. ASSUME NEW c \in Controllers, ctl[c].pc \in {"null", "publish"}
      PROVE  mem = {t} /\ \A u \in Threads : u = t \/ thr[u].pc = "none"
  BY <1>0, <1>2 DEF HandleInv
<1> QED BY <1>1, <1>2

\* What the invariant needs to know of a step of a thread: it ends when the flag
\* is down or on an error, does not put the chip to sleep, reads the detected
\* format before it takes buffers, and runs with the attributes of that moment.
StreamDoes(t) ==
  /\ aborted => aborted'
  /\ thr'[t].pc = "leaving" => ~flag
  /\ thr'[t].pc = "exited" => aborted' \/ (stopped' /\ thr[t].pc = "leaving")
  /\ UNCHANGED stopped \/ stopped' \/ thr'[t].pc = "loop"
  /\ sleep' = "on" => sleep = "on"
  /\ crashed' => venc'.reader = "garbage"
  /\ thr'[t].pc = "run" =>
       /\ venc'.attr = AttrFor(t) /\ thr[t].pc = "venc" /\ thr'[t].fmt = thr[t].fmt
  /\ thr'[t].pc = "height" => thr'[t].fmt.size.w = detected.size.w
  /\ thr'[t].pc = "rate" =>
       /\ thr[t].pc = "height" /\ thr'[t].fmt.size.w = thr[t].fmt.size.w
       /\ thr'[t].fmt.size.h = detected.size.h
  /\ thr'[t].pc \in {"alloc", "venc", "run"} =>
       /\ thr[t].pc \in {"rate", "alloc", "venc"}
       /\ thr'[t].fmt.size.w = thr[t].fmt.size.w /\ thr'[t].fmt.size.h = thr[t].fmt.size.h

LEMMA StreamFacts ==
  ASSUME VType, ~crashed, NEW t \in Threads, StreamStep(t)
  PROVE  StreamDoes(t)
<1>0. thr[t].fmt \in Formats /\ detected \in Formats /\ venc \in VencType
  BY DEF VType, ThrType
<1>1. CASE StreamConfigure(t) \/ ReadHeight(t) \/ ReadRate(t)
  <2>0. DOMAIN thr[t].fmt.size = {"w", "h"} /\ DOMAIN thr[t].fmt = {"size", "fps"}
    BY <1>0 DEF Formats, Sizes
  <2>1. CASE StreamConfigure(t)
    <3>1. /\ thr'[t].pc = "height" /\ UNCHANGED <<stopped, venc, aborted, sleep, crashed>>
          /\ thr'[t].fmt = [thr[t].fmt EXCEPT !.size.w = detected.size.w]
      BY <2>1, ReadFacts
    <3>2. thr'[t].fmt.size.w = detected.size.w
      BY <2>0, <3>1
    <3> QED BY <3>1, <3>2 DEF StreamDoes
  <2>2. CASE ReadHeight(t)
    <3>1. /\ thr[t].pc = "height" /\ thr'[t].pc = "rate"
          /\ UNCHANGED <<stopped, venc, aborted, sleep, crashed>>
          /\ thr'[t].fmt = [thr[t].fmt EXCEPT !.size.h = detected.size.h]
      BY <2>2, ReadFacts
    <3>2. thr'[t].fmt.size.w = thr[t].fmt.size.w /\ thr'[t].fmt.size.h = detected.size.h
      BY <2>0, <3>1
    <3> QED BY <3>1, <3>2 DEF StreamDoes
  <2>3. CASE ReadRate(t)
    <3>1. /\ thr[t].pc = "rate" /\ thr'[t].pc \in {"alloc", "loop"}
          /\ UNCHANGED <<stopped, venc, aborted, sleep, crashed>>
          /\ thr'[t].fmt = [thr[t].fmt EXCEPT !.fps = detected.fps]
      BY <2>3, ReadFacts
    <3>2. thr'[t].fmt.size = thr[t].fmt.size
      BY <2>0, <3>1
    <3> QED BY <3>1, <3>2 DEF StreamDoes
  <2> QED BY <1>1, <2>1, <2>2, <2>3
<1>2. CASE StreamBegin(t) \/ StreamLeave(t) \/ StreamAlloc(t) \/ StreamExit(t) \/ StreamRelease(t)
           \/ \E n \in 0..InputBufferCount : StreamAbort(t, n)
  BY <1>2, MoveFacts DEF StreamDoes, StreamBegin, StreamLeave, StreamAlloc, StreamExit, StreamRelease,
         StreamAbort, shared
<1>3. CASE StreamEnd(t)
  BY <1>3, MoveFacts, AwakeFacts DEF StreamDoes, StreamEnd, ensure_sleep_mode_disabled, shared
<1>4. CASE VencStop(t)
  BY <1>4, MoveFacts DEF StreamDoes, VencStop, shared
<1>5. CASE VencStart(t)
  <2>1. thr[t].pc = "venc" /\ UNCHANGED <<shared, sleep, crashed, aborted>>
    BY <1>5 DEF VencStart
  <2>2. CASE CreateChn(t, TRUE, "alive") /\ Move(t, "run")
    <3>1. venc'.attr = AttrFor(t)
      BY <2>2 DEF CreateChn
    <3> QED BY <2>1, <2>2, <3>1, MoveFacts DEF StreamDoes, shared
  <2>3. CASE Move(t, "cleanup")
    BY <2>1, <2>3, MoveFacts DEF StreamDoes, shared
  <2> QED BY <1>5, <2>2, <2>3 DEF VencStart
<1>6. CASE VencDestroy(t)
  <2>1. crashed' => venc'.reader = "garbage"
    <3>1. \E gone \in BOOLEAN :
            venc' = [venc EXCEPT !.channel = ~gone,
                                 !.reader = IF @ = "garbage" THEN @ ELSE "none",
                                 !.attr = IF gone THEN NoAttr ELSE @]
      BY <1>6 DEF VencDestroy
    <3>2. crashed' = (venc.reader = "garbage")
      BY <1>6 DEF VencDestroy
    <3> QED BY <1>0, <3>1, <3>2 DEF VencType
  <2> QED BY <1>6, <2>1, MoveFacts DEF StreamDoes, VencDestroy, shared
<1> QED BY <1>1, <1>2, <1>3, <1>4, <1>5, <1>6 DEF StreamStep

\* Every step of run_video_stream preserves the invariant.
LEMMA StreamInv ==
  ASSUME VideoInv, ~crashed, NEW t \in Threads, StreamStep(t)
  PROVE  CallsInv'
<1>0. VType /\ SidesInv
  BY DEF VideoInv, CallsInv
<1>1. /\ UNCHANGED <<flag, ptr, mem, ctl, world, want, set, overlap>>
      /\ thr[t].pc \notin {"none", "exited", "joined"} /\ thr'[t].pc \notin {"none", "new", "joined"}
      /\ \A u \in Threads : u = t \/ thr'[u] = thr[u]
  BY <1>0, StreamKeeps, StreamMoves
<1>2. StreamDoes(t)
  BY <1>0, StreamFacts
<1>3. SidesInv' /\ (crashed' => venc'.reader = "garbage")
  BY <1>0, <1>1, <1>2 DEF SidesInv, StreamDoes, world
<1>4. ASSUME overlap # "sections"
      PROVE  /\ PtrInv /\ PtrInv' /\ mem = {t} /\ \A u \in Threads : u = t \/ thr[u].pc = "none"
  <2>1. /\ PtrInv /\ RegionInv /\ HandleInv /\ FlagInv
        /\ mem = {t} /\ \A u \in Threads : u = t \/ thr[u].pc = "none"
    BY <1>0, <1>1, <1>4, OneThread DEF VideoInv, CallsInv, PtrInv
  <2>2. RegionInv'
    BY <1>1, <2>1 DEF RegionInv
  <2>3. HandleInv'
    <3>1. /\ \A u \in Threads : thr'[u].pc = "none" <=> u \notin mem
          /\ \A u \in Threads : thr'[u].pc # "joined" /\ thr[u].pc # "joined"
      BY <1>1, <2>1
    <3>2. \A c \in Controllers : ctl[c].pc # "free"
      <4>1. ASSUME NEW c \in Controllers, ctl[c].pc = "free"
            PROVE  thr[ptr].pc = "joined" /\ ptr # NoThread
        BY <2>1, <4>1 DEF HandleInv, StopSection
      <4>2. ptr \in Threads \cup {NoThread}
        BY <1>0 DEF VType
      <4> QED BY <3>1, <4>1, <4>2
    <3> QED BY <1>1, <2>1, <3>1, <3>2 DEF HandleInv
  <2>4. FlagInv'
    BY <1>1, <1>2, <2>1 DEF FlagInv, StreamDoes, Alive
  <2> QED BY <2>1, <2>2, <2>3, <2>4 DEF PtrInv
<1>5. ASSUME overlap = "none" PROVE CallInv'
  <2>0. /\ OneCall /\ WaitInv /\ DownInv /\ SleepInv /\ SettingsInv /\ DetInv
        /\ HandleInv /\ mem = {t} /\ \A u \in Threads : u = t \/ thr[u].pc = "none"
    BY <1>4, <1>5 DEF VideoInv, CallsInv, CallInv, PtrInv
  \* There is a thread, so nobody waits for it to be gone or knows that it is.
  <2>1. ptr # NoThread \/ \E c \in Controllers : ctl[c].pc \in {"null", "publish"}
    BY <2>0 DEF HandleInv
  <2>2. OneCall'
    BY <1>1, <2>0 DEF OneCall
  <2>3. WaitInv'
    BY <1>1, <2>0, <2>1 DEF WaitInv, OneCall
  <2>4. DownInv'
    BY <1>1, <1>2, <2>0, <2>1 DEF DownInv, StreamDoes
  <2>5. SleepInv'
    BY <1>1, <1>2, <2>0, <2>1 DEF SleepInv, StreamDoes
  <2>6. SettingsInv'
    <3>1. set.quality \in Qualities
      BY <1>0 DEF VType
    <3> QED BY <1>1, <1>2, <2>0, <3>1 DEF SettingsInv, StreamDoes, AttrFor
  <2>7. DetInv'
    BY <1>1, <1>2, <2>0 DEF DetInv, RestartDue, StreamDoes, world
  <2> QED BY <2>2, <2>3, <2>4, <2>5, <2>6, <2>7 DEF CallInv
<1>6. ASSUME overlap # "sections" PROVE UpInv'
  BY <1>1, <1>2, <1>6 DEF VideoInv, CallsInv, UpInv, StreamDoes
<1> QED BY <1>1, <1>3, <1>4, <1>5, <1>6 DEF CallsInv

----------------------------------------------------------------------------
(* The calls, the reader, the source and the detector. *)

\* A step that leaves the controllers alone.
LEMMA NoCall ==
  ASSUME VideoInv, ~crashed, UNCHANGED <<thr, aborted, shared, ctl, want, overlap>>, ~crashed',
         SidesInv', overlap = "none" => CallInv'
  PROVE  CallsInv'
<1>1. overlap # "sections" => PtrInv'
  BY PtrKept DEF VideoInv, CallsInv
<1>2. overlap # "sections" => UpInv'
  BY DEF VideoInv, CallsInv, UpInv, shared
<1> QED BY <1>1, <1>2 DEF CallsInv

\* So do the calls' beginnings, the reader, the source and the detector.
LEMMA OtherInv ==
  ASSUME VideoInv, ~crashed, Other
  PROVE  CallsInv'
<1>0. /\ VType /\ SidesInv /\ Controllers = {"rpc", "det"}
      /\ overlap # "sections" => PtrInv /\ UpInv /\ HandleInv /\ FlagInv
      /\ overlap = "none" => /\ OneCall /\ WaitInv /\ DownInv /\ SleepInv
                             /\ SettingsInv /\ DetInv
  BY DEF VideoInv, CallsInv, PtrInv, CallInv, Controllers
<1>1. ASSUME NEW op \in Ops, RpcCall(op)
      PROVE  CallsInv'
  <2>1. /\ op # "quality" => (want' <=> op = "start") /\ UNCHANGED set
        /\ op = "quality" => UNCHANGED want
        /\ UNCHANGED <<pipe, shared, world, sleep, crashed>> /\ CallBegins("rpc") /\ ~crashed'
    BY <1>1 DEF RpcCall
  <2>2. set'.codec = set.codec
    <3>1. UNCHANGED set \/ \E q \in Qualities : video_set_quality_factor(q)
      BY <1>1 DEF RpcCall
    <3> QED BY <1>0, <3>1 DEF video_set_quality_factor, VType
  <2>3. /\ ctl["rpc"].pc = "idle" /\ op \in {"start", "stop", "sleep", "quality"}
        /\ ctl'["rpc"].pc = FirstPC(op) /\ ctl'["rpc"].op = op /\ ctl'["det"] = ctl["det"]
    BY <1>0, <1>1, BeginFacts
  <2>4. /\ op = "start" => FirstPC(op) = "wake"
        /\ op = "stop" => FirstPC(op) = "stop"
        /\ op = "sleep" => FirstPC(op) = "nap"
        /\ op = "quality" => FirstPC(op) = "status"
    BY DEF FirstPC
  <2>5. /\ overlap' # "sections" => overlap # "sections"
        /\ overlap' = "none" => overlap = "none" /\ ctl["det"].pc = "idle"
    BY <1>0, <2>1 DEF CallBegins, Idle
  <2>6. SidesInv'
    BY <1>0, <2>1, <2>3, <2>4 DEF SidesInv, StopSection, world
  <2>7. ASSUME overlap' # "sections" PROVE PtrInv'
    BY <1>0, <2>1, <2>3, <2>4, <2>5, <2>7, PtrKept DEF pipe, Section, StopSection, StartSection
  <2>8. ASSUME overlap' = "none" PROVE CallInv'
    <3>1. OneCall' /\ WaitInv'
      BY <1>0, <2>1, <2>3, <2>4, <2>5, <2>8 DEF OneCall, WaitInv, shared
    <3>2. DownInv'
      BY <1>0, <2>1, <2>3, <2>4, <2>5, <2>8 DEF DownInv, pipe, shared
    <3>5. SleepInv'
      <4>1. sleep' = sleep /\ stopped' = stopped /\ ptr' = ptr
        BY <2>1 DEF shared
      <4>2. \/ ctl'["rpc"].pc \in {"wake", "nap", "status"}
            \/ ctl'["rpc"].pc = "stop" /\ ctl'["rpc"].op = "stop"
        BY <2>3, <2>4
      <4> QED BY <1>0, <2>3, <2>5, <2>8, <4>1, <4>2 DEF SleepInv
    <3>3. SettingsInv'
      BY <1>0, <2>1, <2>2, <2>3, <2>4, <2>5, <2>8 DEF SettingsInv, Stopping, pipe
    <3>4. DetInv'
      BY <1>0, <2>1, <2>3, <2>5, <2>8 DEF DetInv, RestartDue, pipe, world
    <3> QED BY <3>1, <3>2, <3>3, <3>4, <3>5 DEF CallInv
  <2>9. ASSUME overlap' # "sections" PROVE UpInv'
    <3>1. aborted' = aborted /\ flag' = flag
      BY <2>1 DEF pipe, shared
    <3>2. op \in {"start", "quality"} \/ ~want'
      BY <2>1, <2>3
    <3>3. CASE op = "start"
      BY <1>0, <2>3, <2>4, <3>3 DEF UpInv
    <3>4. CASE op = "quality"
      BY <1>0, <2>1, <2>3, <2>5, <2>9, <3>1, <3>4 DEF UpInv, StopSection
    <3> QED BY <3>2, <3>3, <3>4 DEF UpInv
  <2> QED BY <2>1, <2>6, <2>7, <2>8, <2>9 DEF CallsInv
<1>2. CASE SetCodec
  <2>1. /\ ctl["rpc"].pc = "idle" /\ ~want
        /\ UNCHANGED <<pipe, shared, world, ctl, sleep, crashed, want, overlap>>
    BY <1>2 DEF SetCodec, Idle
  <2>2. ASSUME overlap = "none" PROVE CallInv'
    <3>1. \A t \in Threads : thr[t].pc = "none"
      BY <1>0, <2>1, <2>2 DEF DownInv, HandleInv
    <3>2. SettingsInv'
      BY <2>1, <3>1 DEF SettingsInv, pipe
    <3>3. OneCall' /\ WaitInv' /\ DownInv' /\ SleepInv' /\ DetInv'
      BY <1>0, <2>1, <2>2
         DEF OneCall, WaitInv, DownInv, SleepInv, DetInv, RestartDue, pipe, shared, world
    <3> QED BY <3>2, <3>3 DEF CallInv
  <2>3. SidesInv'
    BY <1>0, <2>1 DEF SidesInv, world
  <2> QED BY <2>1, <2>2, <2>3, NoCall DEF pipe
<1>3. CASE ReaderExit
  <2>1. /\ UNCHANGED <<thr, aborted, shared, ctl, world, sleep, crashed, want, set, overlap>>
        /\ venc' = [venc EXCEPT !.reader = "dead"]
    BY <1>3 DEF ReaderExit, param
  <2>2. venc'.attr = venc.attr
    BY <1>0, <2>1 DEF VType, VencType
  <2>3. ASSUME overlap = "none" PROVE CallInv'
    BY <1>0, <2>1, <2>2, <2>3
       DEF CallInv, OneCall, WaitInv, DownInv, SleepInv, SettingsInv, DetInv, RestartDue,
           shared, world
  <2>4. SidesInv'
    BY <1>0, <2>1 DEF SidesInv, world
  <2> QED BY <2>1, <2>3, <2>4, NoCall
<1>4. ASSUME NEW s \in scope.sources, SourceChange(s)
      PROVE  CallsInv'
  <2>1. /\ UNCHANGED <<pipe, shared, ctl, det, detected, signal, sleep, crashed, want, set, overlap>>
        /\ event'
    BY <1>4 DEF SourceChange, param
  <2>2. ASSUME overlap = "none" PROVE CallInv'
    BY <1>0, <2>1, <2>2
       DEF CallInv, OneCall, WaitInv, DownInv, SleepInv, SettingsInv, DetInv, RestartDue,
           pipe, shared
  <2>3. SidesInv'
    BY <1>0, <2>1 DEF SidesInv
  <2> QED BY <2>1, <2>2, <2>3, NoCall DEF pipe
<1>5. CASE DetectQuery
  <2>1. /\ det.pc = "query" /\ sleep' # "on"
        /\ UNCHANGED <<pipe, shared, ctl, source, event, crashed, want, set, overlap>>
    BY <1>5, AwakeFacts DEF DetectQuery, ensure_sleep_mode_disabled, param
  <2>2. ctl["det"].pc = "idle" /\ ~det.restart
    BY <1>0, <2>1 DEF SidesInv
  <2>3. /\ det \in DetType /\ det.restart \in BOOLEAN /\ detected \in Formats
        /\ source # NoSignal => source.size \in Sizes
    BY <1>0 DEF VType, DetType, Signals
  <2>4. \/ /\ source # NoSignal /\ det'.pc = "height" /\ det'.fmt.size = source.size
           /\ detected'.size.w = source.size.w /\ detected'.size.h = detected.size.h
           /\ ~det'.restart => source.size = detected.size
        \/ source = NoSignal /\ det'.pc = "wait" /\ ~det'.restart /\ ~signal' /\ UNCHANGED detected
        \/ UNCHANGED <<det, detected>>
    <3>1. ASSUME source # NoSignal,
                 det' = [pc |-> "height", fmt |-> FormatOf(source),
                         restart |-> ShouldRestart(FormatOf(source))],
                 detected' = [detected EXCEPT !.size.w = source.size.w]
          PROVE  /\ det'.pc = "height" /\ det'.fmt.size = source.size
                 /\ detected'.size.w = source.size.w /\ detected'.size.h = detected.size.h
                 /\ ~det'.restart => source.size = detected.size
      <4>1. detected'.size.w = source.size.w /\ detected'.size.h = detected.size.h
        BY <2>3, <3>1 DEF Formats, Sizes
      <4>2. det'.fmt = FormatOf(source) /\ det'.pc = "height"
            /\ (det'.restart <=> ShouldRestart(FormatOf(source)))
        BY <3>1
      <4> QED BY <4>1, <4>2 DEF FormatOf, ShouldRestart
    <3>2. ASSUME det' = [det EXCEPT !.pc = "wait"]
          PROVE  det'.pc = "wait" /\ ~det'.restart
      BY <2>2, <2>3, <3>2 DEF DetType
    <3> QED BY <1>5, <3>1, <3>2 DEF DetectQuery
  <2>5. SidesInv'
    BY <1>0, <2>1, <2>2, <2>4 DEF SidesInv
  <2>6. ASSUME overlap = "none" PROVE CallInv'
    <3>1. OneCall' /\ WaitInv' /\ DownInv' /\ SleepInv' /\ SettingsInv'
      BY <1>0, <2>1, <2>6
         DEF OneCall, WaitInv, DownInv, SleepInv, SettingsInv, pipe, shared
    <3>2. \A t \in Threads :
            /\ thr[t].pc \in {"height", "rate", "alloc", "venc", "run"} =>
                 thr[t].fmt.size.w = detected.size.w
            /\ thr[t].pc \in {"rate", "alloc", "venc", "run"} =>
                 thr[t].fmt.size.h = detected.size.h
      BY <1>0, <2>2, <2>6 DEF DetInv, RestartDue, Stopping
    <3>3. DetInv'
      BY <2>1, <2>2, <2>4, <3>2 DEF DetInv, RestartDue, Stopping, pipe
    <3> QED BY <3>1, <3>3 DEF CallInv
  <2> QED BY <2>1, <2>5, <2>6, NoCall DEF pipe
<1>6. CASE DetectHeight
  <2>1. /\ det.pc = "height" /\ det'.pc = "store" /\ det'.restart = det.restart
        /\ detected'.size.w = detected.size.w /\ detected'.size.h = det.fmt.size.h
        /\ UNCHANGED <<pipe, shared, ctl, signal, source, event, sleep, crashed, want, set, overlap>>
    <3>1. /\ det.pc = "height" /\ det' = [det EXCEPT !.pc = "store"]
          /\ detected' = [detected EXCEPT !.size.h = det.fmt.size.h]
          /\ UNCHANGED <<pipe, shared, ctl, signal, source, event, sleep, crashed, want, set, overlap>>
      BY <1>6 DEF DetectHeight, param
    <3> QED BY <1>0, <3>1 DEF VType, DetType, Formats, Sizes
  <2>2. SidesInv'
    BY <1>0, <2>1 DEF SidesInv
  <2>3. ASSUME overlap = "none" PROVE CallInv'
    <3>1. OneCall' /\ WaitInv' /\ DownInv' /\ SleepInv' /\ SettingsInv'
      BY <1>0, <2>1, <2>3
         DEF OneCall, WaitInv, DownInv, SleepInv, SettingsInv, pipe, shared
    <3>2. DetInv'
      BY <1>0, <2>1, <2>3 DEF DetInv, RestartDue, pipe
    <3> QED BY <3>1, <3>2 DEF CallInv
  <2> QED BY <2>1, <2>2, <2>3, NoCall DEF pipe
<1>7. CASE DetectStore
  <2>1. /\ det.pc = "store" /\ UNCHANGED <<pipe, shared, source, event, sleep, crashed, want>>
        /\ detected' = [detected EXCEPT !.fps = det.fmt.fps]
    BY <1>7 DEF DetectStore
  <2>2. ctl["det"].pc = "idle"
    BY <1>0, <2>1 DEF SidesInv
  <2>3. detected'.size = detected.size
    BY <1>0, <2>1 DEF VType, Formats
  <2>4. /\ UNCHANGED set
        /\ \/ /\ det.restart
              /\ det'.pc = "busy" /\ ~det'.restart /\ CallBegins("det")
              /\ ctl'["det"].pc = "status" /\ ctl'["det"].op = "restart" /\ ctl'["rpc"] = ctl["rpc"]
           \/ ~det.restart /\ det'.pc = "wait" /\ ~det'.restart /\ UNCHANGED <<ctl, overlap>>
    BY <1>0, <1>7, BeginFacts
  <2>5. /\ overlap' # "sections" => overlap # "sections"
        /\ overlap' = "none" => overlap = "none" /\ (det.restart => ctl["rpc"].pc = "idle")
    BY <1>0, <2>4 DEF CallBegins, Idle
  <2>6. SidesInv'
    BY <1>0, <2>1, <2>2, <2>4 DEF SidesInv, StopSection
  <2>7. ASSUME overlap' # "sections" PROVE PtrInv'
    BY <1>0, <2>1, <2>2, <2>4, <2>5, <2>7, PtrKept DEF pipe, Section, StopSection, StartSection
  <2>8. ASSUME overlap' = "none" PROVE CallInv'
    <3>1. OneCall' /\ WaitInv'
      BY <1>0, <2>1, <2>2, <2>4, <2>5, <2>8 DEF OneCall, WaitInv, shared
    <3>2. /\ flag' = flag /\ stopped' = stopped /\ ptr' = ptr /\ aborted' = aborted
          /\ sleep' = sleep /\ want' = want
          /\ ctl'["rpc"] = ctl["rpc"] /\ ctl'["det"].pc \in {"idle", "status"}
      BY <2>1, <2>2, <2>4 DEF pipe, shared
    <3>5. DownInv'
      BY <1>0, <2>5, <2>8, <3>2 DEF DownInv
    <3>6. SleepInv'
      BY <1>0, <2>5, <2>8, <3>2 DEF SleepInv
    <3>3. SettingsInv'
      BY <1>0, <2>1, <2>2, <2>4, <2>5, <2>8 DEF SettingsInv, pipe
    <3>4. DetInv'
      BY <1>0, <2>1, <2>2, <2>3, <2>4, <2>5, <2>8 DEF DetInv, RestartDue, Stopping, pipe
    <3> QED BY <3>1, <3>3, <3>4, <3>5, <3>6 DEF CallInv
  <2>9. ASSUME overlap' # "sections" PROVE UpInv'
    <3>1. /\ flag' = flag /\ aborted' = aborted /\ want' = want
          /\ \A c \in Controllers : ctl'[c] = ctl[c] \/ ctl[c].pc = "idle"
      BY <1>0, <2>1, <2>2, <2>4 DEF pipe, shared
    <3> QED BY <1>0, <2>5, <2>9, <3>1 DEF UpInv, StopSection
  <2> QED BY <2>1, <2>6, <2>7, <2>8, <2>9 DEF CallsInv
<1>8. CASE DetectDone \/ DetectEvent
  <2>1. /\ \/ det.pc = "busy" /\ det'.pc = "wait" /\ ctl["det"].pc = "idle" /\ UNCHANGED event
           \/ det.pc = "wait" /\ event /\ ~event' /\ det'.pc = "query"
           \/ det.pc = "wait" /\ det'.pc = "dead" /\ UNCHANGED event
        /\ det'.restart = det.restart
        /\ UNCHANGED <<pipe, shared, ctl, detected, signal, source, sleep, crashed, want, set, overlap>>
    <3>1. \E pc \in {"query", "wait", "dead"} : det' = [det EXCEPT !.pc = pc]
      BY <1>8 DEF DetectDone, DetectEvent
    <3>2. det'.restart = det.restart
      BY <1>0, <3>1 DEF VType, DetType
    <3> QED BY <1>0, <1>8, <3>2 DEF DetectDone, DetectEvent, VType, DetType, Idle, param
  <2>2. SidesInv'
    BY <1>0, <2>1 DEF SidesInv
  <2>3. ASSUME overlap = "none" PROVE CallInv'
    BY <1>0, <2>1, <2>3
       DEF CallInv, OneCall, WaitInv, DownInv, SleepInv, SettingsInv, DetInv, RestartDue,
           pipe, shared
  <2> QED BY <2>1, <2>2, <2>3, NoCall DEF pipe
<1> QED BY <1>1, <1>2, <1>3, <1>4, <1>5, <1>6, <1>7, <1>8 DEF Other, DetectStep


----------------------------------------------------------------------------
(* The invariant. *)

\* It holds initially, whether or not a stream is up.
LEMMA VideoInvInit == Init => VideoInv
<1> SUFFICES ASSUME Init PROVE VideoInv
  OBVIOUS
<1>0. VType
  BY VTypeInit
<1>1. PICK t \in Threads :
        /\ ptr = IF scope.up THEN t ELSE NoThread
        /\ mem = {ptr} \ {NoThread}
        /\ thr = [u \in Threads |->
                    IF u = ptr THEN [NoStream EXCEPT !.pc = "loop"] ELSE NoStream]
  BY DEF Init
<1>2. \A u \in Threads : thr[u].pc = (IF u = ptr THEN "loop" ELSE "none")
  BY <1>1 DEF NoStream
<1>3. \A c \in Controllers : ctl[c].pc = "idle"
  BY DEF Init, Idle
<1>4. "rpc" \in Controllers /\ "det" \in Controllers
  BY DEF Controllers
<1>5. NoThread \notin Threads /\ FirstSource # NoSignal /\ scope.up \in BOOLEAN
  BY <1>0, VideoAssumption DEF VType
<1>6. /\ flag = scope.up /\ stopped = ~scope.up /\ want = scope.up
      /\ scope.up => sleep # "on"
      /\ ~event /\ det.pc = "wait" /\ ~det.restart
      /\ source = FirstSource /\ detected.size = FirstSource.size
      /\ pool = InputBufferCount /\ venc.reader = "none" /\ ~crashed /\ ~aborted
  BY DEF Init, NoVenc, FormatOf
<1>7. SidesInv /\ RegionInv /\ HandleInv
  BY <1>1, <1>2, <1>3, <1>4, <1>5, <1>6
     DEF SidesInv, RegionInv, HandleInv, Section, StopSection, StartSection
<1>8. FlagInv
  <2>1. (flag <=> ptr # NoThread) /\ (ptr = NoThread => stopped)
    BY <1>1, <1>5, <1>6
  <2>2. ptr # NoThread => Alive(ptr) /\ ptr \in Threads
    BY <1>1, <1>2 DEF Alive
  <2> QED BY <1>2, <1>3, <1>4, <2>1, <2>2 DEF FlagInv, StopSection, StartSection
<1>9. OneCall /\ WaitInv /\ DownInv /\ UpInv /\ SleepInv
  BY <1>1, <1>3, <1>4, <1>5, <1>6 DEF OneCall, WaitInv, DownInv, UpInv, SleepInv
<1>10. SettingsInv /\ DetInv
  <2>1. \A u \in Threads : thr[u].pc \in {"loop", "none"}
    BY <1>2
  <2>2. SettingsInv
    BY <2>1 DEF SettingsInv
  <2> QED BY <1>5, <1>6, <2>1, <2>2 DEF DetInv
<1>11. PoolInv /\ VencInv
  BY <1>2, <1>5, <1>6 DEF PoolInv, VencInv, Holding
<1> QED BY <1>0, <1>6, <1>7, <1>8, <1>9, <1>10, <1>11 DEF VideoInv, CallsInv, PtrInv, CallInv

\* Every step preserves it.
LEMMA VideoInvStep == VideoInv /\ [Next]_vars => VideoInv'
<1> SUFFICES ASSUME VideoInv, [Next]_vars PROVE VideoInv'
  OBVIOUS
<1>0. VType /\ PoolInv /\ VencInv
  BY DEF VideoInv
<1>1. ASSUME ~crashed, NEW c \in Controllers, ControlStep(c) PROVE VideoInv'
  <2>1. VType' /\ PoolInv' /\ VencInv'
    BY <1>0, <1>1, VTypeControl, PipeControl
  <2> QED BY <1>1, <2>1, ControlInv DEF VideoInv
<1>2. ASSUME ~crashed, NEW t \in Threads, StreamStep(t) PROVE VideoInv'
  <2>1. VType' /\ PoolInv' /\ VencInv'
    BY <1>0, <1>2, VTypeStream, PipeStream
  <2> QED BY <1>2, <2>1, StreamInv DEF VideoInv
<1>3. ASSUME ~crashed, Other PROVE VideoInv'
  <2>1. VType' /\ PoolInv' /\ VencInv'
    BY <1>0, <1>3, VTypeOther, PipeOther
  <2> QED BY <1>3, <2>1, OtherInv DEF VideoInv
<1>4. CASE UNCHANGED vars
  <2>1. VType' /\ PoolInv' /\ VencInv' /\ SidesInv'
    BY <1>4 DEF VideoInv, CallsInv, VType, PoolInv, VencInv, SidesInv, vars
  <2>2. PtrInv /\ UpInv => PtrInv' /\ UpInv'
    BY <1>4 DEF PtrInv, RegionInv, HandleInv, FlagInv, UpInv, Alive, vars
  <2>3. CallInv => CallInv'
    BY <1>4 DEF CallInv, OneCall, WaitInv, DownInv, SleepInv, SettingsInv, DetInv,
                RestartDue, vars
  <2> QED BY <1>4, <2>1, <2>2, <2>3 DEF VideoInv, CallsInv, vars
<1> QED BY <1>1, <1>2, <1>3, <1>4 DEF Next, Goes, Other

\* It holds for ever.
LEMMA VideoInvariant == Spec => []VideoInv
BY VideoInvInit, VideoInvStep, PTL DEF Spec

----------------------------------------------------------------------------
(* What follows. *)

\* video_stop_streaming and video_start_streaming read streaming_thread again
\* at every use, without a lock between the detector and the calls: every use
\* finds a handle that is allocated, not joined and not being joined, whatever
\* fails and wherever calls and restarts come together, until two of them are
\* between the look at the pointer and the assignment that follows it.
THEOREM HandlesStayApart == Spec => []HandlesApart
<1>1. VideoInv => HandlesApart
  BY DEF VideoInv, CallsInv, HandlesApart
<1> QED BY <1>1, VideoInvariant, PTL

\* Once the calls have returned, the stream is as VideoStart, VideoStop and
\* VideoSetSleepMode left it, through any number of restarts by a change of
\* quality or of the source: one that was stopped is down until a restart of the
\* detector and a call are under way together, and one that was started is up
\* until two of them are between their look at the pointer and the assignment.
THEOREM StreamFollowsCalls == Spec => []CallsHonoured
<1>1. VideoInv => CallsHonoured
  <2> SUFFICES ASSUME VideoInv, overlap # "sections"
               PROVE  StartHonoured /\ (overlap = "none" => StopHonoured)
    BY DEF CallsHonoured
  <2>1. VType /\ HandleInv /\ FlagInv /\ UpInv /\ (overlap = "none" => DownInv)
    BY DEF VideoInv, CallsInv, PtrInv, CallInv
  <2>2. ASSUME Quiet PROVE \A c \in Controllers : ctl[c].pc = "idle"
    BY <2>2 DEF Quiet, Idle
  <2>3. ASSUME Quiet
        PROVE  /\ mem = {ptr} \ {NoThread} /\ (flag <=> ptr # NoThread)
               /\ \A t \in Threads : thr[t].pc # "joined"
    BY <2>1, <2>2, <2>3 DEF HandleInv, FlagInv, Section, StopSection, StartSection
  <2>4. ASSUME overlap = "none" PROVE StopHonoured
    BY <2>1, <2>2, <2>3, <2>4 DEF StopHonoured, DownInv, HandleInv, Alive, Controllers
  <2>5. StartHonoured
    <3> SUFFICES ASSUME Quiet, want, ~aborted PROVE flag /\ ptr # NoThread /\ Alive(ptr)
      BY DEF StartHonoured
    <3>1. flag
      BY <2>1, <2>2 DEF UpInv, StopSection
    <3>2. ptr \in Threads /\ ptr \in mem
      BY <2>1, <2>3, <3>1 DEF VType
    <3> QED BY <2>1, <2>3, <3>1, <3>2 DEF HandleInv, FlagInv, Alive
  <2> QED BY <2>4, <2>5
<1> QED BY <1>1, VideoInvariant, PTL

\* venc_read_stream never uses a channel that venc_stop has destroyed, and one
\* thread at most feeds the channel: a second one finds no blocks, and gives up.
THEOREM ReaderStaysWithin == Spec => []ReaderWithinChannel
<1>1. VideoInv => ReaderWithinChannel
  <2> SUFFICES ASSUME VideoInv PROVE ReaderWithinChannel
    OBVIOUS
  <2> DEFINE S == {t \in Threads : thr[t].pc \in {"run", "cleanup", "joinreader"}}
  <2>1. \A t, u \in S : t = u
    BY DEF VideoInv, PoolInv, Holding
  <2>2. CASE S = {}
    <3>1. Cardinality(S) = 0
      BY <2>2, FS_EmptySet
    <3> QED BY <3>1 DEF VideoInv, VencInv, ReaderWithinChannel
  <2>3. ASSUME NEW t \in S PROVE ReaderWithinChannel
    <3>1. S = {t}
      BY <2>1
    <3>2. Cardinality(S) = 1
      BY <3>1, FS_Singleton
    <3> QED BY <3>2 DEF VideoInv, VencInv, ReaderWithinChannel
  <2> QED BY <2>2, <2>3
<1> QED BY <1>1, VideoInvariant, PTL

\* Every way through the cleanup of run_video_stream gives its blocks back,
\* whatever the calls and the detector do to each other.
THEOREM BlocksComeBack == Spec => []BlocksReturned
<1>1. VideoInv => BlocksReturned
  BY DEF VideoInv, PoolInv, BlocksReturned, Alive, Holding
<1> QED BY <1>1, VideoInvariant, PTL

\* The chip sleeps under a streaming thread only after a write to sleep_mode
\* that was to wake it has failed, or a restart came together with a call.
THEOREM ChipStaysAwake == Spec => []AwakeWhileStreaming
<1>1. VideoInv => AwakeWhileStreaming
  <2> SUFFICES ASSUME VideoInv, overlap = "none", sleep = "on", NEW t \in Threads, Alive(t)
               PROVE  FALSE
    BY DEF AwakeWhileStreaming
  <2>1. HandleInv /\ SleepInv
    BY DEF VideoInv, CallsInv, PtrInv, CallInv
  <2>2. ptr = NoThread /\ \A c \in Controllers : ctl[c].pc \notin {"null", "publish"}
    BY <2>1 DEF SleepInv
  <2>3. mem = {}
    BY <2>1, <2>2 DEF HandleInv
  <2> QED BY <2>1, <2>3 DEF HandleInv, Alive
<1> QED BY <1>1, VideoInvariant, PTL

\* The parameters venc_start computes are in order for every source and every
\* quality: the rates have their order, a key frame comes about every half
\* second, and the virtual size is whole and covers the frame.
LEMMA AttrSound ==
  ASSUME NEW q \in Qualities, NEW f \in Formats, NEW c \in Codecs
  PROVE  LET attr == populate_venc_attr(calculate_bitrate(q, f.size), f.size, f.fps, c)
         IN /\ attr.size = f.size /\ attr.codec = c /\ attr.rate = calculate_bitrate(q, f.size)
            /\ 0 < attr.min /\ attr.min <= attr.rate /\ attr.rate < attr.max
            /\ 1 <= attr.gop /\ f.fps - 2 * attr.gop \in {-1, 0, 1}
            /\ \A d \in {"w", "h"} : /\ attr.virtual[d] % 2 = 0
                                     /\ attr.virtual[d] - f.size[d] \in {0, 1}
<1> DEFINE rate == calculate_bitrate(q, f.size)
           attr == populate_venc_attr(rate, f.size, f.fps, c)
<1>0. f.size \in Sizes /\ f.fps \in Nat \ {0} /\ q \in Nat
  BY VideoAssumption DEF Formats
<1>1. f.size.w \in Nat \ {0} /\ f.size.h \in Nat \ {0}
  BY <1>0 DEF Sizes
<1>2. rate \in Nat /\ rate >= 200
  <2> DEFINE base == 512 + ((4000 - 512) * q) \div 10
             area == f.size.w * f.size.h
  <2>1. base \in Int /\ area \in Int
    BY <1>0, <1>1
  <2> HIDE DEF base, area
  <2>2. base * area \in Int
    BY <2>1
  <2>3. (base * area) \div 32400 \in Int
    BY <2>2
  <2>4. rate = (IF (base * area) \div 32400 < 200 THEN 200 ELSE (base * area) \div 32400)
    BY DEF calculate_bitrate, Area, FullHD, base, area
  <2> QED BY <2>3, <2>4
<1> HIDE DEF rate
<1>3. /\ attr.size = f.size /\ attr.codec = c /\ attr.rate = rate
      /\ attr.max = (rate * 3) \div 2
      /\ attr.min = (IF rate \div 2 < 2 THEN 2 ELSE rate \div 2)
      /\ attr.gop = Gop(f.fps)
      /\ attr.virtual = [w |-> RK_ALIGN_16(f.size.w), h |-> RK_ALIGN_16(f.size.h)]
  BY DEF populate_venc_attr
<1> HIDE DEF attr
<1>4. 0 < attr.min /\ attr.min <= attr.rate /\ attr.rate < attr.max
  BY <1>2, <1>3
<1>5. 1 <= attr.gop /\ f.fps - 2 * attr.gop \in {-1, 0, 1}
  BY <1>0, <1>3 DEF Gop
<1>6. \A x \in Nat : RK_ALIGN_16(x) % 2 = 0 /\ RK_ALIGN_16(x) - x \in {0, 1}
  BY DEF RK_ALIGN_16
<1>7. \A d \in {"w", "h"} : attr.virtual[d] = RK_ALIGN_16(f.size[d]) /\ f.size[d] \in Nat
  BY <1>1, <1>3
<1> QED BY <1>3, <1>4, <1>5, <1>6, <1>7 DEF attr, rate

\* The encoder is set up for what is captured although the detector stores a
\* new format, field by field, at any moment; and until a restart and a call are
\* under way together it has the size of the source, and the quality and the
\* codec that were asked for, once the calls have returned.
THEOREM EncoderStaysRight == Spec => []EncoderRight
<1>1. VideoInv => EncoderRight
  <2> SUFFICES ASSUME VideoInv PROVE EncoderRight
    OBVIOUS
  <2>0. VType /\ VencInv /\ (overlap = "none" => DetInv /\ SettingsInv)
    BY DEF VideoInv, CallsInv, CallInv
  <2>1. ASSUME Quiet PROVE ctl["rpc"].pc = "idle" /\ ctl["det"].pc = "idle"
    BY <2>1 DEF Quiet, Idle, Controllers
  <2>2. /\ set.quality \in Qualities /\ set.codec \in Codecs /\ det \in DetType
        /\ \A t \in Threads : thr[t].fmt \in Formats
    BY <2>0 DEF VType, ThrType
  <2>3. EncoderSound
    BY <2>0, <2>2, AttrSound DEF EncoderSound, VencInv
  <2>4. ASSUME overlap = "none" PROVE EncoderCurrent
    <3> SUFFICES ASSUME Quiet, det.pc = "wait", ~event, NEW t \in Threads, thr[t].pc = "run", signal
                 PROVE  thr[t].fmt.size = source.size
      BY DEF EncoderCurrent
    <3>1. ~RestartDue
      BY <2>0, <2>1, <2>4 DEF RestartDue, Stopping, VideoInv, CallsInv, SidesInv
    <3>2. source # NoSignal /\ detected.size.w = source.size.w /\ detected.size.h = source.size.h
      BY <2>0, <2>4 DEF DetInv
    <3>3. thr[t].fmt.size.w = source.size.w /\ thr[t].fmt.size.h = source.size.h
      BY <2>0, <2>4, <3>1, <3>2 DEF DetInv
    <3>4. thr[t].fmt.size \in Sizes /\ source.size \in Sizes
      BY <2>0, <2>2, <3>2 DEF VType, Signals, Formats
    <3> QED BY <3>3, <3>4 DEF Sizes
  <2>5. ASSUME overlap = "none" PROVE EncoderSettings
    <3> SUFFICES ASSUME Quiet, NEW t \in Threads, thr[t].pc = "run"
                 PROVE  /\ venc.attr.codec = set.codec
                        /\ venc.attr.rate = calculate_bitrate(set.quality, thr[t].fmt.size)
      BY DEF EncoderSettings
    <3>1. venc.attr = populate_venc_attr(calculate_bitrate(set.quality, thr[t].fmt.size),
                                         thr[t].fmt.size, thr[t].fmt.fps, set.codec)
      BY <2>0, <2>1, <2>5 DEF SettingsInv, Stopping
    <3> QED BY <2>2, <3>1, AttrSound
  <2> QED BY <2>3, <2>4, <2>5 DEF EncoderRight
<1> QED BY <1>1, VideoInvariant, PTL

\* video_stop_streaming joins a thread that sees the flag wherever it waits, and
\* video_start_streaming finds room for a thread: no call waits for something
\* that has to fail or to come from outside, for any number of calls, restarts
\* and failures, until two calls are between their look at the pointer and the
\* assignment to it.
THEOREM CallsNeverWaitForEver == Spec => []NoWaitForEver
<1>1. Init => VideoInv /\ Threads # {}
  BY VideoInvInit DEF Init
<1>2. VideoInv /\ Threads # {} /\ [Next]_vars => (VideoInv /\ Threads # {})'
  BY VideoInvStep
<1>3. ASSUME VideoInv, Threads # {} PROVE NoWaitForEver
  <2> SUFFICES ASSUME overlap # "sections", NEW c \in Controllers, ctl[c].pc # "idle"
               PROVE  CallGoesOn(c) \/ (ctl[c].pc = "joining" /\ ThreadGoesOn(ctl[c].thread))
    BY DEF NoWaitForEver
  <2>0. VType /\ VencInv /\ RegionInv /\ HandleInv /\ FlagInv
    BY <1>3 DEF VideoInv, CallsInv, PtrInv
  <2>1. CASE ctl[c].pc \notin {"joining", "create"}
    BY <2>1 DEF CallGoesOn
  <2>2. ASSUME ctl[c].pc \in {"joining", "create"}
        PROVE  \A d \in Controllers : ctl[d].pc \notin {"free", "null", "publish"}
    BY <2>0, <2>2 DEF RegionInv, Section, StopSection, StartSection
  <2>3. CASE ctl[c].pc = "create"
    <3>1. ptr = NoThread
      BY <2>0, <2>3 DEF HandleInv, StartSection
    <3>2. \A t \in Threads : thr[t].pc = "none" /\ t \notin mem
      BY <2>0, <2>2, <2>3, <3>1 DEF HandleInv
    <3> QED BY <1>3, <2>3, <3>2 DEF CallGoesOn
  <2>4. CASE ctl[c].pc = "joining"
    <3> DEFINE t == ctl[c].thread
    <3>1. ~flag /\ t = ptr /\ t \in Threads
      BY <2>0, <2>4 DEF HandleInv, FlagInv, VType, StopSection
    <3>2. t \in mem
      BY <2>0, <2>2, <2>4, <3>1, VideoAssumption DEF HandleInv
    <3>3. thr[t].pc \notin {"none", "joined"}
      BY <2>0, <2>2, <2>4, <3>1, <3>2 DEF HandleInv
    <3>4. thr[t].pc = "exited" \/ ThreadGoesOn(t)
      BY <2>0, <3>1, <3>3 DEF ThreadGoesOn, VencInv, Alive
    <3> QED BY <2>4, <3>4 DEF CallGoesOn
  <2> QED BY <2>1, <2>3, <2>4
<1> QED BY <1>1, <1>2, <1>3, PTL DEF Spec
============================================================================
