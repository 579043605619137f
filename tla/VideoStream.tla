---------------------------- MODULE VideoStream ----------------------------
(***************************************************************************)
(* The capture and encoding pipeline of internal/native/cgo/video.c.       *)
(*                                                                         *)
(* Four kinds of threads share it: the RPC side (start, stop, sleep and    *)
(* set-quality calls, one at a time under videoLock of native/video.go),   *)
(* the format detector (run_detect_format, which restarts the stream and   *)
(* takes no lock the RPC side takes), the streaming threads they create    *)
(* (run_video_stream) and the encoder's reader (venc_read_stream).         *)
(*                                                                         *)
(* The two controllers may be in calls at the same time, at any statements.*)
(* A use of a pthread_t that is NULL, freed, joined already or being       *)
(* joined by another thread is undefined behaviour; the model stops there  *)
(* with crashed = TRUE.                                                    *)
(***************************************************************************)
EXTENDS Encoder, FiniteSets

CONSTANTS Threads,    \* bound: streaming threads not joined and freed yet
          Qualities,  \* quality factors users ask for
          FirstQuality, \* NativeOptions.DefaultQualityFactor
          FirstSource,\* the source at start-up
          Scopes,     \* what happens around the stream: see scope
          NoThread, NoSignal

InputBufferCount == 3

Ops == {"start", "stop", "sleep", "quality", "codec"}
Faults == {"create", "buffers", "venc", "reader", "capture", "query", "event"}
Codecs == {0, 1}   \* H.264 and H.265
Signals == [size : Sizes, rate : Nat]

ASSUME VideoAssumption ==
  /\ NoThread \notin Threads
  /\ Qualities \subseteq Nat \ {0} /\ FirstQuality \in Qualities
  /\ FirstSource \in Signals /\ NoSignal \notin Signals
  /\ \A s \in Scopes :
       /\ s.ops \subseteq Ops /\ s.faults \subseteq Faults /\ {s.up, s.race} \subseteq BOOLEAN
       /\ s.sources \subseteq Signals \cup {NoSignal}

Controllers == {"rpc", "det"}
FormatOf(signal) == [size |-> signal.size, fps |-> RoundedFps(signal.rate)]

VARIABLES
  flag,      \* streaming_flag
  stopped,   \* streaming_stopped
  ptr,       \* streaming_thread
  mem,       \* threads whose pthread_t is allocated
  thr,       \* the streaming threads
  pool,      \* free blocks of memPool
  venc,      \* the encoder: channel, venc_running, venc_read_thread
  ctl,       \* per controller: the call it makes and where it is in it
  det,       \* run_detect_format between its calls
  detected,  \* detected_width, detected_height (size) and detected_fps
  signal,    \* detected_signal
  source,    \* the HDMI source itself
  event,     \* a SOURCE_CHANGE event is queued
  sleep,     \* the sleep_mode file: it reads 0, or 1, and is "stuck" at 1 when a
             \* write that was to wake the chip has failed
  crashed,   \* history: undefined behaviour was reached
  aborted,   \* history: a streaming thread returned early, or was not created
  want,      \* history: the last RPC call that starts or stops was a start
  overlap,   \* history: what of the two controllers came together
  set,       \* quality_factor and codec_type
  scope      \* the calls, sources and faults of this behaviour, whether a stream
             \* is up when it begins and, a bound, whether it is followed any
             \* further when overlap has become "sections"

pipe   == <<thr, pool, venc, aborted>>
shared == <<flag, stopped, ptr, mem>>
world  == <<det, detected, signal, source, event>>
param  == <<set, scope, overlap>>
vars   == <<flag, stopped, ptr, mem, thr, pool, venc, ctl, det, detected, signal,
            source, event, sleep, crashed, aborted, want, overlap, set, scope>>

Known == {FirstSource} \cup (scope.sources \ {NoSignal})
Detectable == [size : [w : {f.size.w : f \in Known}, h : {f.size.h : f \in Known}],
               fps : {RoundedFps(f.rate) : f \in Known}]

\* The statements between a look at streaming_thread that decides to stop or to
\* start a thread, and the assignment to it.
StopSection  == {"unflag", "wait", "join", "joining", "free", "null"}
StartSection == {"create", "publish"}
Section == StopSection \cup StartSection

CtlPCs == {"idle", "status", "nap", "napwait", "napwrite", "wake", "stop", "rewait",
           "start"} \cup Section
ThreadPCs == {"none", "new", "loop", "height", "rate", "alloc", "venc", "run", "cleanup",
              "joinreader", "release", "leaving", "exited", "joined"}
Idle == [pc |-> "idle", op |-> "none", thread |-> NoThread]
NoStream == [pc |-> "none", fmt |-> FormatOf(FirstSource)]
NoAttr == [codec |-> -1]
NoVenc == [channel |-> FALSE, running |-> FALSE, reader |-> "none", attr |-> NoAttr]

TypeOK ==
  /\ {flag, stopped, signal, event, crashed, aborted, want} \subseteq BOOLEAN
  /\ sleep \in {"off", "on", "stuck"} /\ overlap \in {"none", "calls", "sections"}
  /\ ptr \in Threads \cup {NoThread}
  /\ mem \subseteq Threads
  /\ thr \in [Threads -> [pc : ThreadPCs, fmt : Detectable]]
  /\ pool \in 0..InputBufferCount
  /\ {venc.channel, venc.running} \subseteq BOOLEAN
  /\ venc.reader \in {"none", "alive", "dead", "garbage"}
  /\ venc.channel <=> venc.attr # NoAttr
  /\ ctl \in [Controllers -> [pc : CtlPCs, thread : Threads \cup {NoThread},
                              op : scope.ops \cup {"none", "restart"}]]
  /\ det \in [pc : {"query", "height", "store", "busy", "wait", "dead"},
              fmt : Detectable, restart : BOOLEAN]
  /\ detected \in Detectable
  /\ source \in Known \cup {NoSignal}
  /\ set \in [quality : Qualities, codec : Codecs]
  /\ scope \in Scopes

\* The process has detected the source; a stream is up, as after a start that
\* nothing disturbed, or none was ever started.
Init ==
  /\ scope \in Scopes
  /\ flag = scope.up /\ stopped = ~scope.up /\ want = scope.up
  /\ \E t \in Threads :
       /\ ptr = IF scope.up THEN t ELSE NoThread
       /\ mem = {ptr} \ {NoThread}
       /\ thr = [u \in Threads |->
                   IF u = ptr THEN [NoStream EXCEPT !.pc = "loop"] ELSE NoStream]
  /\ pool = InputBufferCount
  /\ venc = NoVenc
  /\ ctl = [c \in Controllers |-> Idle]
  /\ detected = FormatOf(FirstSource) /\ signal = TRUE
  /\ det = [pc |-> "wait", fmt |-> detected, restart |-> FALSE]
  /\ source = FirstSource /\ event = FALSE
  /\ sleep \in (IF scope.up THEN {"off"} ELSE {"off", "on"})
  /\ crashed = FALSE /\ aborted = FALSE /\ overlap = "none"
  /\ set = [quality |-> FirstQuality, codec |-> 0]

----------------------------------------------------------------------------
(* Control: video_start_streaming, video_stop_streaming,                   *)
(* video_restart_streaming and setSleepMode, statement by statement.       *)

Fails(call) == call \in scope.faults

Goto(c, pc) == ctl' = [ctl EXCEPT ![c].pc = pc]
Return(c) == ctl' = [ctl EXCEPT ![c] = Idle]

\* video_get_streaming_status: 1 running, 2 stopping, 0 stopped.
Status == IF flag THEN 1 ELSE IF ~stopped THEN 2 ELSE 0

Crash(c) ==
  /\ crashed' = TRUE
  /\ UNCHANGED <<shared, thr, ctl>>

video_set_quality_factor(q) == set' = [set EXCEPT !.quality = q]
video_set_codec_type(c) == set' = [set EXCEPT !.codec = c]

\* VideoStart, the detector and a stream that gets no frame write 0 to the
\* sleep_mode file, which may fail: none of them looks.
WriteAwake == sleep' \in {"off", IF sleep = "off" THEN "off" ELSE "stuck"}
ensure_sleep_mode_disabled == WriteAwake

\* Two calls are under way at once ...
CallBegins(c) ==
  overlap' = IF overlap = "none" /\ \E d \in Controllers \ {c} : ctl[d] # Idle
             THEN "calls" ELSE overlap
\* ... and two of them between their look at the pointer and the assignment.
SectionBegins(c) ==
  overlap' = IF \E d \in Controllers \ {c} : ctl[d].pc \in Section
             THEN "sections" ELSE overlap

FirstPC(op) == CASE op = "start" -> "wake"
                 [] op = "stop"  -> "stop"
                 [] op = "sleep" -> "nap"
                 [] op = "quality" -> "status"

\* VideoStart, VideoStop, VideoSetSleepMode(true) or VideoSetQualityFactor,
\* which stores the factor and restarts the stream.
RpcCall(op) ==
  /\ ctl["rpc"] = Idle
  /\ op \in scope.ops \ {"codec"}
  /\ ctl' = [ctl EXCEPT !["rpc"] = [Idle EXCEPT !.pc = FirstPC(op), !.op = op]]
  /\ want' = IF op = "quality" THEN want ELSE op = "start"
  /\ CallBegins("rpc")
  /\ IF op = "quality" THEN \E q \in Qualities : video_set_quality_factor(q)
                       ELSE UNCHANGED set
  /\ UNCHANGED <<pipe, shared, world, sleep, crashed, scope>>

\* VideoSetCodecType, which startNativeVideoForSession calls before VideoStart.
SetCodec ==
  /\ ctl["rpc"] = Idle
  /\ "codec" \in scope.ops /\ ~want
  /\ \E c \in Codecs : video_set_codec_type(c)
  /\ UNCHANGED <<pipe, shared, world, ctl, sleep, crashed, want, scope, overlap>>

\* Mutant: the stream is started without a word to the chip.
WakeNot(c) ==
  /\ ctl[c].pc = "wake"
  /\ Goto(c, "start")
  /\ UNCHANGED <<pipe, shared, world, sleep, crashed, want, param>>

\* VideoStart turns sleep mode off before it starts the stream, and starts it
\* all the same when that fails.
Wake(c) ==
  /\ ctl[c].pc = "wake"
  /\ WriteAwake
  /\ Goto(c, "start")
  /\ UNCHANGED <<pipe, shared, world, crashed, want, param>>

\* setSleepMode(true): a running stream is stopped first, and waited for; one
\* that is down is not looked at again.
Nap(c) ==
  /\ ctl[c].pc = "nap"
  /\ Goto(c, CASE Status = 1 -> "stop" [] Status = 2 -> "napwait" [] Status = 0 -> "napwrite")
  /\ UNCHANGED <<pipe, shared, world, sleep, crashed, want, param>>

\* waitForVideoStreamingStatus(inactive): a timeout of 3 s gives the call up.
NapWait(c) ==
  /\ ctl[c].pc = "napwait"
  /\ IF Status = 0 THEN Goto(c, "napwrite") ELSE Return(c)
  /\ UNCHANGED <<pipe, shared, world, sleep, crashed, want, param>>

\* The write, which may fail.
NapWrite(c) ==
  /\ ctl[c].pc = "napwrite"
  /\ sleep' \in {"on", sleep}
  /\ Return(c)
  /\ UNCHANGED <<pipe, shared, world, crashed, want, param>>

\* Mutant: a restart does not look whether there is a stream.
RestartAnyway(c) ==
  /\ ctl[c].pc = "status"
  /\ Goto(c, "stop")
  /\ UNCHANGED <<pipe, shared, world, sleep, crashed, want, param>>

RestartStatus(c) ==
  /\ ctl[c].pc = "status"
  /\ IF Status = 0 THEN Return(c) ELSE Goto(c, "stop")
  /\ UNCHANGED <<pipe, shared, world, sleep, crashed, want, param>>

\* Where a controller goes when video_stop_streaming returns.
AfterStop(c) ==
  CASE ctl[c].op \in {"restart", "quality"} -> Goto(c, "rewait")
    [] ctl[c].op = "sleep" -> Goto(c, "napwait")
    [] OTHER -> Return(c)

StopBegin(c) ==
  /\ ctl[c].pc = "stop"
  /\ IF ptr = NoThread
       THEN AfterStop(c) /\ UNCHANGED overlap
       ELSE Goto(c, "unflag") /\ SectionBegins(c)
  /\ UNCHANGED <<pipe, shared, world, sleep, crashed, want, set, scope>>

\* Mutant: the streaming thread is not told to stop.
StopSilently(c) ==
  /\ ctl[c].pc = "unflag"
  /\ Goto(c, "wait")
  /\ UNCHANGED <<pipe, shared, world, sleep, crashed, want, param>>

StopUnflag(c) ==
  /\ ctl[c].pc = "unflag"
  /\ flag' = FALSE
  /\ Goto(c, "wait")
  /\ UNCHANGED <<pipe, stopped, ptr, mem, world, sleep, crashed, want, param>>

\* wait_for_streaming_stopped, whose result stop ignores: 3 s may pass.
StopWait(c) ==
  /\ ctl[c].pc = "wait"
  /\ Goto(c, "join")
  /\ UNCHANGED <<pipe, shared, world, sleep, crashed, want, param>>

\* pthread_join(*streaming_thread): the pointer is read again here.
StopJoin(c) ==
  /\ ctl[c].pc = "join"
  /\ IF \/ ptr \notin mem
        \/ thr[ptr].pc = "joined"
        \/ \E d \in Controllers : ctl[d].pc = "joining" /\ ctl[d].thread = ptr
       THEN Crash(c)
       ELSE /\ ctl' = [ctl EXCEPT ![c].pc = "joining", ![c].thread = ptr]
            /\ UNCHANGED <<shared, thr, crashed>>
  /\ UNCHANGED <<pool, venc, aborted, world, sleep, want, param>>

StopJoined(c) ==
  /\ ctl[c].pc = "joining"
  /\ thr[ctl[c].thread].pc = "exited"
  /\ thr' = [thr EXCEPT ![ctl[c].thread].pc =
               IF ctl[c].thread \in mem THEN "joined" ELSE "none"]
  /\ ctl' = [ctl EXCEPT ![c].pc = "free", ![c].thread = NoThread]
  /\ UNCHANGED <<pool, venc, aborted, shared, world, sleep, crashed, want, param>>

\* free(streaming_thread), read once more; free(NULL) does nothing.
StopFree(c) ==
  /\ ctl[c].pc = "free"
  /\ IF ptr \in Threads \ mem
       THEN Crash(c)
       ELSE /\ mem' = mem \ {ptr}
            /\ thr' = [t \in Threads |-> IF t = ptr /\ thr[t].pc = "joined"
                                           THEN NoStream ELSE thr[t]]
            /\ Goto(c, "null")
            /\ UNCHANGED <<flag, stopped, ptr, crashed>>
  /\ UNCHANGED <<pool, venc, aborted, world, sleep, want, param>>

\* Mutant: the pointer is left dangling after free.
StopKeepsPointer(c) ==
  /\ ctl[c].pc = "null"
  /\ AfterStop(c)
  /\ UNCHANGED <<pipe, shared, world, sleep, crashed, want, param>>

StopNull(c) ==
  /\ ctl[c].pc = "null"
  /\ ptr' = NoThread
  /\ AfterStop(c)
  /\ UNCHANGED <<pipe, flag, stopped, mem, world, sleep, crashed, want, param>>

\* The second wait of video_restart_streaming: on a timeout it gives up.
RestartWait(c) ==
  /\ ctl[c].pc = "rewait"
  /\ \/ stopped /\ Goto(c, "start")
     \/ ~stopped /\ Return(c)
  /\ UNCHANGED <<pipe, shared, world, sleep, crashed, want, param>>

\* video_start_streaming returns when there is a thread already, even one
\* that has ended: the assertion there tests what was just tested.
StartBegin(c) ==
  /\ ctl[c].pc = "start"
  /\ IF ptr # NoThread
       THEN Return(c) /\ UNCHANGED <<flag, overlap>>
       ELSE Goto(c, "create") /\ flag' = TRUE /\ SectionBegins(c)
  /\ UNCHANGED <<pipe, stopped, ptr, mem, world, sleep, crashed, want, set, scope>>

\* pthread_create; the pointer is published only afterwards.
StartCreate(c) ==
  /\ ctl[c].pc = "create"
  /\ \/ \E t \in Threads :
          /\ thr[t].pc = "none" /\ t \notin mem
          /\ thr' = [thr EXCEPT ![t].pc = "new"]
          /\ mem' = mem \cup {t}
          /\ ctl' = [ctl EXCEPT ![c].pc = "publish", ![c].thread = t]
          /\ UNCHANGED <<flag, aborted>>
     \/ /\ Fails("create")
        /\ flag' = FALSE /\ aborted' = TRUE
        /\ Return(c)
        /\ UNCHANGED <<thr, mem>>
  /\ UNCHANGED <<pool, venc, stopped, ptr, world, sleep, crashed, want, param>>

StartPublish(c) ==
  /\ ctl[c].pc = "publish"
  /\ ptr' = ctl[c].thread
  /\ Return(c)
  /\ UNCHANGED <<pipe, flag, stopped, mem, world, sleep, crashed, want, param>>

ControlStep(c) ==
  \/ Wake(c) \/ Nap(c) \/ NapWait(c) \/ NapWrite(c) \/ RestartStatus(c)
  \/ StopBegin(c) \/ StopUnflag(c) \/ StopWait(c) \/ StopJoin(c)
  \/ StopJoined(c) \/ StopFree(c) \/ StopNull(c)
  \/ RestartWait(c) \/ StartBegin(c) \/ StartCreate(c) \/ StartPublish(c)

----------------------------------------------------------------------------
(* A streaming thread: run_video_stream. *)

Move(t, pc) == thr' = [thr EXCEPT ![t].pc = pc]

StreamBegin(t) ==
  /\ thr[t].pc = "new"
  /\ stopped' = FALSE
  /\ Move(t, "loop")
  /\ UNCHANGED <<pool, venc, aborted, flag, ptr, mem, ctl, world, sleep, crashed, want, param>>

\* The top of the outer loop.  Without a signal, and while the device cannot be
\* opened, the thread sleeps and tries again; otherwise it reads the detected
\* format, field by field, while the detector may be storing another one.
StreamConfigure(t) ==
  /\ thr[t].pc = "loop" /\ flag /\ signal
  /\ thr' = [thr EXCEPT ![t] = [pc |-> "height", fmt |-> [@.fmt EXCEPT !.size.w = detected.size.w]]]
  /\ UNCHANGED <<pool, venc, aborted, shared, ctl, world, sleep, crashed, want, param>>

ReadHeight(t) ==
  /\ thr[t].pc = "height"
  /\ thr' = [thr EXCEPT ![t] = [pc |-> "rate", fmt |-> [@.fmt EXCEPT !.size.h = detected.size.h]]]
  /\ UNCHANGED <<pool, venc, aborted, shared, ctl, world, sleep, crashed, want, param>>

\* The device takes the format, or the thread begins again.
ReadRate(t) ==
  /\ thr[t].pc = "rate"
  /\ \E pc \in {"alloc"} \cup (IF Fails("capture") THEN {"loop"} ELSE {}) :
       thr' = [thr EXCEPT ![t] = [pc |-> pc, fmt |-> [@.fmt EXCEPT !.fps = detected.fps]]]
  /\ UNCHANGED <<pool, venc, aborted, shared, ctl, world, sleep, crashed, want, param>>

StreamLeave(t) ==
  /\ thr[t].pc = "loop" /\ ~flag
  /\ Move(t, "leaving")
  /\ UNCHANGED <<pool, venc, aborted, shared, ctl, world, sleep, crashed, want, param>>

\* The buffers: REQBUFS, QUERYBUF, GetMB, QBUF and STREAMON for all of them.
StreamAlloc(t) ==
  /\ thr[t].pc = "alloc" /\ pool = InputBufferCount /\ FitsBlock(thr[t].fmt.size)
  /\ pool' = 0
  /\ Move(t, "venc")
  /\ UNCHANGED <<venc, aborted, shared, ctl, world, sleep, crashed, want, param>>

\* Any of those failing returns from the thread at once: the n blocks taken
\* so far are not given back, and streaming_stopped is not set.
StreamAbort(t, n) ==
  /\ thr[t].pc = "alloc"
  /\ n <= pool
  /\ IF FitsBlock(thr[t].fmt.size)
       THEN Fails("buffers") \/ (n = pool /\ pool < InputBufferCount)
       ELSE n = 0
  /\ pool' = pool - n
  /\ aborted' = TRUE
  /\ Move(t, "exited")
  /\ UNCHANGED <<venc, shared, ctl, world, sleep, crashed, want, param>>

\* Mutant: the detected format is read again.
AttrForDetected(t) ==
  populate_venc_attr(calculate_bitrate(set.quality, detected.size),
                     detected.size, detected.fps, set.codec)

\* What the channel is created with: the format the thread has read, and the
\* settings of this moment.
AttrFor(t) ==
  populate_venc_attr(calculate_bitrate(set.quality, thr[t].fmt.size),
                     thr[t].fmt.size, thr[t].fmt.fps, set.codec)

\* CreateChn refuses a channel that exists.
CreateChn(t, running, reader) ==
  /\ ~venc.channel
  /\ venc' = [channel |-> TRUE, running |-> running, reader |-> reader, attr |-> AttrFor(t)]

\* venc_start: CreateChn, StartRecvFrame, and the reader thread.  A VUI that
\* cannot be set is only logged.
VencStart(t) ==
  /\ thr[t].pc = "venc"
  /\ \/ CreateChn(t, TRUE, "alive") /\ Move(t, "run")
     \/ /\ venc.channel \/ Fails("venc")
        /\ UNCHANGED venc
        /\ Move(t, "cleanup")
     \/ Fails("venc") /\ CreateChn(t, venc.running, venc.reader) /\ Move(t, "cleanup")
     \/ Fails("reader") /\ CreateChn(t, TRUE, "garbage") /\ Move(t, "cleanup")
  /\ UNCHANGED <<pool, aborted, shared, ctl, world, sleep, crashed, want, param>>

\* The inner loop ends: the flag is down, a select timeout (which also wakes
\* the chip), or an error of select or DQBUF.
StreamEnd(t) ==
  /\ thr[t].pc = "run"
  /\ ~flag \/ Fails("capture")
  /\ UNCHANGED sleep \/ (flag /\ ensure_sleep_mode_disabled)
  /\ Move(t, "cleanup")
  /\ UNCHANGED <<pool, venc, aborted, shared, ctl, world, crashed, want, param>>

\* venc_stop up to StopRecvFrame, which fails without a channel: the early
\* return skips the join and DestroyChn.
VencStop(t) ==
  /\ thr[t].pc = "cleanup"
  /\ venc' = [venc EXCEPT !.running = FALSE]
  /\ \/ venc.channel /\ Move(t, "joinreader")
     \/ (~venc.channel \/ Fails("venc")) /\ Move(t, "release")
  /\ UNCHANGED <<pool, aborted, shared, ctl, world, sleep, crashed, want, param>>

\* Mutant: the channel goes without waiting for the reader.
VencDestroyNow(t) ==
  /\ thr[t].pc = "joinreader"
  /\ Move(t, "release")
  /\ venc' = [venc EXCEPT !.channel = FALSE, !.attr = NoAttr]
  /\ UNCHANGED <<pool, aborted, shared, ctl, world, sleep, want, crashed, param>>

\* The rest of venc_stop: join the reader, destroy the channel.  Joining a
\* pthread_t that pthread_create never filled in is undefined.
VencDestroy(t) ==
  /\ thr[t].pc = "joinreader"
  /\ venc.reader # "alive"
  /\ crashed' = (venc.reader = "garbage")
  /\ \E gone \in {TRUE} \cup (IF Fails("venc") THEN {FALSE} ELSE {}) :
       venc' = [venc EXCEPT !.channel = ~gone,
                            !.reader = IF @ = "garbage" THEN @ ELSE "none",
                            !.attr = IF gone THEN NoAttr ELSE @]
  /\ Move(t, "release")
  /\ UNCHANGED <<pool, aborted, shared, ctl, world, sleep, want, param>>

\* Mutant: the blocks are only given back when the channel is gone.
ReleaseIfDestroyed(t) ==
  /\ thr[t].pc = "release"
  /\ pool' = IF venc.channel THEN pool ELSE InputBufferCount
  /\ Move(t, "loop")
  /\ UNCHANGED <<venc, aborted, shared, ctl, world, sleep, crashed, want, param>>

StreamRelease(t) ==
  /\ thr[t].pc = "release"
  /\ pool' = pool + InputBufferCount
  /\ Move(t, "loop")
  /\ UNCHANGED <<venc, aborted, shared, ctl, world, sleep, crashed, want, param>>

StreamExit(t) ==
  /\ thr[t].pc = "leaving"
  /\ stopped' = TRUE
  /\ Move(t, "exited")
  /\ UNCHANGED <<pool, venc, aborted, flag, ptr, mem, ctl, world, sleep, crashed, want, param>>

StreamStep(t) ==
  \/ StreamBegin(t) \/ StreamConfigure(t) \/ ReadHeight(t) \/ ReadRate(t)
  \/ StreamLeave(t) \/ StreamAlloc(t)
  \/ \E n \in 0..InputBufferCount : StreamAbort(t, n)
  \/ VencStart(t) \/ StreamEnd(t) \/ VencStop(t) \/ VencDestroy(t)
  \/ StreamRelease(t) \/ StreamExit(t)

\* venc_read_stream returns when venc_running is down or GetStream fails.
ReaderExit ==
  /\ venc.reader = "alive"
  /\ ~venc.running \/ Fails("venc")
  /\ venc' = [venc EXCEPT !.reader = "dead"]
  /\ UNCHANGED <<thr, pool, aborted, shared, ctl, world, sleep, crashed, want, param>>

----------------------------------------------------------------------------
(* The format detector: run_detect_format, and the source it watches. *)

SourceChange(s) ==
  /\ s # source
  /\ source' = s /\ event' = TRUE
  /\ UNCHANGED <<pipe, shared, ctl, det, detected, signal, sleep, crashed, want, param>>

\* should_restart, taken on the values of the last round; a change of one
\* frame per second is tolerated.
ShouldRestart(s) ==
  \/ s.size # detected.size
  \/ s.fps > detected.fps + 1 \/ s.fps + 1 < detected.fps
  \/ ~signal

\* QUERY_DV_TIMINGS, after a write to sleep_mode.  With timings, the decision to
\* restart is taken and the width is stored; without a source there is no
\* signal; after any other error the query is made again.
DetectQuery ==
  /\ det.pc = "query"
  /\ ensure_sleep_mode_disabled
  /\ \/ /\ source # NoSignal
        /\ det' = [pc |-> "height", fmt |-> FormatOf(source),
                   restart |-> ShouldRestart(FormatOf(source))]
        /\ detected' = [detected EXCEPT !.size.w = source.size.w]
        /\ UNCHANGED signal
     \/ /\ source = NoSignal /\ det' = [det EXCEPT !.pc = "wait"]
        /\ signal' = FALSE /\ UNCHANGED detected
     \/ /\ Fails("query") /\ UNCHANGED det
        /\ signal' = FALSE /\ UNCHANGED detected
  /\ UNCHANGED <<pipe, shared, ctl, source, event, crashed, want, param>>

DetectHeight ==
  /\ det.pc = "height"
  /\ det' = [det EXCEPT !.pc = "store"]
  /\ detected' = [detected EXCEPT !.size.h = det.fmt.size.h]
  /\ UNCHANGED <<pipe, shared, ctl, signal, source, event, sleep, crashed, want, param>>

\* The rate and the signal, which no thread tells apart, as one that finds no
\* signal only looks again; and the restart.
DetectStore ==
  /\ det.pc = "store"
  /\ detected' = [detected EXCEPT !.fps = det.fmt.fps]
  /\ signal' = TRUE
  /\ IF det.restart
       THEN /\ ctl' = [ctl EXCEPT !["det"] = [Idle EXCEPT !.pc = "status", !.op = "restart"]]
            /\ CallBegins("det")
            /\ det' = [det EXCEPT !.pc = "busy", !.restart = FALSE]
       ELSE /\ det' = [det EXCEPT !.pc = "wait"]
            /\ UNCHANGED <<ctl, overlap>>
  /\ UNCHANGED <<pipe, shared, source, event, sleep, crashed, want, set, scope>>

DetectDone ==
  /\ det.pc = "busy" /\ ctl["det"] = Idle
  /\ det' = [det EXCEPT !.pc = "wait"]
  /\ UNCHANGED <<pipe, shared, ctl, detected, signal, source, event, sleep, crashed, want, param>>

\* DQEVENT: a failure ends the detector for good.
DetectEvent ==
  /\ det.pc = "wait"
  /\ \/ /\ event /\ event' = FALSE
        /\ det' = [det EXCEPT !.pc = "query"]
     \/ /\ Fails("event")
        /\ det' = [det EXCEPT !.pc = "dead"]
        /\ UNCHANGED event
  /\ UNCHANGED <<pipe, shared, ctl, detected, signal, source, sleep, crashed, want, param>>

DetectStep == DetectQuery \/ DetectHeight \/ DetectStore \/ DetectDone \/ DetectEvent

\* The model stops at undefined behaviour, and where scope says so.
Goes == ~crashed /\ (overlap = "sections" => scope.race)

Next ==
  /\ Goes
  /\ \/ \E op \in Ops : RpcCall(op)
     \/ SetCodec
     \/ \E c \in Controllers : ControlStep(c)
     \/ \E t \in Threads : StreamStep(t)
     \/ ReaderExit
     \/ \E s \in scope.sources : SourceChange(s)
     \/ DetectStep

Spec == Init /\ [][Next]_vars

\* The threads run; nothing is assumed of callers, of the source or of which
\* calls fail (a signal or a free block may never come).
Fairness ==
  /\ \A c \in Controllers : WF_vars(Goes /\ ControlStep(c))
  /\ \A t \in Threads : WF_vars(Goes /\ StreamStep(t))
  /\ WF_vars(Goes /\ ~venc.running /\ ReaderExit)

FairSpec == Spec /\ Fairness

----------------------------------------------------------------------------
(* Properties. *)

Alive(t) == thr[t].pc \notin {"none", "exited", "joined"}
Quiet == \A c \in Controllers : ctl[c] = Idle

\* No call uses a thread handle that is NULL, freed or joined already: the
\* unsynchronised streaming_thread pointer is only ever used by one call.
HandlesSound == ~crashed

\* The detector and the calls may share streaming_thread without a lock wherever
\* they come together, but between a look at it that decides to stop or to start
\* a thread and the assignment that follows: unless two of them were there at
\* once, or the encoder's reader could not be created, no handle is misused.
HandlesApart == crashed => overlap = "sections" \/ venc.reader = "garbage"

\* Once the calls have returned, a stream that was stopped last is down: no
\* thread is left running and nothing was restarted behind the caller's back.
StopHonoured == Quiet /\ ~want => ~flag /\ \A t \in Threads : ~Alive(t)

\* Once the calls have returned, a stream that was started last is up, unless
\* a streaming thread gave up on an error.
StartHonoured ==
  Quiet /\ want /\ ~aborted => flag /\ ptr # NoThread /\ Alive(ptr)

\* As long as no restart of the detector came together with a call, the stream is
\* as the last call left it: StopHonoured and StartHonoured.  The calls and the
\* restarts come in any order, and a call at any moment between the query of the
\* timings and the restart that follows from it.  A restart that comes together
\* with calls may undo a stop, but loses no start, unless two were between their
\* look at streaming_thread and the assignment to it.
CallsHonoured ==
  /\ overlap # "sections" => StartHonoured
  /\ overlap = "none" => StopHonoured

\* The reader never touches a channel that venc_stop has destroyed, and at
\* most one thread feeds the channel, also when two calls have used the thread
\* handle at once and there are two streaming threads.
ReaderWithinChannel ==
  /\ venc.reader = "alive" => venc.channel
  /\ Cardinality({t \in Threads : thr[t].pc \in {"run", "cleanup", "joinreader"}}) <= 1

\* Every way through the cleanup of run_video_stream gives the blocks back:
\* without an early return, no running thread means a full pool.
BlocksReturned ==
  ~aborted /\ (\A t \in Threads : ~Alive(t)) => pool = InputBufferCount

\* A stream is up while the capture chip is asleep only if a write that was to
\* wake it has failed, which nobody looks at, or if a restart came together with
\* a call.
AwakeWhileStreaming == overlap = "none" /\ (\E t \in Threads : Alive(t)) => sleep # "on"

\* When the detector has dealt with the last change, a stream that runs was
\* configured for the size the source has now, although it reads the width and
\* the height while the detector stores them.
EncoderCurrent ==
  Quiet /\ det.pc = "wait" /\ ~event =>
    \A t \in Threads : thr[t].pc = "run" /\ signal => thr[t].fmt.size = source.size

\* What the encoder was given fits what is captured: the format does not change
\* between the set-up of the device and that of the channel, although the
\* detector may store another one in between, and each parameter is in order
\* for every source: a rate between its bounds, a key frame about every half
\* second and at least every frame, whole macroblocks.
EncoderSound ==
  \A t \in Threads : thr[t].pc = "run" =>
    LET attr == venc.attr
        fmt  == thr[t].fmt
    IN /\ attr.size = fmt.size
       /\ 0 < attr.min /\ attr.min <= attr.rate /\ attr.rate < attr.max
       /\ 1 <= attr.gop /\ fmt.fps - 2 * attr.gop \in {-1, 0, 1}
       /\ \A d \in {"w", "h"} : /\ attr.virtual[d] % 2 = 0
                                /\ attr.virtual[d] - fmt.size[d] \in {0, 1}

\* Once the calls have returned, a stream that runs has the quality that was
\* set last, and the codec that was set before it was started.
EncoderSettings ==
  Quiet => \A t \in Threads : thr[t].pc = "run" =>
    /\ venc.attr.codec = set.codec
    /\ venc.attr.rate = calculate_bitrate(set.quality, thr[t].fmt.size)

\* The encoder is set up for what is captured, and, as long as no restart came
\* together with a call, for the source there is now and as it was asked to be.
EncoderRight ==
  /\ EncoderSound
  /\ overlap = "none" => EncoderCurrent /\ EncoderSettings

\* A call, and a streaming thread on its way out, can take a step that needs
\* neither a failure nor anything from outside: a call waits in pthread_join and
\* for the memory of a new thread; a thread waits for a signal, for a frame and,
\* in venc_stop, for the end of the reader, and each of these waits ends when
\* the flag, streaming_flag or venc_running, is down.
CallGoesOn(c) ==
  CASE ctl[c].pc = "joining" -> thr[ctl[c].thread].pc = "exited"
    [] ctl[c].pc = "create"  -> \E t \in Threads : thr[t].pc = "none" /\ t \notin mem
    [] OTHER                 -> TRUE
ThreadGoesOn(t) ==
  CASE thr[t].pc \in {"loop", "run"} -> ~flag
    [] thr[t].pc = "joinreader"      -> venc.reader = "alive" => ~venc.running
    [] OTHER                         -> Alive(t)

\* No call waits for ever: one that is under way can go on, or joins a thread
\* that can, also when there is no signal, no frame and no block left, and when
\* other calls are under way, unless two used the handle at once.
NoWaitForEver ==
  ~crashed /\ overlap # "sections" => \A c \in Controllers : ctl[c].pc # "idle" =>
    CallGoesOn(c) \/ (ctl[c].pc = "joining" /\ ThreadGoesOn(ctl[c].thread))

\* Every control call returns, whatever fails below it and whatever comes
\* together, unless two calls used the handle at once.
ControlReturns ==
  \A c \in Controllers :
    ctl[c].pc # "idle" ~> (ctl[c].pc = "idle" \/ crashed \/ overlap = "sections")
============================================================================
