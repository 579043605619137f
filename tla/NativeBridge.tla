---------------------------- MODULE NativeBridge ----------------------------
(***************************************************************************)
(* How events of the C code reach the main process, and how its calls      *)
(* reach the C code: the callbacks of ctrl.c, the channels of chan.go, the *)
(* event stream of grpc_server.go and grpc_client.go, and cgoLock.         *)
(*                                                                         *)
(* A callback runs on the thread that reports, often with cgoLock held,    *)
(* and returns when a goroutine has taken the event; that goroutine waits  *)
(* for room in eventStreamChan; and the main process, on its side, makes   *)
(* calls that need cgoLock while it handles an event.                      *)
(***************************************************************************)
EXTENDS Integers, Sequences, FiniteSets

CONSTANTS Streams,    \* bound: StreamEvents calls that have not ended
          ServerCap,  \* size of eventStreamChan, 100
          NetCap,     \* events a stream takes before Send blocks
          ClientCap,  \* size of eventCh, 100
          Scopes,     \* bounds of a behaviour: ticks that report an RPC or a
                      \* touch, calls of the main process, streams that fail
          None

Kinds == {"video", "rpc", "indev"}
\* tickUI, the handler of the client, another goroutine of the main process,
\* and the streaming thread, which needs no lock.
Callers == {"tick", "handler", "other"}
Actors == Callers \cup {"stream"}

ASSUME BridgeAssumption ==
  /\ None \notin Streams \cup Callers /\ Streams # {}
  /\ {ServerCap, NetCap, ClientCap} \subseteq Nat \ {0}
  /\ Scopes \subseteq [tick : Nat, touch : Nat, other : Nat, breaks : Nat]

VARIABLES
  bound,     \* what is left of the bounds of this behaviour
  lock,      \* who holds cgoLock
  act,       \* per actor: where it is, and what it is about
  flag,      \* streaming_flag
  sent,      \* per kind: events reported
  holding,   \* per kind: the event its goroutine holds, 0 for none
  chan,      \* eventStreamChan
  srv,       \* per stream: the goroutine of StreamEvents
  active,    \* the stream of eventStreamCtx
  net,       \* per stream: events on their way
  link,      \* the stream the client reads
  inbox,     \* eventCh
  got,       \* per kind: what handleEvent was called with
  lossy      \* history: a stream broke or an event was dropped

server == <<chan, srv, active>>
main   == <<link, inbox, got>>
vars   == <<bound, lock, act, flag, sent, holding, chan, srv, active, net, link, inbox,
            got, lossy>>

At(a, pc) == act[a].pc = pc
Idle == [pc |-> "idle", op |-> "none"]

----------------------------------------------------------------------------
(* The C code, on the thread of its caller. *)

\* A call, counted by b, which waits for cgoLock.
Call(a, op, b) ==
  /\ At(a, "idle") /\ bound[b] > 0
  /\ bound' = [bound EXCEPT ![b] = @ - 1]
  /\ act' = [act EXCEPT ![a] = [pc |-> "want", op |-> op]]
  /\ UNCHANGED <<lock, flag, sent, holding, server, net, main, lossy>>

\* A tick that calls the RPC handler, and one that calls handle_indev_event
\* (LVGL's event, LV_EVENT_ALL); one that calls neither changes nothing here.
jetkvm_ui_tick == Call("tick", "rpc", "tick")
handle_indev_event == Call("tick", "touch", "touch")

\* With the lock: a tick reports; a call of the UI; video_start_streaming and
\* video_stop_streaming, which report the flag (set_streaming_flag) unless
\* there is nothing to start or to stop.
CanEnter(a) == At(a, "want") /\ lock = None
Enter(a) ==
  /\ CanEnter(a)
  /\ LET op == act[a].op
         returns == \/ op = "ui"
                    \/ op = "start" /\ ~At("stream", "idle")
                    \/ op = "stop" /\ At("stream", "idle")
     IN /\ lock' = IF returns THEN None ELSE a
        /\ act' = [act EXCEPT ![a] = IF returns THEN Idle ELSE [@ EXCEPT !.pc = "report"]]
        /\ flag' = IF returns \/ a = "tick" THEN flag ELSE op = "start"
  /\ UNCHANGED <<bound, sent, holding, server, net, main, lossy>>

KindOf(a) == CASE act[a].op = "rpc"   -> "rpc"
               [] act[a].op = "touch" -> "indev"
               [] OTHER               -> "video"

\* What follows a report: start creates the streaming thread, stop waits for
\* it to exit, the thread goes on or is gone, and a caller leaves the lock.
After(a) ==
  CASE a = "tick"          -> [act EXCEPT ![a] = Idle]
    [] act[a].op = "start" -> [act EXCEPT ![a] = Idle,
                                          !["stream"] = [pc |-> "report", op |-> "begin"]]
    [] act[a].op = "stop"  -> [act EXCEPT ![a].pc = "join"]
    [] act[a].op = "begin" -> [act EXCEPT ![a] = [pc |-> "loop", op |-> "none"]]
    [] act[a].op = "end"   -> [act EXCEPT ![a] = Idle]

\* video_report_format, video_send_format_report, jetkvm_call_rpc_handler and
\* jetkvm_indev_wrapper: the event is handed to the goroutine of its kind, which must be free.
CanReport(a) == At(a, "report") /\ holding[KindOf(a)] = 0
Report(a) ==
  LET k == KindOf(a)
  IN /\ CanReport(a)
     /\ sent' = [sent EXCEPT ![k] = @ + 1]
     /\ holding' = [holding EXCEPT ![k] = sent[k] + 1]
     /\ act' = After(a)
     /\ lock' = IF act[a].op \in {"rpc", "touch", "start"} THEN None ELSE lock
     /\ UNCHANGED <<bound, flag, server, net, main, lossy>>

\* pthread_join of the streaming thread.
CanJoin(a) == At(a, "join") /\ At("stream", "idle")
Join(a) ==
  /\ CanJoin(a)
  /\ act' = [act EXCEPT ![a] = Idle] /\ lock' = None
  /\ UNCHANGED <<bound, flag, sent, holding, server, net, main, lossy>>

\* run_video_stream sees the flag and reports that it has stopped.
CanStreamEnd == At("stream", "loop") /\ ~flag
StreamEnds ==
  /\ CanStreamEnd
  /\ act' = [act EXCEPT !["stream"] = [pc |-> "report", op |-> "end"]]
  /\ UNCHANGED <<bound, lock, flag, sent, holding, server, net, main, lossy>>

----------------------------------------------------------------------------
(* The native process: chan.go and grpc_server.go. *)

\* broadcastEvent waits for room.
CanBroadcast(k) == holding[k] # 0 /\ Len(chan) < ServerCap
Broadcast(k) ==
  /\ CanBroadcast(k)
  /\ chan' = Append(chan, [kind |-> k, n |-> holding[k]])
  /\ holding' = [holding EXCEPT ![k] = 0]
  /\ UNCHANGED <<bound, lock, act, flag, sent, srv, active, net, main, lossy>>

NoServer == [pc |-> "none", cancelled |-> FALSE, event |-> [kind |-> "video", n |-> 0]]
Server(s, pc) == srv[s].pc = pc
ServerEnds(s) ==
  /\ srv' = [srv EXCEPT ![s] = [NoServer EXCEPT !.pc = "done"]]
  /\ active' = IF active = s THEN None ELSE active

\* StreamEvents takes over from the stream before it, which it cancels.
ServerBegin(s) ==
  /\ Server(s, "new")
  /\ srv' = [u \in Streams |->
               IF u = s THEN [srv[u] EXCEPT !.pc = "loop"]
               ELSE IF u = active THEN [srv[u] EXCEPT !.cancelled = TRUE] ELSE srv[u]]
  /\ active' = s
  /\ UNCHANGED <<bound, lock, act, flag, sent, holding, chan, net, main, lossy>>

\* The select: an event is taken, also by a stream that is cancelled, or the
\* cancellation is noticed.
CanTake(s) == Server(s, "loop") /\ chan # <<>>
ServerTake(s) ==
  /\ CanTake(s)
  /\ srv' = [srv EXCEPT ![s].pc = "check", ![s].event = Head(chan)]
  /\ chan' = Tail(chan)
  /\ UNCHANGED <<bound, lock, act, flag, sent, holding, active, net, main, lossy>>

ServerCancelled(s) ==
  /\ Server(s, "loop") /\ srv[s].cancelled
  /\ ServerEnds(s)
  /\ UNCHANGED <<bound, lock, act, flag, sent, holding, chan, net, main, lossy>>

\* isActive: an event of a stream that was replaced is lost.
ServerCheck(s) ==
  /\ Server(s, "check")
  /\ IF active = s
     THEN srv' = [srv EXCEPT ![s].pc = "send"] /\ UNCHANGED active
     ELSE ServerEnds(s)
  /\ UNCHANGED <<bound, lock, act, flag, sent, holding, chan, net, main, lossy>>

\* stream.Send: to a client that is gone it fails.  (Mutant: the event that
\* could not be sent goes back into the channel.)
ServerSendRequeues(s) ==
  /\ Server(s, "send")
  /\ IF srv[s].cancelled
     THEN /\ Len(chan) < ServerCap
          /\ chan' = Append(chan, srv[s].event)
          /\ ServerEnds(s) /\ UNCHANGED net
     ELSE /\ Len(net[s]) < NetCap
          /\ net' = [net EXCEPT ![s] = Append(@, srv[s].event)]
          /\ srv' = [srv EXCEPT ![s] = [NoServer EXCEPT !.pc = "loop"]]
          /\ UNCHANGED <<chan, active>>
  /\ UNCHANGED <<bound, lock, act, flag, sent, holding, main, lossy>>
CanSend(s) == Server(s, "send") /\ (srv[s].cancelled \/ Len(net[s]) < NetCap)
ServerSend(s) ==
  /\ CanSend(s)
  /\ IF srv[s].cancelled
     THEN ServerEnds(s) /\ UNCHANGED net
     ELSE /\ net' = [net EXCEPT ![s] = Append(@, srv[s].event)]
          /\ srv' = [srv EXCEPT ![s] = [NoServer EXCEPT !.pc = "loop"]]
          /\ UNCHANGED active
  /\ UNCHANGED <<bound, lock, act, flag, sent, holding, chan, main, lossy>>

----------------------------------------------------------------------------
(* The main process: grpc_client.go. *)

\* startEventStream calls StreamEvents, again a second after one has ended.
\* (Mutant: a stream that fails is not replaced.)
ConnectOnce ==
  /\ link = None /\ ~lossy
  /\ \E s \in Streams :
       /\ srv[s].pc \in {"none", "done"}
       /\ link' = s
       /\ srv' = [srv EXCEPT ![s] = [NoServer EXCEPT !.pc = "new"]]
  /\ UNCHANGED <<bound, lock, act, flag, sent, holding, chan, active, net, inbox, got,
                 lossy>>
Free(s) == srv[s].pc \in {"none", "done"}
CanConnect == link = None /\ \E s \in Streams : Free(s)
Connect ==
  /\ CanConnect
  /\ \E s \in Streams :
       /\ Free(s)
       /\ link' = s
       /\ srv' = [srv EXCEPT ![s] = [NoServer EXCEPT !.pc = "new"]]
  /\ UNCHANGED <<bound, lock, act, flag, sent, holding, chan, active, net, inbox, got,
                 lossy>>

\* Recv returns an error: the stream fails, and the server is told; or the
\* server has ended it.
Break ==
  /\ link # None /\ bound.breaks > 0
  /\ bound' = [bound EXCEPT !.breaks = @ - 1]
  /\ link' = None /\ lossy' = TRUE
  /\ srv' = [srv EXCEPT ![link].cancelled = ~Server(link, "done")]
  /\ net' = [net EXCEPT ![link] = <<>>]
  /\ UNCHANGED <<lock, act, flag, sent, holding, chan, active, inbox, got>>
CanEnd == link # None /\ Server(link, "done") /\ net[link] = <<>>
Ended ==
  /\ CanEnd
  /\ link' = None
  /\ UNCHANGED <<bound, lock, act, flag, sent, holding, server, net, inbox, got, lossy>>

\* handleEventStream passes an event on, and drops it when eventCh is full.
\* (Mutant: it waits for room instead.)
CanReceiveWaits == link # None /\ net[link] # <<>> /\ Len(inbox) < ClientCap
CanReceive == link # None /\ net[link] # <<>>
Receive ==
  /\ CanReceive
  /\ net' = [net EXCEPT ![link] = Tail(@)]
  /\ IF Len(inbox) < ClientCap
     THEN inbox' = Append(inbox, Head(net[link])) /\ UNCHANGED lossy
     ELSE lossy' = TRUE /\ UNCHANGED inbox
  /\ UNCHANGED <<bound, lock, act, flag, sent, holding, server, link, got>>

\* handleEvent: a touch wakes the display, an RPC event leads to a call of the UI (hwReboot shows the
\* rebooting screen), and the next event waits until it returns.
Handle ==
  /\ inbox # <<>> /\ At("handler", "idle")
  /\ LET e == Head(inbox)
     IN /\ got' = [got EXCEPT ![e.kind] = Append(@, e.n)]
        /\ act' = IF e.kind = "rpc"
                  THEN [act EXCEPT !["handler"] = [pc |-> "want", op |-> "ui"]] ELSE act
  /\ inbox' = Tail(inbox)
  /\ UNCHANGED <<bound, lock, flag, sent, holding, server, net, link, lossy>>

----------------------------------------------------------------------------
Init ==
  /\ lock = None /\ flag = FALSE /\ lossy = FALSE
  /\ bound \in Scopes
  /\ act = [a \in Actors |-> Idle]
  /\ sent = [k \in Kinds |-> 0] /\ holding = [k \in Kinds |-> 0]
  /\ chan = <<>> /\ active = None
  /\ srv = [s \in Streams |-> NoServer]
  /\ net = [s \in Streams |-> <<>>]
  /\ link = None /\ inbox = <<>> /\ got = [k \in Kinds |-> <<>>]

Calls == \/ jetkvm_ui_tick \/ handle_indev_event
         \/ \E op \in {"start", "stop"} : Call("other", op, "other")
InC(a) == Report(a) \/ Join(a)
ServerStep(s) ==
  ServerBegin(s) \/ ServerTake(s) \/ ServerCancelled(s) \/ ServerCheck(s) \/ ServerSend(s)

Progress ==
  \/ \E a \in Callers : Enter(a)
  \/ \E a \in Actors : InC(a)
  \/ StreamEnds
  \/ \E k \in Kinds : Broadcast(k)
  \/ \E s \in Streams : ServerStep(s)
  \/ Connect \/ Ended \/ Receive \/ Handle

Next == Calls \/ Break \/ Progress

Spec == Init /\ [][Next]_vars

\* Threads and goroutines run.  Calls and breaks are bounded, so every step of
\* Progress leads on and it is enough that one of those enabled is taken.
FairSpec == Spec /\ WF_vars(Progress)

----------------------------------------------------------------------------
(* Properties. *)

\* Every variable has its type.
TypeOK ==
  /\ lock \in Callers \cup {None} /\ {flag, lossy} \subseteq BOOLEAN
  /\ \A a \in Actors : act[a].pc \in {"idle", "want", "report", "join", "loop"}
  /\ \A k \in Kinds : sent[k] \in Nat /\ holding[k] \in 0 .. sent[k]
  /\ bound \in [tick : Nat, touch : Nat, other : Nat, breaks : Nat]
  /\ Len(chan) <= ServerCap /\ Len(inbox) <= ClientCap
  /\ \A s \in Streams : Len(net[s]) <= NetCap
  /\ {active, link} \subseteq Streams \cup {None}

\* The main process handles the events of a kind in the order in which they
\* were reported, none of them twice: through the channels, the drops, a
\* stream that breaks, and two streams of which the older one still takes
\* events from the channel they share.
InOrder ==
  \A k \in Kinds : \A i, j \in DOMAIN got[k] : i < j => got[k][i] < got[k][j]

Numbers(k, events) == {events[i].n : i \in {j \in DOMAIN events : events[j].kind = k}}
InFlight(k) ==
  Numbers(k, chan) \cup Numbers(k, inbox) \cup ({holding[k]} \ {0})
    \cup (UNION {Numbers(k, net[s]) : s \in Streams})
    \cup {srv[s].event.n : s \in {u \in Streams : /\ srv[u].pc \in {"check", "send"}
                                                  /\ srv[u].event.kind = k}}

\* As long as no stream breaks and the queue of the client is not full, every
\* event that is reported is handled or on its way.
NothingLost ==
  ~lossy => \A k \in Kinds :
    {got[k][i] : i \in DOMAIN got[k]} \cup InFlight(k) = 1 .. sent[k]

\* Events are neither lost, repeated nor overtaken: InOrder and NothingLost.
Delivered == InOrder /\ NothingLost

\* The number of event e as a set, for the events of kind k.
One(k, e) == IF e.kind = k THEN {e.n} ELSE {}

\* The events of kind k that are on the stream l the client reads, that its
\* goroutine v[l] took from the channel, and the one that was just handed over.
OnStream(k, l, n) == IF l = None THEN {} ELSE Numbers(k, n[l])
Taken(k, l, v) == IF l # None /\ v[l].pc \in {"check", "send"}
                  THEN One(k, v[l].event) ELSE {}
Held(h) == {h} \ {0}

\* The events of kind k that may still be handled.  What another stream took is
\* not among them: it is cancelled, and sends no more.
Waiting(k) ==
  Numbers(k, inbox) \cup OnStream(k, link, net) \cup Taken(k, link, srv)
    \cup Numbers(k, chan) \cup Held(holding[k])

EQ == INSTANCE EventQueue WITH posted <- sent, handled <- got,
                               waiting <- [k \in Kinds |-> Waiting(k)]

\* Callbacks, channels, streams and reconnections together are a queue for each
\* kind of event: a report posts, handleEvent gets the oldest event that waits,
\* and only a break, an overflow of eventCh or a stream that was replaced loses
\* one; an event that is lost does not come back.
ImplementsEventQueue == EQ!QSpec

\* A step that does not wait for the main process to handle an event, by the
\* guards of the actions.
CanProceed ==
  \/ \E a \in Callers : CanEnter(a)
  \/ \E a \in Actors : CanReport(a) \/ CanJoin(a)
  \/ \E k \in Kinds : CanBroadcast(k)
  \/ \E s \in Streams : \/ srv[s].pc \in {"new", "check"}
                         \/ CanTake(s) \/ CanSend(s)
  \/ CanStreamEnd \/ CanConnect \/ CanEnd \/ CanReceive

\* Nobody waits for ever for somebody who waits for him: cgoLock, the goroutines
\* of chan.go, eventStreamChan, the stream and its Send, and the join of the
\* streaming thread never hold each other up, however small the queues are and
\* though the handler of an event may itself be waiting for cgoLock.
NeverStuck == (\E a \in Callers : act[a].pc # "idle") => CanProceed

\* Every call of the main process, every tick and every callback returns: with
\* all queues full, a handler that makes a call itself, a stop that waits for
\* a thread that is reporting, and a stream that breaks.
CallsReturn == \A a \in Callers : act[a].pc # "idle" ~> act[a].pc = "idle"

\* A stream that broke is replaced by one that the server serves.
StreamReplaced == link = None ~> (link # None /\ active = link)
==============================================================================
