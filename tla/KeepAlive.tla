----------------------------- MODULE KeepAlive -----------------------------
(***************************************************************************)
(* Which keepalives extend the auto-release of a held key, in discrete     *)
(* time: handleHidRPCKeypressKeepAlive (hidrpc.go) against the timers of   *)
(* hid_keyboard.go, a client that sends a keepalive every ExpectedRate     *)
(* while it holds the key, and a channel that keeps the order but delays   *)
(* a message by up to Jitter and may lose keepalives.                      *)
(***************************************************************************)
EXTENDS Integers, Sequences

CONSTANTS ExpectedRate,   \* expectedRate, 50 ms; also the client's interval
          MaxLateness,    \* maxLateness, 50 ms
          MaxStaleness,   \* maxStaleness, 225 ms
          ReleaseAfter,   \* the duration scheduleAutoRelease uses, 100 ms
          Jitter,         \* the longest delay of a message
          MaxNet          \* bound: messages under way

ASSUME KeepAliveAssumption ==
  /\ ExpectedRate \in Nat \ {0}
  /\ {MaxLateness, MaxStaleness, ReleaseAfter, Jitter, MaxNet} \subseteq Nat

BaseExtension == ExpectedRate + MaxLateness

\* How the tunables of the code go together, 50, 50, 225 and 100 ms.
ASSUME TunablesAssumption ==
  /\ MaxLateness > 0
  /\ ReleaseAfter = BaseExtension
  /\ MaxStaleness >= BaseExtension

Never == -1                       \* time.Time{}, and no timer
OldAge == MaxStaleness + 1        \* ages are told apart up to here
Horizon == Jitter + BaseExtension + ReleaseAfter + 1

VARIABLES
  client,    \* the client holds the key, let it go, or fell silent
  sent,      \* time since its last keepalive (or press)
  quiet,     \* time since it fell silent
  net,       \* messages under way: kind and age
  held,      \* the key is down on the device
  left,      \* time left on the key's timer, or Never
  lastTick,  \* age of lastKeepAliveArrivalTime and lastTimerResetTime, which
             \* are only ever assigned together
  calm       \* history: since the key was pressed, no keepalive was lost and no
             \* message delayed by maxLateness or more

vars == <<client, sent, quiet, net, held, left, lastTick, calm>>

Kinds == {"press", "tick", "up"}

TypeOK ==
  /\ client \in {"up", "holding", "silent"}
  /\ sent \in 0..ExpectedRate
  /\ quiet \in 0..Horizon
  /\ net \in Seq([kind : Kinds, age : 0..Jitter]) /\ Len(net) <= MaxNet
  /\ held \in BOOLEAN
  /\ left \in Never..BaseExtension \/ left \in Never..ReleaseAfter
  /\ lastTick \in Never..OldAge
  /\ calm \in BOOLEAN

Init ==
  /\ client = "up" /\ sent = 0 /\ quiet = 0 /\ net = <<>>
  /\ held = FALSE /\ left = Never /\ lastTick = Never /\ calm = TRUE

----------------------------------------------------------------------------
(* The client (useKeyboard.ts) and the channel. *)

Send(kind) ==
  /\ Len(net) < MaxNet
  /\ net' = Append(net, [kind |-> kind, age |-> 0])

Press ==
  /\ client = "up"
  /\ Send("press")
  /\ client' = "holding" /\ sent' = 0
  /\ calm' = (calm \/ (net = <<>> /\ ~held))
  /\ UNCHANGED <<quiet, held, left, lastTick>>

\* Key repeat of the browser sends the press again and again.
Repeat ==
  /\ client = "holding"
  /\ Send("press")
  /\ UNCHANGED <<client, sent, quiet, held, left, lastTick, calm>>

SendTick ==
  /\ client = "holding" /\ sent = ExpectedRate
  /\ Send("tick")
  /\ sent' = 0
  /\ UNCHANGED <<client, quiet, held, left, lastTick, calm>>

LetGo ==
  /\ client = "holding"
  /\ Send("up")
  /\ client' = "up"
  /\ UNCHANGED <<sent, quiet, held, left, lastTick, calm>>

\* The client dies, or its network does, with the key held.
FallSilent ==
  /\ client = "holding"
  /\ client' = "silent" /\ quiet' = 0
  /\ UNCHANGED <<sent, net, held, left, lastTick, calm>>

LoseTick ==
  /\ net # <<>> /\ Head(net).kind = "tick"
  /\ net' = Tail(net) /\ calm' = FALSE
  /\ UNCHANGED <<client, sent, quiet, held, left, lastTick>>

----------------------------------------------------------------------------
(* The device. *)

Arrives(kind) == net # <<>> /\ Head(net).kind = kind /\ net' = Tail(net)

\* A press starts the timer anew.  The keepalive baseline is only forgotten
\* (resetKeepAliveTime) when the press changed the keys that are down.
PressArrives ==
  /\ Arrives("press")
  /\ held' = TRUE /\ left' = ReleaseAfter
  /\ lastTick' = IF held THEN lastTick ELSE Never
  /\ UNCHANGED <<client, sent, quiet, calm>>

UpArrives ==
  /\ Arrives("up")
  /\ held' = FALSE /\ left' = Never
  /\ lastTick' = IF held THEN Never ELSE lastTick
  /\ UNCHANGED <<client, sent, quiet, calm>>

Lateness == lastTick - ExpectedRate

\* Mutant: the tolerance for lateness is not granted.
AcceptOnTime == lastTick = Never \/ Lateness <= 0

\* The staleness guard and the lateness test.
AcceptTick ==
  \/ lastTick = Never
  \/ lastTick <= MaxStaleness /\ Lateness <= MaxLateness

\* A late tick, within the tolerance, extends by less.
Extension ==
  IF lastTick # Never /\ Lateness > 0 THEN BaseExtension - Lateness ELSE BaseExtension

\* An accepted tick is the new baseline and resets the running timers; a
\* rejected one leaves everything as it is.
TickArrives ==
  /\ Arrives("tick")
  /\ IF AcceptTick
       THEN /\ lastTick' = 0
            /\ left' = IF left = Never THEN Never ELSE Extension
       ELSE UNCHANGED <<lastTick, left>>
  /\ UNCHANGED <<client, sent, quiet, held, calm>>

\* Mutant: an expired timer releases nothing.
TimerForgets ==
  /\ left = 0
  /\ left' = Never
  /\ UNCHANGED <<client, sent, quiet, net, held, lastTick, calm>>

AutoRelease ==
  /\ left = 0
  /\ left' = Never /\ held' = FALSE
  /\ lastTick' = IF held THEN Never ELSE lastTick
  /\ UNCHANGED <<client, sent, quiet, net, calm>>

\* One unit of time: not past a timer, the client's next keepalive or the
\* longest delay of a message.
TimePasses ==
  /\ left # 0
  /\ client = "holding" => sent < ExpectedRate
  /\ \A i \in 1..Len(net) : net[i].age < Jitter
  /\ left' = IF left = Never THEN Never ELSE left - 1
  /\ sent' = IF client = "holding" THEN sent + 1 ELSE sent
  /\ quiet' = IF client = "silent" /\ quiet < Horizon THEN quiet + 1 ELSE quiet
  /\ net' = [i \in 1..Len(net) |-> [net[i] EXCEPT !.age = @ + 1]]
  /\ calm' = (calm /\ \A i \in 1..Len(net) : net[i].age + 1 < MaxLateness)
  /\ lastTick' = IF lastTick = Never \/ lastTick = OldAge THEN lastTick ELSE lastTick + 1
  /\ UNCHANGED <<client, held>>

Next ==
  \/ Press \/ Repeat \/ SendTick \/ LetGo \/ FallSilent \/ LoseTick
  \/ PressArrives \/ UpArrives \/ TickArrives \/ AutoRelease \/ TimePasses

Spec == Init /\ [][Next]_vars

----------------------------------------------------------------------------

\* While the client holds the key, loses no keepalive and has its messages
\* delayed by less than maxLateness, the device never lets the key go: an
\* accepted tick leaves enough time for the next, however the delays fall and
\* whatever happened before the press.
HeldThroughJitter ==
  client = "holding" /\ calm /\ (\A i \in 1..Len(net) : net[i].kind = "tick") => held

\* A key of a client that fell silent goes up within the delay of its last
\* message and one extension: no run of delayed keepalives keeps it down.
SilenceBounded ==
  client = "silent" /\ held => quiet <= Jitter + BaseExtension
============================================================================
