-------------------------- MODULE KeepAliveProofs --------------------------
(***************************************************************************)
(* What KeepAlive guarantees for any jitter, any number of messages under  *)
(* way and any tunables that go together as those of the code do: a key    *)
(* that is held stays down through jitter, and one that was abandoned goes *)
(* up in time.                                                             *)
(***************************************************************************)
EXTENDS KeepAlive, TLAPS

Messages == [kind : Kinds, age : Nat]
Pos == 1..Len(net)
Is(i, kind) == net[i].kind = kind

\* The types the proofs need.
TypeInv ==
  /\ client \in {"up", "holding", "silent"}
  /\ sent \in 0..ExpectedRate
  /\ quiet \in Nat
  /\ net \in Seq(Messages)
  /\ held \in BOOLEAN
  /\ left \in Nat \cup {Never}
  /\ lastTick \in Nat \cup {Never}
  /\ calm \in BOOLEAN

\* A key is down as long as its timer runs.
TimerInv == held <=> left # Never

\* The channel keeps the order: what was sent first is older.
AgesOrdered == \A i, j \in Pos : i <= j => net[i].age >= net[j].age

\* The bound on delays, and the one of a calm channel.
AgesBounded ==
  \A i \in Pos : net[i].age <= Jitter /\ (calm => net[i].age < MaxLateness)

ChannelInv == AgesOrdered /\ AgesBounded

\* A client that is silent sends nothing more, so what is under way is at
\* least as old as its silence; and the timer ends before the bound.
SilentInv ==
  client = "silent" =>
    /\ \A i \in Pos : quiet <= net[i].age
    /\ held => left + quiet <= Jitter + BaseExtension
LeftInv == left <= BaseExtension

\* A release is followed by the next press, if by anything, and is the last
\* message of a client that has let the key go.
HoldInv ==
  /\ \A i \in Pos : Is(i, "up") => IF i = Len(net) THEN client = "up" ELSE Is(i + 1, "press")
  /\ client = "up" => IF net = <<>> THEN ~held ELSE Is(Len(net), "up")

\* All of the messages under way are of the current hold.
NoUp == \A i \in Pos : ~Is(i, "up")

\* A tick of the current hold is followed by the next one an interval later
\* at most, under way or not sent yet.
GapInv ==
  client = "holding" =>
    \A i \in Pos : Is(i, "tick") /\ (\A j \in Pos : j > i => ~Is(j, "up")) =>
      \/ sent >= net[i].age
      \/ \E j \in Pos : j > i /\ Is(j, "tick") /\ net[j].age >= net[i].age - ExpectedRate

\* The next tick arrives before the timer ends, and before it is too late for
\* being accepted, whether it is under way or not sent yet.
InTime ==
  /\ \/ left >= ExpectedRate - sent + MaxLateness
     \/ \E i \in Pos : Is(i, "tick") /\ left >= MaxLateness - net[i].age
  /\ \/ lastTick <= sent
     \/ \E i \in Pos : Is(i, "tick") /\ lastTick <= net[i].age + ExpectedRate

\* In a calm hold the key is down, and the next tick comes in time, or the
\* press that begins the hold is the next message.
CalmInv ==
  client = "holding" /\ calm /\ NoUp =>
    IF held THEN InTime ELSE net # <<>> /\ Is(1, "press")

KeepAliveInv ==
  /\ TypeInv /\ TimerInv /\ ChannelInv /\ SilentInv /\ LeftInv
  /\ HoldInv /\ GapInv /\ CalmInv

----------------------------------------------------------------------------
(* What the three ways to change the channel do to its messages. *)

\* A channel is empty when nothing is under way.
LEMMA EmptyLen ==
  ASSUME NEW S, NEW q \in Seq(S) PROVE q = <<>> <=> Len(q) = 0
OBVIOUS

\* Every message under way has an age.
LEMMA MessageAges ==
  ASSUME TypeInv PROVE \A i \in Pos : net[i].age \in Nat
<1>1. \A i \in Pos : net[i] \in Messages
  BY DEF TypeInv, Pos
<1> QED BY <1>1 DEF Messages

\* A message that is sent comes last, of age zero; the others stay as they are.
LEMMA SendEffect ==
  ASSUME TypeInv, NEW kind \in Kinds, Send(kind)
  PROVE  /\ net' \in Seq(Messages)
         /\ Len(net') = Len(net) + 1 /\ Len(net) \in Nat
         /\ net'[Len(net) + 1].kind = kind /\ net'[Len(net) + 1].age = 0
         /\ \A i \in Pos : /\ net'[i].kind = net[i].kind /\ net'[i].age = net[i].age
                           /\ net[i].age \in Nat
<1>1. net' = Append(net, [kind |-> kind, age |-> 0]) /\ net \in Seq(Messages)
  BY DEF Send, TypeInv
<1>2. [kind |-> kind, age |-> 0] \in Messages
  BY DEF Messages
<1>3. \A i \in Pos : net[i] \in Messages /\ net'[i] = net[i]
  BY <1>1 DEF Pos
<1>4. net'[Len(net) + 1] = [kind |-> kind, age |-> 0]
  BY <1>1, <1>2
<1>5. net' \in Seq(Messages) /\ Len(net') = Len(net) + 1 /\ Len(net) \in Nat
  BY <1>1, <1>2
<1> QED BY <1>3, <1>4, <1>5 DEF Messages

\* Without its first message the channel has the others one place earlier.
LEMMA TailEffect ==
  ASSUME TypeInv, net # <<>>, net' = Tail(net)
  PROVE  /\ net' \in Seq(Messages)
         /\ Len(net') = Len(net) - 1 /\ Len(net) \in Nat \ {0}
         /\ Head(net) = net[1]
         /\ \A i \in 1..Len(net) - 1 : /\ net'[i].kind = net[i + 1].kind
                                       /\ net'[i].age = net[i + 1].age
         /\ \A i \in Pos : net[i].age \in Nat
<1>1. /\ net' \in Seq(Messages)
      /\ Len(net') = Len(net) - 1 /\ Len(net) \in Nat \ {0}
      /\ Head(net) = net[1]
      /\ \A i \in 1..Len(net) - 1 : net'[i] = net[i + 1]
  BY DEF TypeInv
<1>2. \A i \in Pos : net[i] \in Messages
  BY DEF TypeInv, Pos
<1> QED BY <1>1, <1>2 DEF Messages

\* Time makes every message older by one and moves none.
LEMMA TimeEffect ==
  ASSUME TypeInv, TimePasses
  PROVE  /\ net' \in Seq(Messages)
         /\ Len(net') = Len(net) /\ Len(net) \in Nat
         /\ \A i \in Pos : /\ net'[i].kind = net[i].kind /\ net'[i].age = net[i].age + 1
                           /\ net[i].age \in Nat
<1>1. Len(net) \in Nat /\ \A i \in Pos : net[i] \in Messages
  BY DEF TypeInv, Pos
<1>2. net' = [i \in 1..Len(net) |-> [net[i] EXCEPT !.age = @ + 1]]
  BY DEF TimePasses
<1>3. \A i \in Pos : net'[i] = [net[i] EXCEPT !.age = @ + 1] /\ net'[i] \in Messages
  BY <1>1, <1>2 DEF Messages, Pos
<1>4. net' \in [1..Len(net) -> Messages]
  BY <1>2, <1>3 DEF Pos
<1>5. net' \in Seq(Messages) /\ Len(net') = Len(net)
  BY <1>1, <1>2, <1>4
<1> QED BY <1>1, <1>3, <1>5 DEF Messages

----------------------------------------------------------------------------
(* The invariant is inductive. *)

\* At first nothing is held and nothing is under way.
LEMMA KeepAliveInvInit == Init => KeepAliveInv
<1> SUFFICES ASSUME Init PROVE KeepAliveInv
  OBVIOUS
<1> USE KeepAliveAssumption DEF Init, Pos
<1>1. net \in Seq(Messages) /\ Len(net) = 0
  OBVIOUS
<1>2. TypeInv
  <2>1. sent \in 0..ExpectedRate /\ quiet \in Nat /\ client \in {"up", "holding", "silent"}
    OBVIOUS
  <2>2. held \in BOOLEAN /\ calm \in BOOLEAN
    OBVIOUS
  <2> QED BY <1>1, <2>1, <2>2 DEF TypeInv
<1>3. TimerInv /\ SilentInv
  BY DEF TimerInv, SilentInv
<1>4. LeftInv
  BY DEF LeftInv, Never, BaseExtension
<1>5. ChannelInv
  <2>1. \A i \in Pos : FALSE
    BY <1>1
  <2> QED BY <2>1 DEF ChannelInv, AgesOrdered, AgesBounded
<1>6. HoldInv
  BY <1>1 DEF HoldInv
<1>7. GapInv /\ CalmInv
  BY DEF GapInv, CalmInv
<1> QED BY <1>2, <1>3, <1>4, <1>5, <1>6, <1>7 DEF KeepAliveInv

\* The client begins a hold: the channel is empty and the key up, or a release
\* is under way before this press.
LEMMA PressStep == KeepAliveInv /\ Press => KeepAliveInv'
<1> SUFFICES ASSUME KeepAliveInv, Press PROVE KeepAliveInv'
  OBVIOUS
<1>0. /\ TypeInv /\ TimerInv /\ ChannelInv /\ SilentInv /\ LeftInv
      /\ HoldInv /\ GapInv /\ CalmInv
  BY DEF KeepAliveInv
<1>1. /\ client = "up" /\ client' = "holding" /\ sent' = 0
      /\ calm' = (calm \/ (net = <<>> /\ ~held))
      /\ UNCHANGED <<quiet, held, left, lastTick>>
      /\ Send("press")
  BY DEF Press
<1>2. /\ net' \in Seq(Messages)
      /\ Len(net') = Len(net) + 1 /\ Len(net) \in Nat
      /\ net'[Len(net) + 1].kind = "press" /\ net'[Len(net) + 1].age = 0
      /\ \A i \in Pos : /\ net'[i].kind = net[i].kind /\ net'[i].age = net[i].age
                        /\ net[i].age \in Nat
  BY <1>0, <1>1, SendEffect DEF Kinds
<1>3. TypeInv'
  BY <1>0, <1>1, <1>2, KeepAliveAssumption DEF TypeInv
<1>4. TimerInv' /\ SilentInv' /\ LeftInv'
  BY <1>0, <1>1 DEF TimerInv, SilentInv, LeftInv
<1>e. net = <<>> <=> Len(net) = 0
  BY <1>0 DEF TypeInv
<1>5. ChannelInv'
  <2>1. calm' => calm \/ Len(net) = 0
    BY <1>1, <1>e
  <2>2. AgesOrdered'
    BY <1>0, <1>2 DEF ChannelInv, AgesOrdered, Pos
  <2>3. AgesBounded'
    BY <1>0, <1>2, <2>1, KeepAliveAssumption, TunablesAssumption
       DEF ChannelInv, AgesBounded, Pos
  <2> QED BY <2>2, <2>3 DEF ChannelInv
<1>6. HoldInv'
  BY <1>0, <1>1, <1>2, <1>e DEF HoldInv, Pos, Is
<1>7. GapInv'
  BY <1>0, <1>1, <1>2, <1>e DEF HoldInv, GapInv, Pos, Is
<1>8. CalmInv'
  BY <1>0, <1>1, <1>2, <1>e DEF HoldInv, CalmInv, NoUp, Pos, Is
<1> QED BY <1>3, <1>4, <1>5, <1>6, <1>7, <1>8 DEF KeepAliveInv

\* The client sends the press again.
LEMMA RepeatStep == KeepAliveInv /\ Repeat => KeepAliveInv'
<1> SUFFICES ASSUME KeepAliveInv, Repeat PROVE KeepAliveInv'
  OBVIOUS
<1>0. /\ TypeInv /\ TimerInv /\ ChannelInv /\ SilentInv /\ LeftInv
      /\ HoldInv /\ GapInv /\ CalmInv
  BY DEF KeepAliveInv
<1>1. /\ client = "holding" /\ UNCHANGED <<client, sent, quiet, held, left, lastTick, calm>>
      /\ Send("press")
  BY DEF Repeat
<1>2. /\ net' \in Seq(Messages)
      /\ Len(net') = Len(net) + 1 /\ Len(net) \in Nat
      /\ net'[Len(net) + 1].kind = "press" /\ net'[Len(net) + 1].age = 0
      /\ \A i \in Pos : /\ net'[i].kind = net[i].kind /\ net'[i].age = net[i].age
                        /\ net[i].age \in Nat
  BY <1>0, <1>1, SendEffect DEF Kinds
<1>3. TypeInv'
  BY <1>0, <1>1, <1>2, KeepAliveAssumption DEF TypeInv
<1>4. TimerInv' /\ SilentInv' /\ LeftInv'
  BY <1>0, <1>1 DEF TimerInv, SilentInv, LeftInv
<1>e. net = <<>> <=> Len(net) = 0
  BY <1>0 DEF TypeInv
<1>5. ChannelInv'
  <2>1. AgesOrdered'
    BY <1>0, <1>2 DEF ChannelInv, AgesOrdered, Pos
  <2>2. AgesBounded'
    BY <1>0, <1>1, <1>2, KeepAliveAssumption, TunablesAssumption
       DEF ChannelInv, AgesBounded, Pos
  <2> QED BY <2>1, <2>2 DEF ChannelInv
<1>6. HoldInv'
  BY <1>0, <1>1, <1>2, <1>e DEF HoldInv, Pos, Is
<1>7. GapInv'
  <2> SUFFICES ASSUME NEW i \in Pos', Is(i, "tick")', \A j \in Pos' : j > i => ~Is(j, "up")'
               PROVE  \/ sent' >= net'[i].age
                      \/ \E j \in Pos' : /\ j > i /\ Is(j, "tick")'
                                         /\ net'[j].age >= net'[i].age - ExpectedRate
    BY DEF GapInv
  <2>1. i \in Pos /\ Is(i, "tick") /\ \A j \in Pos : j > i => ~Is(j, "up")
    BY <1>2, SMTT(30) DEF Pos, Is
  <2> QED BY <1>0, <1>1, <1>2, <2>1, SMTT(30) DEF GapInv, Pos, Is
<1>8. CalmInv'
  <2>1. InTime /\ NoUp => InTime'
    BY <1>0, <1>1, <1>2 DEF InTime, Pos, Is
  <2>2. NoUp' => NoUp
    BY <1>1, <1>2 DEF NoUp, Pos, Is
  <2>3. net # <<>> /\ Is(1, "press") => net' # <<>> /\ Is(1, "press")'
    BY <1>2, <1>e DEF Pos, Is
  <2> QED BY <1>0, <1>1, <2>1, <2>2, <2>3 DEF CalmInv
<1> QED BY <1>3, <1>4, <1>5, <1>6, <1>7, <1>8 DEF KeepAliveInv

\* The client sends a keepalive, an interval after the last one.
LEMMA SendTickStep == KeepAliveInv /\ SendTick => KeepAliveInv'
<1> SUFFICES ASSUME KeepAliveInv, SendTick PROVE KeepAliveInv'
  OBVIOUS
<1>0. /\ TypeInv /\ TimerInv /\ ChannelInv /\ SilentInv /\ LeftInv
      /\ HoldInv /\ GapInv /\ CalmInv
  BY DEF KeepAliveInv
<1>1. /\ client = "holding" /\ sent = ExpectedRate /\ sent' = 0
      /\ UNCHANGED <<client, quiet, held, left, lastTick, calm>>
      /\ Send("tick")
  BY DEF SendTick
<1>2. /\ net' \in Seq(Messages)
      /\ Len(net') = Len(net) + 1 /\ Len(net) \in Nat
      /\ net'[Len(net) + 1].kind = "tick" /\ net'[Len(net) + 1].age = 0
      /\ \A i \in Pos : /\ net'[i].kind = net[i].kind /\ net'[i].age = net[i].age
                        /\ net[i].age \in Nat
  BY <1>0, <1>1, SendEffect DEF Kinds
<1>3. TypeInv'
  BY <1>0, <1>1, <1>2, KeepAliveAssumption DEF TypeInv
<1>4. TimerInv' /\ SilentInv' /\ LeftInv'
  BY <1>0, <1>1 DEF TimerInv, SilentInv, LeftInv
<1>e. net = <<>> <=> Len(net) = 0
  BY <1>0 DEF TypeInv
<1>5. ChannelInv'
  <2>1. AgesOrdered'
    BY <1>0, <1>2 DEF ChannelInv, AgesOrdered, Pos
  <2>2. AgesBounded'
    BY <1>0, <1>1, <1>2, KeepAliveAssumption, TunablesAssumption
       DEF ChannelInv, AgesBounded, Pos
  <2> QED BY <2>1, <2>2 DEF ChannelInv
<1>6. HoldInv'
  BY <1>0, <1>1, <1>2, <1>e DEF HoldInv, Pos, Is
<1>7. GapInv'
  <2> SUFFICES ASSUME NEW i \in Pos', Is(i, "tick")', \A j \in Pos' : j > i => ~Is(j, "up")'
               PROVE  \/ sent' >= net'[i].age
                      \/ \E j \in Pos' : /\ j > i /\ Is(j, "tick")'
                                         /\ net'[j].age >= net'[i].age - ExpectedRate
    BY DEF GapInv
  <2>1. CASE i = Len(net) + 1
    BY <1>1, <1>2, <2>1
  <2>2. CASE i # Len(net) + 1
    <3>1. i \in Pos /\ Is(i, "tick") /\ \A j \in Pos : j > i => ~Is(j, "up")
      BY <1>2, <2>2 DEF Pos, Is
    <3>2. CASE sent >= net[i].age
      <4> DEFINE last == Len(net) + 1
      <4>1. /\ last \in Pos' /\ last > i /\ net'[last].kind = "tick"
            /\ net'[last].age >= net'[i].age - ExpectedRate
        BY <1>1, <1>2, <3>1, <3>2, KeepAliveAssumption DEF Pos
      <4> QED BY <4>1 DEF Is
    <3>3. CASE \E j \in Pos : j > i /\ Is(j, "tick") /\ net[j].age >= net[i].age - ExpectedRate
      BY <1>2, <3>1, <3>3 DEF Pos, Is
    <3> QED BY <1>0, <1>1, <3>1, <3>2, <3>3 DEF GapInv
  <2> QED BY <2>1, <2>2
<1>8. CalmInv'
  <2>1. /\ Len(net) + 1 \in Pos'
        /\ net'[Len(net) + 1].kind = "tick" /\ net'[Len(net) + 1].age = 0
    BY <1>2 DEF Pos
  <2>2. InTime => InTime'
    <3> SUFFICES ASSUME InTime PROVE InTime'
      OBVIOUS
    <3> DEFINE last == Len(net) + 1
    <3>0. /\ left \in Int /\ lastTick \in Int /\ ExpectedRate \in Nat /\ MaxLateness \in Nat
          /\ Pos \subseteq Pos'
      BY <1>0, <1>2, KeepAliveAssumption DEF TypeInv, Never, Pos
    <3>1. \E i \in Pos' : Is(i, "tick")' /\ left' >= MaxLateness - net'[i].age
      <4>1. CASE left >= ExpectedRate - sent + MaxLateness
        <5>1. left' >= MaxLateness - net'[last].age
          BY <1>1, <2>1, <3>0, <4>1
        <5> QED BY <2>1, <5>1 DEF Is
      <4>2. CASE \E i \in Pos : Is(i, "tick") /\ left >= MaxLateness - net[i].age
        BY <1>1, <1>2, <3>0, <4>2 DEF Is
      <4> QED BY <4>1, <4>2 DEF InTime
    <3>2. \E i \in Pos' : Is(i, "tick")' /\ lastTick' <= net'[i].age + ExpectedRate
      <4>1. CASE lastTick <= sent
        <5>1. lastTick' <= net'[last].age + ExpectedRate
          BY <1>1, <2>1, <3>0, <4>1
        <5> QED BY <2>1, <5>1 DEF Is
      <4>2. CASE \E i \in Pos : Is(i, "tick") /\ lastTick <= net[i].age + ExpectedRate
        BY <1>1, <1>2, <3>0, <4>2 DEF Is
      <4> QED BY <4>1, <4>2 DEF InTime
    <3> QED BY <3>1, <3>2 DEF InTime
  <2>3. NoUp' => NoUp
    BY <1>1, <1>2 DEF NoUp, Pos, Is
  <2>4. net # <<>> /\ Is(1, "press") => net' # <<>> /\ Is(1, "press")'
    BY <1>2, <1>e DEF Pos, Is
  <2> QED BY <1>0, <1>1, <2>2, <2>3, <2>4 DEF CalmInv
<1> QED BY <1>3, <1>4, <1>5, <1>6, <1>7, <1>8 DEF KeepAliveInv

\* The client lets the key go.
LEMMA LetGoStep == KeepAliveInv /\ LetGo => KeepAliveInv'
<1> SUFFICES ASSUME KeepAliveInv, LetGo PROVE KeepAliveInv'
  OBVIOUS
<1>0. /\ TypeInv /\ TimerInv /\ ChannelInv /\ SilentInv /\ LeftInv
      /\ HoldInv /\ GapInv /\ CalmInv
  BY DEF KeepAliveInv
<1>1. /\ client = "holding" /\ client' = "up"
      /\ UNCHANGED <<sent, quiet, held, left, lastTick, calm>>
      /\ Send("up")
  BY DEF LetGo
<1>2. /\ net' \in Seq(Messages)
      /\ Len(net') = Len(net) + 1 /\ Len(net) \in Nat
      /\ net'[Len(net) + 1].kind = "up" /\ net'[Len(net) + 1].age = 0
      /\ \A i \in Pos : /\ net'[i].kind = net[i].kind /\ net'[i].age = net[i].age
                        /\ net[i].age \in Nat
  BY <1>0, <1>1, SendEffect DEF Kinds
<1>3. TypeInv'
  BY <1>0, <1>1, <1>2, KeepAliveAssumption DEF TypeInv
<1>4. TimerInv' /\ SilentInv' /\ LeftInv'
  BY <1>0, <1>1 DEF TimerInv, SilentInv, LeftInv
<1>e. net = <<>> <=> Len(net) = 0
  BY <1>0 DEF TypeInv
<1>5. ChannelInv'
  <2>1. AgesOrdered'
    BY <1>0, <1>2 DEF ChannelInv, AgesOrdered, Pos
  <2>2. AgesBounded'
    BY <1>0, <1>1, <1>2, KeepAliveAssumption, TunablesAssumption
       DEF ChannelInv, AgesBounded, Pos
  <2> QED BY <2>1, <2>2 DEF ChannelInv
<1>6. HoldInv'
  BY <1>0, <1>1, <1>2, <1>e DEF HoldInv, Pos, Is
<1>7. GapInv'
  BY <1>1 DEF GapInv
<1>8. CalmInv'
  BY <1>1 DEF CalmInv
<1> QED BY <1>3, <1>4, <1>5, <1>6, <1>7, <1>8 DEF KeepAliveInv

\* The client falls silent: its silence begins now.
LEMMA FallSilentStep == KeepAliveInv /\ FallSilent => KeepAliveInv'
<1> SUFFICES ASSUME KeepAliveInv, FallSilent PROVE KeepAliveInv'
  OBVIOUS
<1>0. /\ TypeInv /\ TimerInv /\ ChannelInv /\ SilentInv /\ LeftInv
      /\ HoldInv /\ GapInv /\ CalmInv
  BY DEF KeepAliveInv
<1>1. /\ client = "holding" /\ client' = "silent" /\ quiet' = 0
      /\ UNCHANGED <<sent, net, held, left, lastTick, calm>>
  BY DEF FallSilent
<1>2. \A i \in Pos : net[i].age \in Nat
  BY <1>0, MessageAges
<1>3. TypeInv' /\ TimerInv' /\ LeftInv'
  BY <1>0, <1>1 DEF TypeInv, TimerInv, LeftInv
<1>4. ChannelInv'
  BY <1>0, <1>1 DEF ChannelInv, AgesOrdered, AgesBounded, Pos
<1>5. SilentInv'
  BY <1>0, <1>1, <1>2, KeepAliveAssumption
     DEF SilentInv, LeftInv, TimerInv, TypeInv, Pos, BaseExtension
<1>6. HoldInv' /\ GapInv' /\ CalmInv'
  BY <1>0, <1>1 DEF HoldInv, GapInv, CalmInv, Pos, Is
<1> QED BY <1>3, <1>4, <1>5, <1>6 DEF KeepAliveInv

\* What the end of a message's way leaves as it is, whatever it did.
LEMMA TailKeeps ==
  ASSUME KeepAliveInv, net # <<>>, net' = Tail(net), UNCHANGED <<client, sent, quiet>>,
         calm' => calm
  PROVE  /\ ChannelInv' /\ GapInv'
         /\ client = "silent" => \A i \in Pos' : quiet <= net'[i].age
         /\ NoUp => NoUp'
         /\ \A i \in Pos' : Is(i, "up")' =>
              IF i = Len(net') THEN client' = "up" ELSE net'[i + 1].kind = "press"
         /\ client = "up" /\ net' # <<>> => net'[Len(net')].kind = "up"
         /\ client = "up" /\ net' = <<>> => Is(1, "up")
<1>0. /\ TypeInv /\ TimerInv /\ ChannelInv /\ SilentInv /\ LeftInv
      /\ HoldInv /\ GapInv /\ CalmInv
  BY DEF KeepAliveInv
<1>2. /\ net' \in Seq(Messages)
      /\ Len(net') = Len(net) - 1 /\ Len(net) \in Nat \ {0}
      /\ Head(net) = net[1]
      /\ \A i \in 1..Len(net) - 1 : /\ net'[i].kind = net[i + 1].kind
                                    /\ net'[i].age = net[i + 1].age
      /\ \A i \in Pos : net[i].age \in Nat
  BY <1>0, TailEffect
<1>e. net' = <<>> <=> Len(net) = 1
  <2>1. net' \in Seq(Messages)
    BY <1>2
  <2>2. net' = <<>> <=> Len(net') = 0
    BY <2>1, EmptyLen
  <2> QED BY <1>2, <2>2
<1>3. ChannelInv'
  <2>1. AgesOrdered'
    BY <1>0, <1>2, SMTT(30) DEF ChannelInv, AgesOrdered, Pos
  <2>2. AgesBounded'
    BY <1>0, <1>2 DEF ChannelInv, AgesBounded, Pos
  <2> QED BY <2>1, <2>2 DEF ChannelInv
<1>4. GapInv'
  <2> SUFFICES ASSUME client = "holding",
                      NEW i \in Pos', Is(i, "tick")', \A j \in Pos' : j > i => ~Is(j, "up")'
               PROVE  \/ sent' >= net'[i].age
                      \/ \E j \in Pos' : /\ j > i /\ Is(j, "tick")'
                                         /\ net'[j].age >= net'[i].age - ExpectedRate
    BY DEF GapInv
  <2>1. i + 1 \in Pos /\ Is(i + 1, "tick")
    BY <1>2 DEF Pos, Is
  <2>2. ASSUME NEW j \in Pos, j > i + 1 PROVE ~Is(j, "up")
    <3>1. j - 1 \in Pos' /\ j - 1 > i /\ net'[j - 1].kind = net[j].kind
      BY <1>2, <2>2 DEF Pos
    <3> QED BY <3>1 DEF Is
  <2>3. CASE sent >= net[i + 1].age
    BY <1>2, <2>1, <2>3 DEF Pos
  <2>4. CASE \E j \in Pos : /\ j > i + 1 /\ Is(j, "tick")
                            /\ net[j].age >= net[i + 1].age - ExpectedRate
    <3>1. PICK j \in Pos : /\ j > i + 1 /\ Is(j, "tick")
                           /\ net[j].age >= net[i + 1].age - ExpectedRate
      BY <2>4
    <3>2. /\ j - 1 \in Pos' /\ j - 1 > i /\ net'[j - 1].kind = "tick"
          /\ net'[j - 1].age >= net'[i].age - ExpectedRate
      BY <1>2, <2>1, <3>1 DEF Pos, Is
    <3> QED BY <3>2 DEF Is
  <2> QED BY <1>0, <2>1, <2>2, <2>3, <2>4 DEF GapInv
<1>5. client = "silent" => \A i \in Pos' : quiet <= net'[i].age
  BY <1>0, <1>2 DEF SilentInv, Pos
<1>6. NoUp => NoUp'
  BY <1>2 DEF NoUp, Pos, Is
<1>7. ASSUME NEW i \in Pos', Is(i, "up")'
      PROVE  IF i = Len(net') THEN client' = "up" ELSE net'[i + 1].kind = "press"
  <2>1. i + 1 \in Pos /\ Is(i + 1, "up")
    BY <1>2, <1>7 DEF Pos, Is
  <2>2. IF i + 1 = Len(net) THEN client = "up" ELSE net[i + 2].kind = "press"
    BY <1>0, <2>1 DEF HoldInv, Is, Pos
  <2> QED BY <1>2, <2>1, <2>2 DEF Pos
<1>8. client = "up" => Is(Len(net), "up")
  BY <1>0 DEF HoldInv
<1>9. client = "up" /\ net' # <<>> => net'[Len(net')].kind = "up"
  BY <1>2, <1>8, <1>e DEF Is
<1>10. client = "up" /\ net' = <<>> => Is(1, "up")
  BY <1>8, <1>e DEF Is
<1> QED BY <1>3, <1>4, <1>5, <1>6, <1>7, <1>9, <1>10

\* A keepalive is lost: the hold is not calm any more.
LEMMA LoseTickStep == KeepAliveInv /\ LoseTick => KeepAliveInv'
<1> SUFFICES ASSUME KeepAliveInv, LoseTick PROVE KeepAliveInv'
  OBVIOUS
<1>0. /\ TypeInv /\ TimerInv /\ ChannelInv /\ SilentInv /\ LeftInv
      /\ HoldInv /\ GapInv /\ CalmInv
  BY DEF KeepAliveInv
<1>1. /\ net # <<>> /\ Head(net).kind = "tick" /\ net' = Tail(net) /\ calm' = FALSE
      /\ UNCHANGED <<client, sent, quiet, held, left, lastTick>>
  BY DEF LoseTick
<1>2. /\ net' \in Seq(Messages)
      /\ Len(net') = Len(net) - 1 /\ Len(net) \in Nat \ {0}
      /\ Head(net) = net[1]
      /\ \A i \in 1..Len(net) - 1 : /\ net'[i].kind = net[i + 1].kind
                                    /\ net'[i].age = net[i + 1].age
      /\ \A i \in Pos : net[i].age \in Nat
  BY <1>0, <1>1, TailEffect
<1>3. /\ ChannelInv' /\ GapInv'
      /\ client = "silent" => \A i \in Pos' : quiet <= net'[i].age
      /\ NoUp => NoUp'
      /\ \A i \in Pos' : Is(i, "up")' =>
           IF i = Len(net') THEN client' = "up" ELSE net'[i + 1].kind = "press"
      /\ client = "up" /\ net' # <<>> => net'[Len(net')].kind = "up"
      /\ client = "up" /\ net' = <<>> => Is(1, "up")
  BY <1>1, TailKeeps
<1>4. TypeInv'
  BY <1>0, <1>1, <1>2 DEF TypeInv
<1>5. TimerInv' /\ LeftInv'
  BY <1>0, <1>1 DEF TimerInv, LeftInv
<1>6. SilentInv'
  BY <1>0, <1>1, <1>3 DEF SilentInv
<1>7. HoldInv'
  BY <1>1, <1>2, <1>3 DEF HoldInv, Is
<1>8. CalmInv'
  BY <1>1 DEF CalmInv
<1> QED BY <1>3, <1>4, <1>5, <1>6, <1>7, <1>8 DEF KeepAliveInv

\* A press arrives, of a key that is up or down: the timer is at its longest.
LEMMA PressArrivesStep == KeepAliveInv /\ PressArrives => KeepAliveInv'
<1> SUFFICES ASSUME KeepAliveInv, PressArrives PROVE KeepAliveInv'
  OBVIOUS
<1>0. /\ TypeInv /\ TimerInv /\ ChannelInv /\ SilentInv /\ LeftInv
      /\ HoldInv /\ GapInv /\ CalmInv
  BY DEF KeepAliveInv
<1>1. /\ net # <<>> /\ Head(net).kind = "press" /\ net' = Tail(net)
      /\ held' = TRUE /\ left' = ReleaseAfter
      /\ lastTick' = IF held THEN lastTick ELSE Never
      /\ UNCHANGED <<client, sent, quiet, calm>>
  BY DEF PressArrives, Arrives
<1>2. /\ net' \in Seq(Messages)
      /\ Len(net') = Len(net) - 1 /\ Len(net) \in Nat \ {0}
      /\ Head(net) = net[1]
      /\ \A i \in 1..Len(net) - 1 : /\ net'[i].kind = net[i + 1].kind
                                    /\ net'[i].age = net[i + 1].age
      /\ \A i \in Pos : net[i].age \in Nat
  BY <1>0, <1>1, TailEffect
<1>3. /\ ChannelInv' /\ GapInv'
      /\ client = "silent" => \A i \in Pos' : quiet <= net'[i].age
      /\ NoUp => NoUp'
      /\ \A i \in Pos' : Is(i, "up")' =>
           IF i = Len(net') THEN client' = "up" ELSE net'[i + 1].kind = "press"
      /\ client = "up" /\ net' # <<>> => net'[Len(net')].kind = "up"
      /\ client = "up" /\ net' = <<>> => Is(1, "up")
  BY <1>1, TailKeeps
<1>t. ReleaseAfter \in Nat /\ ReleaseAfter = BaseExtension /\ BaseExtension \in Nat
  BY KeepAliveAssumption, TunablesAssumption DEF BaseExtension
<1>4. TypeInv'
  BY <1>0, <1>1, <1>2, <1>t DEF TypeInv
<1>5. TimerInv' /\ LeftInv'
  BY <1>1, <1>t DEF TimerInv, LeftInv, Never
<1>6. SilentInv'
  <2>1. client = "silent" => quiet <= Jitter
    BY <1>0, <1>2, KeepAliveAssumption
       DEF SilentInv, ChannelInv, AgesBounded, Pos, TypeInv
  <2>2. client = "silent" => left' + quiet' <= Jitter + BaseExtension
    BY <1>0, <1>1, <1>t, <2>1, KeepAliveAssumption DEF TypeInv
  <2> QED BY <1>1, <1>3, <2>2 DEF SilentInv
<1>7. HoldInv'
  BY <1>1, <1>2, <1>3 DEF HoldInv, Is
<1>8. CalmInv'
  <2> SUFFICES ASSUME client = "holding", calm, NoUp' PROVE InTime'
    BY <1>1 DEF CalmInv
  <2>1. left' >= ExpectedRate - sent' + MaxLateness
    BY <1>0, <1>1, <1>t, KeepAliveAssumption DEF BaseExtension, TypeInv
  <2>2. NoUp
    <3> SUFFICES ASSUME NEW i \in Pos PROVE ~Is(i, "up")
      BY DEF NoUp
    <3>1. CASE i = 1
      BY <1>1, <1>2, <3>1 DEF Is
    <3>2. CASE i # 1
      <4>1. i - 1 \in Pos' /\ net'[i - 1].kind = net[i].kind
        BY <1>2, <3>2 DEF Pos
      <4> QED BY <4>1 DEF NoUp, Is
    <3> QED BY <3>1, <3>2
  <2>3. lastTick' <= sent' \/ \E i \in Pos' : /\ Is(i, "tick")'
                                              /\ lastTick' <= net'[i].age + ExpectedRate
    <3>1. CASE ~held
      BY <1>0, <1>1, <3>1, KeepAliveAssumption DEF TypeInv, Never
    <3>2. CASE held
      <4>1. InTime
        BY <1>0, <2>2, <3>2 DEF CalmInv
      <4>2. CASE lastTick <= sent
        BY <1>1, <3>2, <4>2
      <4>3. CASE \E i \in Pos : Is(i, "tick") /\ lastTick <= net[i].age + ExpectedRate
        <5>1. PICK i \in Pos : Is(i, "tick") /\ lastTick <= net[i].age + ExpectedRate
          BY <4>3
        <5>2. /\ i - 1 \in Pos' /\ net'[i - 1].kind = "tick"
              /\ lastTick' <= net'[i - 1].age + ExpectedRate
          BY <1>1, <1>2, <3>2, <5>1 DEF Pos, Is
        <5> QED BY <5>2 DEF Is
      <4> QED BY <4>1, <4>2, <4>3 DEF InTime
    <3> QED BY <3>1, <3>2
  <2> QED BY <2>1, <2>3 DEF InTime
<1> QED BY <1>3, <1>4, <1>5, <1>6, <1>7, <1>8 DEF KeepAliveInv

\* A release arrives: the key is up, and a hold that has begun has its press next.
LEMMA UpArrivesStep == KeepAliveInv /\ UpArrives => KeepAliveInv'
<1> SUFFICES ASSUME KeepAliveInv, UpArrives PROVE KeepAliveInv'
  OBVIOUS
<1>0. /\ TypeInv /\ TimerInv /\ ChannelInv /\ SilentInv /\ LeftInv
      /\ HoldInv /\ GapInv /\ CalmInv
  BY DEF KeepAliveInv
<1>1. /\ net # <<>> /\ Head(net).kind = "up" /\ net' = Tail(net)
      /\ held' = FALSE /\ left' = Never
      /\ lastTick' = IF held THEN Never ELSE lastTick
      /\ UNCHANGED <<client, sent, quiet, calm>>
  BY DEF UpArrives, Arrives
<1>2. /\ net' \in Seq(Messages)
      /\ Len(net') = Len(net) - 1 /\ Len(net) \in Nat \ {0}
      /\ Head(net) = net[1]
      /\ \A i \in 1..Len(net) - 1 : /\ net'[i].kind = net[i + 1].kind
                                    /\ net'[i].age = net[i + 1].age
      /\ \A i \in Pos : net[i].age \in Nat
  BY <1>0, <1>1, TailEffect
<1>3. /\ ChannelInv' /\ GapInv'
      /\ client = "silent" => \A i \in Pos' : quiet <= net'[i].age
      /\ NoUp => NoUp'
      /\ \A i \in Pos' : Is(i, "up")' =>
           IF i = Len(net') THEN client' = "up" ELSE net'[i + 1].kind = "press"
      /\ client = "up" /\ net' # <<>> => net'[Len(net')].kind = "up"
      /\ client = "up" /\ net' = <<>> => Is(1, "up")
  BY <1>1, TailKeeps
<1>4. TypeInv'
  BY <1>0, <1>1, <1>2 DEF TypeInv
<1>5. TimerInv' /\ LeftInv'
  BY <1>1, KeepAliveAssumption DEF TimerInv, LeftInv, Never, BaseExtension
<1>6. SilentInv'
  BY <1>0, <1>1, <1>3 DEF SilentInv
<1>7. HoldInv'
  BY <1>1, <1>2, <1>3 DEF HoldInv, Is
<1>8. CalmInv'
  <2>0. 1 \in Pos /\ Is(1, "up")
    BY <1>1, <1>2 DEF Pos, Is
  <2>1. client = "holding" => Len(net) # 1 /\ net[2].kind = "press"
    <3>1. IF 1 = Len(net) THEN client = "up" ELSE Is(1 + 1, "press")
      BY <1>0, <2>0 DEF HoldInv
    <3> QED BY <3>1 DEF Is
  <2>2. Len(net) # 1 => Len(net') # 0 /\ net'[1].kind = net[2].kind
    BY <1>2
  <2>3. Len(net') # 0 => net' # <<>>
    OBVIOUS
  <2> QED BY <1>1, <2>1, <2>2, <2>3 DEF CalmInv, Is
<1> QED BY <1>3, <1>4, <1>5, <1>6, <1>7, <1>8 DEF KeepAliveInv

\* A keepalive arrives.  In a calm hold it is accepted: it was sent an interval
\* after the one before it and is late by less than its own delay; and the
\* extension it grants reaches beyond the next one's latest arrival.
LEMMA TickArrivesStep == KeepAliveInv /\ TickArrives => KeepAliveInv'
<1> SUFFICES ASSUME KeepAliveInv, TickArrives PROVE KeepAliveInv'
  OBVIOUS
<1>0. /\ TypeInv /\ TimerInv /\ ChannelInv /\ SilentInv /\ LeftInv
      /\ HoldInv /\ GapInv /\ CalmInv
  BY DEF KeepAliveInv
<1>1. /\ net # <<>> /\ Head(net).kind = "tick" /\ net' = Tail(net)
      /\ UNCHANGED <<client, sent, quiet, held, calm>>
      /\ IF AcceptTick
           THEN /\ lastTick' = 0
                /\ left' = IF left = Never THEN Never ELSE Extension
           ELSE UNCHANGED <<lastTick, left>>
  BY DEF TickArrives, Arrives
<1>2. /\ net' \in Seq(Messages)
      /\ Len(net') = Len(net) - 1 /\ Len(net) \in Nat \ {0}
      /\ Head(net) = net[1]
      /\ \A i \in 1..Len(net) - 1 : /\ net'[i].kind = net[i + 1].kind
                                    /\ net'[i].age = net[i + 1].age
      /\ \A i \in Pos : net[i].age \in Nat
  BY <1>0, <1>1, TailEffect
<1>3. /\ ChannelInv' /\ GapInv'
      /\ client = "silent" => \A i \in Pos' : quiet <= net'[i].age
      /\ NoUp => NoUp'
      /\ \A i \in Pos' : Is(i, "up")' =>
           IF i = Len(net') THEN client' = "up" ELSE net'[i + 1].kind = "press"
      /\ client = "up" /\ net' # <<>> => net'[Len(net')].kind = "up"
      /\ client = "up" /\ net' = <<>> => Is(1, "up")
  BY <1>1, TailKeeps
<1>t. /\ ExpectedRate \in Nat /\ MaxLateness \in Nat /\ MaxStaleness \in Nat /\ Jitter \in Nat
      /\ BaseExtension = ExpectedRate + MaxLateness /\ BaseExtension <= MaxStaleness
  BY KeepAliveAssumption, TunablesAssumption DEF BaseExtension
<1>n. lastTick \in Int /\ left \in Int /\ sent \in Nat /\ sent <= ExpectedRate /\ quiet \in Nat
  BY <1>0, <1>t DEF TypeInv, Never
<1>x. AcceptTick => Extension \in Nat /\ Extension <= BaseExtension
  BY <1>t, <1>n DEF AcceptTick, Extension, Lateness, Never
<1>4. TypeInv'
  <2>1. left' \in Nat \cup {Never} /\ lastTick' \in Nat \cup {Never}
    BY <1>0, <1>1, <1>x DEF TypeInv
  <2> QED BY <1>0, <1>1, <1>2, <2>1 DEF TypeInv
<1>5. TimerInv' /\ LeftInv'
  <2>1. left' = Never <=> left = Never
    BY <1>1, <1>x DEF Never
  <2>2. left' <= BaseExtension
    BY <1>0, <1>1, <1>t, <1>x DEF LeftInv, Never
  <2> QED BY <1>0, <1>1, <2>1, <2>2 DEF TimerInv, LeftInv
<1>6. SilentInv'
  <2>1. client = "silent" => quiet <= Jitter
    BY <1>0, <1>2, <1>t, <1>n DEF SilentInv, ChannelInv, AgesBounded, Pos
  <2>2. client = "silent" /\ held => left' + quiet' <= Jitter + BaseExtension
    <3>1. CASE AcceptTick
      BY <1>0, <1>1, <1>t, <1>n, <1>x, <2>1, <3>1 DEF TimerInv
    <3>2. CASE ~AcceptTick
      BY <1>0, <1>1, <3>2 DEF SilentInv
    <3> QED BY <3>1, <3>2
  <2> QED BY <1>1, <1>3, <2>2 DEF SilentInv
<1>7. HoldInv'
  BY <1>1, <1>2, <1>3 DEF HoldInv, Is
<1>8. CalmInv'
  <2> SUFFICES ASSUME client = "holding", calm, NoUp' PROVE held /\ InTime'
    BY <1>1 DEF CalmInv
  <2> DEFINE a == net[1].age
  <2>0. 1 \in Pos /\ Is(1, "tick") /\ a \in Nat /\ a < MaxLateness
    BY <1>0, <1>1, <1>2 DEF Pos, Is, ChannelInv, AgesBounded
  <2>1. \A i \in Pos : ~Is(i, "up")
    <3> SUFFICES ASSUME NEW i \in Pos PROVE ~Is(i, "up")
      OBVIOUS
    <3>1. CASE i = 1
      BY <2>0, <3>1 DEF Is
    <3>2. CASE i # 1
      <4>1. i - 1 \in Pos' /\ net'[i - 1].kind = net[i].kind
        BY <1>2, <3>2 DEF Pos
      <4> QED BY <4>1 DEF NoUp, Is
    <3> QED BY <3>1, <3>2
  <2>2. held /\ InTime
    BY <1>0, <2>0, <2>1 DEF CalmInv, NoUp, Is
  <2>3. lastTick <= a + ExpectedRate
    <3>1. CASE lastTick <= sent
      BY <1>t, <1>n, <2>0, <3>1
    <3>2. CASE \E i \in Pos : Is(i, "tick") /\ lastTick <= net[i].age + ExpectedRate
      <4>1. PICK i \in Pos : lastTick <= net[i].age + ExpectedRate
        BY <3>2
      <4>2. a >= net[i].age /\ net[i].age \in Nat
        BY <1>0, <1>2, <2>0 DEF ChannelInv, AgesOrdered, Pos
      <4> QED BY <1>t, <1>n, <2>0, <4>1, <4>2
    <3> QED BY <2>2, <3>1, <3>2 DEF InTime
  <2>4. AcceptTick
    BY <1>t, <1>n, <2>0, <2>3 DEF AcceptTick, Lateness
  <2>5. lastTick' = 0 /\ left' >= BaseExtension - a /\ left' \in Int
    <3>1. left # Never
      BY <1>0, <2>2 DEF TimerInv
    <3>2. lastTick' = 0 /\ left' = Extension
      BY <1>1, <2>4, <3>1
    <3> QED BY <1>t, <1>n, <2>0, <2>3, <3>2 DEF Extension, Lateness
  <2>6. \/ left' >= ExpectedRate - sent' + MaxLateness
        \/ \E i \in Pos' : Is(i, "tick")' /\ left' >= MaxLateness - net'[i].age
    <3>1. CASE sent >= a
      BY <1>1, <1>t, <1>n, <2>0, <2>5, <3>1
    <3>2. CASE \E j \in Pos : j > 1 /\ Is(j, "tick") /\ net[j].age >= a - ExpectedRate
      <4>1. PICK j \in Pos : j > 1 /\ Is(j, "tick") /\ net[j].age >= a - ExpectedRate
        BY <3>2
      <4>2. /\ j - 1 \in Pos' /\ net'[j - 1].kind = "tick"
            /\ net'[j - 1].age = net[j].age /\ net[j].age \in Nat
        BY <1>2, <4>1 DEF Pos, Is
      <4>3. left' >= MaxLateness - net'[j - 1].age
        BY <1>t, <2>0, <2>5, <4>1, <4>2
      <4> QED BY <4>2, <4>3 DEF Is
    <3> QED BY <1>0, <2>0, <2>1, <3>1, <3>2 DEF GapInv
  <2>7. lastTick' <= sent'
    BY <1>1, <1>n, <2>5
  <2> QED BY <2>2, <2>6, <2>7 DEF InTime
<1> QED BY <1>3, <1>4, <1>5, <1>6, <1>7, <1>8 DEF KeepAliveInv

\* The timer ends: in a calm hold it does not, since the next keepalive would
\* be there before.
LEMMA AutoReleaseStep == KeepAliveInv /\ AutoRelease => KeepAliveInv'
<1> SUFFICES ASSUME KeepAliveInv, AutoRelease PROVE KeepAliveInv'
  OBVIOUS
<1>0. /\ TypeInv /\ TimerInv /\ ChannelInv /\ SilentInv /\ LeftInv
      /\ HoldInv /\ GapInv /\ CalmInv
  BY DEF KeepAliveInv
<1>1. /\ left = 0 /\ left' = Never /\ held' = FALSE
      /\ lastTick' = IF held THEN Never ELSE lastTick
      /\ UNCHANGED <<client, sent, quiet, net, calm>>
  BY DEF AutoRelease
<1>t. ExpectedRate \in Nat /\ MaxLateness \in Nat /\ MaxLateness > 0
  BY KeepAliveAssumption, TunablesAssumption
<1>2. held /\ left # Never
  BY <1>0, <1>1 DEF TimerInv, Never
<1>3. ~(client = "holding" /\ calm /\ NoUp)
  <2> SUFFICES ASSUME client = "holding", calm, NoUp PROVE FALSE
    OBVIOUS
  <2>1. InTime
    BY <1>0, <1>2 DEF CalmInv
  <2>2. CASE left >= ExpectedRate - sent + MaxLateness
    BY <1>0, <1>1, <1>t, <2>2 DEF TypeInv
  <2>3. CASE \E i \in Pos : Is(i, "tick") /\ left >= MaxLateness - net[i].age
    <3>1. PICK i \in Pos : left >= MaxLateness - net[i].age
      BY <2>3
    <3>2. net[i].age \in Nat /\ net[i].age < MaxLateness
      BY <1>0, MessageAges DEF ChannelInv, AgesBounded
    <3> QED BY <1>1, <1>t, <3>1, <3>2
  <2> QED BY <2>1, <2>2, <2>3 DEF InTime
<1>4. TypeInv' /\ TimerInv' /\ LeftInv'
  <2>1. TypeInv'
    BY <1>0, <1>1 DEF TypeInv
  <2>2. LeftInv'
    BY <1>1, <1>t DEF LeftInv, BaseExtension, Never
  <2> QED BY <1>1, <2>1, <2>2 DEF TimerInv
<1>5. ChannelInv' /\ SilentInv'
  BY <1>0, <1>1 DEF ChannelInv, AgesOrdered, AgesBounded, SilentInv, Pos
<1>6. HoldInv' /\ GapInv'
  BY <1>0, <1>1 DEF HoldInv, GapInv, Pos, Is
<1>7. CalmInv'
  BY <1>1, <1>3 DEF CalmInv, NoUp, Pos, Is
<1> QED BY <1>4, <1>5, <1>6, <1>7 DEF KeepAliveInv

\* Time passes, for the timer, for the messages and for the client alike.
LEMMA TimePassesStep == KeepAliveInv /\ TimePasses => KeepAliveInv'
<1> SUFFICES ASSUME KeepAliveInv, TimePasses PROVE KeepAliveInv'
  OBVIOUS
<1>0. /\ TypeInv /\ TimerInv /\ ChannelInv /\ SilentInv /\ LeftInv
      /\ HoldInv /\ GapInv /\ CalmInv
  BY DEF KeepAliveInv
<1>1. /\ left # 0 /\ (client = "holding" => sent < ExpectedRate)
      /\ \A i \in Pos : net[i].age < Jitter
      /\ left' = IF left = Never THEN Never ELSE left - 1
      /\ sent' = IF client = "holding" THEN sent + 1 ELSE sent
      /\ quiet' = IF client = "silent" /\ quiet < Horizon THEN quiet + 1 ELSE quiet
      /\ lastTick' = IF lastTick = Never \/ lastTick = OldAge THEN lastTick ELSE lastTick + 1
      /\ UNCHANGED <<client, held>>
  BY DEF TimePasses, Pos
<1>c. calm' <=> calm /\ \A i \in Pos : net[i].age + 1 < MaxLateness
  BY DEF TimePasses, Pos
<1>2. /\ net' \in Seq(Messages)
      /\ Len(net') = Len(net) /\ Len(net) \in Nat
      /\ \A i \in Pos : /\ net'[i].kind = net[i].kind /\ net'[i].age = net[i].age + 1
                        /\ net[i].age \in Nat
  BY <1>0, TimeEffect
<1>p. Pos' = Pos
  BY <1>2 DEF Pos
<1>t. /\ ExpectedRate \in Nat /\ MaxLateness \in Nat /\ Jitter \in Nat /\ BaseExtension \in Nat
      /\ Horizon \in Nat
  BY KeepAliveAssumption DEF BaseExtension, Horizon
<1>n. /\ left \in Nat \cup {Never} /\ lastTick \in Nat \cup {Never} /\ Never = -1
      /\ sent \in Nat /\ sent <= ExpectedRate /\ quiet \in Nat
  BY <1>0, <1>t DEF TypeInv, Never
<1>3. TypeInv'
  <2>1. left' \in Nat \cup {Never} /\ lastTick' \in Nat \cup {Never}
    BY <1>1, <1>n
  <2>2. sent' \in 0..ExpectedRate /\ quiet' \in Nat
    BY <1>1, <1>n, <1>t
  <2>3. calm' \in BOOLEAN
    BY DEF TimePasses
  <2> QED BY <1>0, <1>1, <1>2, <2>1, <2>2, <2>3 DEF TypeInv
<1>4. TimerInv' /\ LeftInv'
  BY <1>0, <1>1, <1>n, <1>t DEF TimerInv, LeftInv
<1>5. ChannelInv'
  <2>1. AgesOrdered'
    BY <1>0, <1>2, <1>p DEF ChannelInv, AgesOrdered, Pos
  <2>2. AgesBounded'
    BY <1>1, <1>c, <1>2, <1>p, <1>t DEF AgesBounded, Pos
  <2> QED BY <2>1, <2>2 DEF ChannelInv
<1>6. SilentInv'
  <2> SUFFICES ASSUME client = "silent"
               PROVE  /\ \A i \in Pos : quiet' <= net'[i].age
                      /\ held => left' + quiet' <= Jitter + BaseExtension
    BY <1>1, <1>p DEF SilentInv
  <2>1. quiet' <= quiet + 1 /\ quiet' \in Nat
    BY <1>1, <1>n
  <2>2. \A i \in Pos : quiet' <= net'[i].age
    BY <1>0, <1>2, <1>n, <2>1 DEF SilentInv
  <2>3. held => left # Never /\ left + quiet <= Jitter + BaseExtension
    BY <1>0 DEF SilentInv, TimerInv
  <2>4. held => left' + quiet' <= Jitter + BaseExtension
    BY <1>1, <1>n, <1>t, <2>1, <2>3
  <2> QED BY <2>2, <2>4
<1>7. HoldInv'
  <2>1. net' = <<>> <=> net = <<>>
    BY <1>0, <1>2, EmptyLen DEF TypeInv
  <2>2. \A i \in Pos : Is(i, "up")' => IF i = Len(net') THEN client' = "up"
                                      ELSE net'[i + 1].kind = "press"
    BY <1>0, <1>1, <1>2 DEF HoldInv, Pos, Is
  <2>3. client' = "up" => IF net' = <<>> THEN ~held' ELSE net'[Len(net')].kind = "up"
    <3>1. net # <<>> => Len(net) \in Pos
      BY <1>0, <1>2, EmptyLen DEF TypeInv, Pos
    <3> QED BY <1>0, <1>1, <1>2, <2>1, <3>1 DEF HoldInv, Is
  <2> QED BY <1>p, <2>2, <2>3 DEF HoldInv, Is
<1>8. GapInv'
  <2> SUFFICES ASSUME client = "holding",
                      NEW i \in Pos, net'[i].kind = "tick",
                      \A j \in Pos : j > i => net'[j].kind # "up"
               PROVE  \/ sent' >= net'[i].age
                      \/ \E j \in Pos : /\ j > i /\ net'[j].kind = "tick"
                                        /\ net'[j].age >= net'[i].age - ExpectedRate
    BY <1>1, <1>p DEF GapInv, Is
  <2>1. Is(i, "tick") /\ \A j \in Pos : j > i => ~Is(j, "up")
    BY <1>2 DEF Is
  <2>2. CASE sent >= net[i].age
    BY <1>1, <1>2, <1>n, <2>2
  <2>3. CASE \E j \in Pos : j > i /\ Is(j, "tick") /\ net[j].age >= net[i].age - ExpectedRate
    <3>1. PICK j \in Pos : j > i /\ Is(j, "tick") /\ net[j].age >= net[i].age - ExpectedRate
      BY <2>3
    <3>2. net'[j].kind = "tick"
      BY <1>2, <3>1 DEF Is
    <3>3. /\ net'[j].age = net[j].age + 1 /\ net'[i].age = net[i].age + 1
          /\ net[j].age \in Nat /\ net[i].age \in Nat
      BY <1>2
    <3>4. net'[j].age >= net'[i].age - ExpectedRate
      BY <1>t, <3>1, <3>3
    <3> QED BY <3>1, <3>2, <3>4
  <2> QED BY <1>0, <2>1, <2>2, <2>3 DEF GapInv
<1>9. CalmInv'
  <2> SUFFICES ASSUME client = "holding", calm', NoUp'
               PROVE  IF held THEN InTime' ELSE net' # <<>> /\ Is(1, "press")'
    BY <1>1 DEF CalmInv
  <2>1. calm /\ NoUp
    BY <1>c, <1>2, <1>p DEF NoUp, Is
  <2>2. CASE ~held
    <3>1. net # <<>> /\ Is(1, "press")
      BY <1>0, <2>1, <2>2 DEF CalmInv
    <3>2. 1 \in Pos /\ net' # <<>>
      BY <1>0, <1>2, <3>1, EmptyLen DEF TypeInv, Pos
    <3> QED BY <1>2, <2>2, <3>1, <3>2 DEF Is
  <2>3. CASE held
    <3>0. InTime /\ left \in Nat /\ left # 0 /\ left' = left - 1 /\ sent' = sent + 1
      BY <1>0, <1>1, <1>n, <2>1, <2>3 DEF CalmInv, TimerInv
    <3>1. \/ left' >= ExpectedRate - sent' + MaxLateness
          \/ \E i \in Pos : net'[i].kind = "tick" /\ left' >= MaxLateness - net'[i].age
      <4>1. CASE left >= ExpectedRate - sent + MaxLateness
        BY <1>n, <1>t, <3>0, <4>1
      <4>2. CASE \E i \in Pos : Is(i, "tick") /\ left >= MaxLateness - net[i].age
        BY <1>2, <1>t, <3>0, <4>2, SMTT(30) DEF Is
      <4> QED BY <3>0, <4>1, <4>2 DEF InTime
    <3>l. lastTick' <= lastTick + 1 /\ lastTick' \in Int /\ lastTick \in Int
      BY <1>1, <1>n
    <3>2. \/ lastTick' <= sent'
          \/ \E i \in Pos : net'[i].kind = "tick" /\ lastTick' <= net'[i].age + ExpectedRate
      <4>1. CASE lastTick <= sent
        BY <1>n, <3>0, <3>l, <4>1
      <4>2. CASE \E i \in Pos : Is(i, "tick") /\ lastTick <= net[i].age + ExpectedRate
        <5>1. PICK i \in Pos : Is(i, "tick") /\ lastTick <= net[i].age + ExpectedRate
          BY <4>2
        <5>2. net'[i].kind = "tick"
          BY <1>2, <5>1 DEF Is
        <5>3. lastTick' <= net'[i].age + ExpectedRate
          BY <1>2, <1>t, <3>l, <5>1
        <5> QED BY <5>2, <5>3
      <4> QED BY <3>0, <4>1, <4>2 DEF InTime
    <3> QED BY <1>p, <2>3, <3>1, <3>2 DEF InTime, Is
  <2> QED BY <2>2, <2>3
<1> QED BY <1>3, <1>4, <1>5, <1>6, <1>7, <1>8, <1>9 DEF KeepAliveInv

\* The invariant holds in every state of every behaviour.
LEMMA KeepAliveInvHolds == Spec => []KeepAliveInv
<1>1. KeepAliveInv /\ UNCHANGED vars => KeepAliveInv'
  BY DEF vars, KeepAliveInv, TypeInv, TimerInv, ChannelInv, AgesOrdered, AgesBounded, SilentInv,
         LeftInv, HoldInv, GapInv, CalmInv, InTime, NoUp, Pos, Is
<1>2. KeepAliveInv /\ [Next]_vars => KeepAliveInv'
  BY <1>1, PressStep, RepeatStep, SendTickStep, LetGoStep, FallSilentStep, LoseTickStep,
     PressArrivesStep, UpArrivesStep, TickArrivesStep, AutoReleaseStep, TimePassesStep DEF Next
<1> QED BY <1>2, KeepAliveInvInit, PTL DEF Spec

----------------------------------------------------------------------------

\* While the client holds the key, loses no keepalive and has its messages
\* delayed by less than maxLateness, the device never lets the key go: for any
\* interval, tolerance and staleness limit that go together like those of
\* hidrpc.go, and any number of messages under way.
THEOREM KeyStaysDown == Spec => []HeldThroughJitter
<1>1. KeepAliveInv => HeldThroughJitter
  <2> SUFFICES ASSUME KeepAliveInv, client = "holding", calm,
                      \A i \in 1..Len(net) : net[i].kind = "tick"
               PROVE  held
    BY DEF HeldThroughJitter
  <2>1. NoUp
    BY DEF NoUp, Pos, Is
  <2>2. ~(net # <<>> /\ Is(1, "press"))
    <3>1. net # <<>> => 1 \in 1..Len(net)
      BY EmptyLen DEF KeepAliveInv, TypeInv
    <3> QED BY <3>1 DEF Is
  <2> QED BY <2>1, <2>2 DEF KeepAliveInv, CalmInv
<1> QED BY <1>1, KeepAliveInvHolds, PTL

\* A key of a client that fell silent goes up within the longest delay and one
\* extension: no run of delayed keepalives or repeated presses keeps it down.
THEOREM SilenceReleases == Spec => []SilenceBounded
<1>1. KeepAliveInv => SilenceBounded
  <2> SUFFICES ASSUME KeepAliveInv, client = "silent", held
               PROVE  quiet <= Jitter + BaseExtension
    BY DEF SilenceBounded
  <2>1. left \in Nat /\ quiet \in Nat /\ left + quiet <= Jitter + BaseExtension
    BY DEF KeepAliveInv, TypeInv, TimerInv, SilentInv
  <2> QED BY <2>1, KeepAliveAssumption DEF BaseExtension
<1> QED BY <1>1, KeepAliveInvHolds, PTL
============================================================================
