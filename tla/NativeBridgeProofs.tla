------------------------- MODULE NativeBridgeProofs -------------------------
(***************************************************************************)
(* Proof that events reach the main process in order, none twice, and, as  *)
(* long as no stream breaks and no queue overflows, none lost.             *)
(*                                                                         *)
(* The argument: the events of a kind are spread over six stages, from the *)
(* ones that were handled to the one a callback has just handed over, and  *)
(* every number in a stage is smaller than every number in a later one.    *)
(* Only the stages of the stream that the client reads count: any other    *)
(* stream is cancelled, so what it took from the channel goes no further.  *)
(*                                                                         *)
(* And proof that nobody waits for somebody who waits for him: whoever is  *)
(* in the C code holds cgoLock, what he waits for there is the channel of  *)
(* the events, and that channel drains whatever the handlers do.           *)
(***************************************************************************)
EXTENDS NativeBridge, TLAPS

Events == [kind : Kinds, n : Nat]
Servers == [pc : {"none", "new", "loop", "check", "send", "done"},
            cancelled : BOOLEAN, event : Events]

\* The types the proofs need.
TypeInv ==
  /\ sent \in [Kinds -> Nat] /\ holding \in [Kinds -> Nat]
  /\ chan \in Seq(Events) /\ inbox \in Seq(Events)
  /\ srv \in [Streams -> Servers]
  /\ net \in [Streams -> Seq(Events)]
  /\ got \in [Kinds -> Seq(Nat)]
  /\ active \in Streams \cup {None} /\ link \in Streams \cup {None}
  /\ lossy \in BOOLEAN

\* The events of a kind are in stages: those that were handled (of got[k]), and
\* those of Waiting(k): in eventCh (of inbox), on the stream the client reads,
\* taken for it, in eventStreamChan (of chan), and just handed over.
Handled(g) == {g[i] : i \in DOMAIN g}

\* A stream the client no longer reads carries nothing and will carry nothing.
StreamInv ==
  \A s \in Streams : s # link =>
    net[s] = <<>> /\ (srv[s].pc \in {"none", "done"} \/ srv[s].cancelled)

\* In a queue the events of a kind are in the order of their numbers.
Sorted(q) ==
  \A i, j \in DOMAIN q : i < j /\ q[i].kind = q[j].kind => q[i].n < q[j].n
QueuesSorted ==
  /\ InOrder /\ Sorted(inbox) /\ Sorted(chan)
  /\ \A s \in Streams : Sorted(net[s])

\* Every number of A is smaller than every number of B.
Below(A, B) == \A a \in A : \A b \in B : a < b

\* What is in a stage was reported before what is in a later stage.
Ordered(G, I, N, T, C, H) ==
  /\ Below(G, I \cup N \cup T \cup C \cup H)
  /\ Below(I, N \cup T \cup C \cup H)
  /\ Below(N, T \cup C \cup H)
  /\ Below(T, C \cup H)
  /\ Below(C, H)
StagesOrdered ==
  \A k \in Kinds :
    Ordered(Handled(got[k]), Numbers(k, inbox), OnStream(k, link, net),
            Taken(k, link, srv), Numbers(k, chan), Held(holding[k]))

\* Every number in the stages.
All(G, I, N, T, C, H) == G \cup I \cup N \cup T \cup C \cup H
Everywhere(k) ==
  All(Handled(got[k]), Numbers(k, inbox), OnStream(k, link, net),
      Taken(k, link, srv), Numbers(k, chan), Held(holding[k]))

\* A step that brings no number back.
Fewer == \A k \in Kinds : Everywhere(k)' \subseteq Everywhere(k)

\* No stage holds a number that was not given out.
NumbersGiven == \A k \in Kinds : Everywhere(k) \subseteq 1 .. sent[k]

\* Without a break there is one stream, which the server serves as soon as it
\* has begun.
OneStream ==
  ~lossy =>
    /\ \A s \in Streams : s # link => srv[s].pc = "none"
    /\ link = None => active = None
    /\ link # None => /\ srv[link].pc \in {"new", "loop", "check", "send"}
                      /\ ~srv[link].cancelled
                      /\ active = IF srv[link].pc = "new" THEN None ELSE link

\* Without a break and without an overflow the stages hold all that was reported.
AllThere == ~lossy => \A k \in Kinds : Everywhere(k) = 1 .. sent[k]

\* The inductive invariant.
BridgeInv ==
  /\ TypeInv /\ StreamInv /\ QueuesSorted /\ StagesOrdered /\ NumbersGiven
  /\ OneStream /\ AllThere

----------------------------------------------------------------------------
(* Queues of events. *)

\* The numbers of a queue, by its positions.
LEMMA NumbersMember ==
  ASSUME NEW q \in Seq(Events), NEW k, NEW x
  PROVE  x \in Numbers(k, q) <=> \E i \in 1 .. Len(q) : q[i].kind = k /\ q[i].n = x
BY DEF Numbers

\* A queue of events that is empty has no numbers.
LEMMA NumbersEmpty == \A k : Numbers(k, <<>>) = {}
BY DEF Numbers

\* An empty queue is sorted.
LEMMA SortedEmpty == Sorted(<<>>)
BY DEF Sorted

\* An event that is appended adds its number.
LEMMA NumbersAppend ==
  ASSUME NEW q \in Seq(Events), NEW e \in Events, NEW k
  PROVE  Numbers(k, Append(q, e)) = Numbers(k, q) \cup One(k, e)
<1> DEFINE r == Append(q, e)
<1>1. /\ r \in Seq(Events) /\ Len(r) = Len(q) + 1 /\ Len(q) \in Nat
      /\ r[Len(q) + 1] = e /\ \A i \in 1 .. Len(q) : r[i] = q[i]
  OBVIOUS
<1>2. ASSUME NEW x \in Numbers(k, r) PROVE x \in Numbers(k, q) \cup One(k, e)
  <2>1. PICK i \in 1 .. Len(r) : r[i].kind = k /\ r[i].n = x
    <3> HIDE DEF r
    <3> QED BY <1>1, <1>2, NumbersMember
  <2>2. CASE i = Len(q) + 1
    BY <1>1, <2>1, <2>2 DEF One
  <2>3. CASE i # Len(q) + 1
    <3>1. i \in 1 .. Len(q)
      BY <1>1, <2>3
    <3> HIDE DEF r
    <3> QED BY <1>1, <2>1, <3>1, NumbersMember
  <2> QED BY <2>2, <2>3
<1>3. ASSUME NEW x \in Numbers(k, q) \cup One(k, e) PROVE x \in Numbers(k, r)
  <2>1. CASE x \in Numbers(k, q)
    <3>1. PICK i \in 1 .. Len(q) : q[i].kind = k /\ q[i].n = x
      BY <2>1, NumbersMember
    <3>2. i \in 1 .. Len(r) /\ r[i] = q[i]
      BY <1>1
    <3> HIDE DEF r
    <3> QED BY <1>1, <3>1, <3>2, NumbersMember
  <2>2. CASE x \in One(k, e)
    <3>1. e.kind = k /\ e.n = x /\ Len(q) + 1 \in 1 .. Len(r)
      BY <1>1, <2>2 DEF One
    <3> HIDE DEF r
    <3> QED BY <1>1, <3>1, NumbersMember
  <2> QED BY <1>3, <2>1, <2>2
<1> QED BY <1>2, <1>3

\* A queue stays sorted when a later event is appended.
LEMMA SortedAppend ==
  ASSUME NEW q \in Seq(Events), NEW e \in Events, Sorted(q),
         Below(Numbers(e.kind, q), {e.n})
  PROVE  Sorted(Append(q, e))
<1> DEFINE r == Append(q, e)
<1>1. /\ r \in Seq(Events) /\ Len(r) = Len(q) + 1 /\ Len(q) \in Nat
      /\ r[Len(q) + 1] = e /\ \A i \in 1 .. Len(q) : r[i] = q[i]
      /\ DOMAIN q = 1 .. Len(q) /\ DOMAIN r = 1 .. Len(r)
  OBVIOUS
<1> HIDE DEF r
<1> SUFFICES Sorted(r)
  BY DEF r
<1> SUFFICES ASSUME NEW i \in 1 .. Len(r), NEW j \in 1 .. Len(r), i < j, r[i].kind = r[j].kind
             PROVE  r[i].n < r[j].n
  BY <1>1 DEF Sorted
<1>2. i \in 1 .. Len(q)
  BY <1>1
<1>3. CASE j = Len(q) + 1
  <2>1. q[i].n \in Numbers(e.kind, q)
    BY <1>1, <1>2, <1>3, NumbersMember
  <2> QED BY <1>1, <1>2, <1>3, <2>1 DEF Below
<1>4. CASE j # Len(q) + 1
  <2>1. j \in 1 .. Len(q)
    BY <1>1, <1>4
  <2>2. r[i] = q[i] /\ r[j] = q[j] /\ i \in DOMAIN q /\ j \in DOMAIN q
    BY <1>1, <1>2, <2>1
  <2> QED BY <2>2 DEF Sorted
<1> QED BY <1>3, <1>4

\* Taking the first event leaves a sorted queue of later ones.
LEMMA HeadTail ==
  ASSUME NEW q \in Seq(Events), q # <<>>, Sorted(q)
  PROVE  /\ Head(q) \in Events /\ Tail(q) \in Seq(Events) /\ Sorted(Tail(q))
         /\ \A k : /\ Numbers(k, q) = One(k, Head(q)) \cup Numbers(k, Tail(q))
                   /\ Below(One(k, Head(q)), Numbers(k, Tail(q)))
<1> DEFINE r == Tail(q)
<1>1. /\ Len(q) \in Nat /\ Len(q) >= 1 /\ DOMAIN q = 1 .. Len(q)
      /\ r \in Seq(Events) /\ Len(r) = Len(q) - 1 /\ DOMAIN r = 1 .. Len(r)
      /\ \A i \in 1 .. Len(r) : r[i] = q[i + 1]
      /\ Head(q) = q[1] /\ Head(q) \in Events
  OBVIOUS
<1> HIDE DEF r
<1>2. Sorted(r)
  <2> SUFFICES ASSUME NEW i \in 1 .. Len(r), NEW j \in 1 .. Len(r), i < j, r[i].kind = r[j].kind
               PROVE  r[i].n < r[j].n
    BY <1>1 DEF Sorted
  <2>1. i + 1 \in 1 .. Len(q) /\ j + 1 \in 1 .. Len(q) /\ i + 1 < j + 1
    BY <1>1
  <2> QED BY <1>1, <2>1 DEF Sorted
<1>3. ASSUME NEW k PROVE Numbers(k, q) = One(k, Head(q)) \cup Numbers(k, r)
  <2>1. ASSUME NEW x \in Numbers(k, q) PROVE x \in One(k, Head(q)) \cup Numbers(k, r)
    <3>1. PICK i \in 1 .. Len(q) : q[i].kind = k /\ q[i].n = x
      BY <2>1, NumbersMember
    <3>2. CASE i = 1
      BY <1>1, <3>1, <3>2 DEF One
    <3>3. CASE i # 1
      <4>1. i - 1 \in 1 .. Len(r) /\ r[i - 1] = q[i]
        BY <1>1, <3>3
      <4> QED BY <1>1, <3>1, <4>1, NumbersMember
    <3> QED BY <3>2, <3>3
  <2>2. ASSUME NEW x \in Numbers(k, r) PROVE x \in Numbers(k, q)
    <3>1. PICK i \in 1 .. Len(r) : r[i].kind = k /\ r[i].n = x
      BY <1>1, <2>2, NumbersMember
    <3>2. i + 1 \in 1 .. Len(q) /\ q[i + 1] = r[i]
      BY <1>1
    <3> QED BY <3>1, <3>2, NumbersMember
  <2>3. ASSUME NEW x \in One(k, Head(q)) PROVE x \in Numbers(k, q)
    <3>1. 1 \in 1 .. Len(q) /\ q[1].kind = k /\ q[1].n = x
      BY <1>1, <2>3 DEF One
    <3> QED BY <3>1, NumbersMember
  <2> QED BY <2>1, <2>2, <2>3
<1>4. ASSUME NEW k PROVE Below(One(k, Head(q)), Numbers(k, r))
  <2> SUFFICES ASSUME Head(q).kind = k, NEW b \in Numbers(k, r)
               PROVE  Head(q).n < b
    BY DEF Below, One
  <2>1. PICK i \in 1 .. Len(r) : r[i].kind = k /\ r[i].n = b
    BY <1>1, NumbersMember
  <2>2. 1 \in 1 .. Len(q) /\ i + 1 \in 1 .. Len(q) /\ 1 < i + 1 /\ q[i + 1] = r[i]
    BY <1>1
  <2> QED BY <1>1, <2>1, <2>2 DEF Sorted
<1> QED BY <1>1, <1>2, <1>3, <1>4 DEF r

\* What is handled last has the largest number.
LEMMA HandledAppend ==
  ASSUME NEW g \in Seq(Nat), NEW n \in Nat
  PROVE  /\ Append(g, n) \in Seq(Nat)
         /\ {Append(g, n)[i] : i \in DOMAIN Append(g, n)} = {g[i] : i \in DOMAIN g} \cup {n}
         /\ (/\ \A i, j \in DOMAIN g : i < j => g[i] < g[j]
             /\ \A i \in DOMAIN g : g[i] < n)
            => \A i, j \in DOMAIN Append(g, n) : i < j => Append(g, n)[i] < Append(g, n)[j]
<1> DEFINE r == Append(g, n)
<1>1. /\ r \in Seq(Nat) /\ Len(r) = Len(g) + 1 /\ Len(g) \in Nat
      /\ r[Len(g) + 1] = n /\ \A i \in 1 .. Len(g) : r[i] = g[i]
      /\ DOMAIN g = 1 .. Len(g) /\ DOMAIN r = 1 .. Len(r)
  OBVIOUS
<1> HIDE DEF r
<1>2. \A i : i \in DOMAIN r <=> i \in DOMAIN g \/ i = Len(g) + 1
  BY <1>1
<1>3. {r[i] : i \in DOMAIN r} = {g[i] : i \in DOMAIN g} \cup {n}
  BY <1>1, <1>2
<1>4. ASSUME \A i, j \in DOMAIN g : i < j => g[i] < g[j],
             \A i \in DOMAIN g : g[i] < n,
             NEW i \in DOMAIN r, NEW j \in DOMAIN r, i < j
      PROVE  r[i] < r[j]
  <2>1. i \in DOMAIN g /\ r[i] = g[i]
    BY <1>1, <1>4
  <2>2. CASE j = Len(g) + 1
    BY <1>1, <1>4, <2>1, <2>2
  <2>3. CASE j # Len(g) + 1
    <3>1. j \in DOMAIN g /\ r[j] = g[j]
      BY <1>1, <2>3
    <3> QED BY <1>4, <2>1, <3>1
  <2> QED BY <2>2, <2>3
<1> QED BY <1>1, <1>3, <1>4 DEF r

----------------------------------------------------------------------------
(* Numbers that move from one stage to the next. *)

\* A callback hands over numbers larger than all others.
LEMMA OrderReport ==
  ASSUME NEW G, NEW I, NEW N, NEW T, NEW C, NEW X,
         Ordered(G, I, N, T, C, {}), Below(All(G, I, N, T, C, {}), X)
  PROVE  Ordered(G, I, N, T, C, X)
BY DEF Ordered, Below, All

\* The number that was handed over is queued.
LEMMA OrderBroadcast ==
  ASSUME NEW G, NEW I, NEW N, NEW T, NEW C, NEW H,
         Ordered(G, I, N, T, C, H)
  PROVE  Ordered(G, I, N, T, C \cup H, {})
BY DEF Ordered, Below, All

\* The first number queued is taken for the stream.
LEMMA OrderTake ==
  ASSUME NEW G, NEW I, NEW N, NEW C, NEW H, NEW X,
         Ordered(G, I, N, {}, X \cup C, H), Below(X, C)
  PROVE  Ordered(G, I, N, X, C, H)
BY DEF Ordered, Below, All

\* Taking it changes no number.
LEMMA AllTake ==
  ASSUME NEW G, NEW I, NEW N, NEW C, NEW H, NEW X
  PROVE  All(G, I, N, X, C, H) = All(G, I, N, {}, X \cup C, H)
BY DEF All

\* The first number queued is taken for another stream.
LEMMA OrderTakeOther ==
  ASSUME NEW G, NEW I, NEW N, NEW T, NEW C, NEW H, NEW X,
         Ordered(G, I, N, T, X \cup C, H)
  PROVE  Ordered(G, I, N, T, C, H)
BY DEF Ordered, Below, All

\* What was taken for the stream is dropped.
LEMMA OrderCheck ==
  ASSUME NEW G, NEW I, NEW N, NEW T, NEW C, NEW H,
         Ordered(G, I, N, T, C, H)
  PROVE  Ordered(G, I, N, {}, C, H)
BY DEF Ordered, Below, All

\* What was taken for the stream is sent.
LEMMA OrderSend ==
  ASSUME NEW G, NEW I, NEW N, NEW T, NEW C, NEW H,
         Ordered(G, I, N, T, C, H)
  PROVE  Ordered(G, I, N \cup T, {}, C, H)
BY DEF Ordered, Below, All

\* The stream is gone, with what was on it.
LEMMA OrderBreak ==
  ASSUME NEW G, NEW I, NEW N, NEW T, NEW C, NEW H,
         Ordered(G, I, N, T, C, H)
  PROVE  Ordered(G, I, {}, {}, C, H)
BY DEF Ordered, Below, All

\* No number is new after that.
LEMMA AllBreak ==
  ASSUME NEW G, NEW I, NEW N, NEW T, NEW C, NEW H
  PROVE  All(G, I, {}, {}, C, H) \subseteq All(G, I, N, T, C, H)
BY DEF All

\* The first number of the stream waits for being handled.
LEMMA OrderReceive ==
  ASSUME NEW G, NEW I, NEW N, NEW T, NEW C, NEW H, NEW X,
         Ordered(G, I, X \cup N, T, C, H), Below(X, N)
  PROVE  Ordered(G, I \cup X, N, T, C, H)
BY DEF Ordered, Below, All

\* The first number of the stream is dropped.
LEMMA OrderOverflow ==
  ASSUME NEW G, NEW I, NEW N, NEW T, NEW C, NEW H, NEW X,
         Ordered(G, I, X \cup N, T, C, H)
  PROVE  Ordered(G, I, N, T, C, H)
BY DEF Ordered, Below, All

\* Dropping it adds no number.
LEMMA AllOverflow ==
  ASSUME NEW G, NEW I, NEW N, NEW T, NEW C, NEW H, NEW X
  PROVE  All(G, I, N, T, C, H) \subseteq All(G, I, X \cup N, T, C, H)
BY DEF All

\* The first number that waits is handled.
LEMMA OrderHandle ==
  ASSUME NEW G, NEW I, NEW N, NEW T, NEW C, NEW H, NEW X,
         Ordered(G, X \cup I, N, T, C, H), Below(X, I)
  PROVE  Ordered(G \cup X, I, N, T, C, H)
BY DEF Ordered, Below, All

----------------------------------------------------------------------------
(* The invariant. *)

\* At first nothing was reported and there is no stream.
LEMMA BridgeInvInit == Init => BridgeInv
<1> SUFFICES ASSUME Init PROVE BridgeInv
  OBVIOUS
<1>1. /\ sent = [k \in Kinds |-> 0] /\ holding = [k \in Kinds |-> 0]
      /\ chan = <<>> /\ inbox = <<>> /\ active = None /\ link = None /\ lossy = FALSE
      /\ srv = [s \in Streams |-> NoServer] /\ net = [s \in Streams |-> <<>>]
      /\ got = [k \in Kinds |-> <<>>]
  BY DEF Init
<1>2. NoServer \in Servers /\ NoServer.pc = "none"
  BY DEF NoServer, Servers, Events, Kinds
<1>3. TypeInv
  <2>1. <<>> \in Seq(Events) /\ <<>> \in Seq(Nat) /\ 0 \in Nat
    OBVIOUS
  <2> QED BY <1>1, <1>2, <2>1 DEF TypeInv
<1>4. StreamInv
  BY <1>1, <1>2 DEF StreamInv
<1>5. QueuesSorted
  BY <1>1 DEF QueuesSorted, InOrder, Sorted
<1>6. ASSUME NEW k \in Kinds
      PROVE  /\ Handled(got[k]) = {} /\ Numbers(k, inbox) = {} /\ OnStream(k, link, net) = {}
             /\ Taken(k, link, srv) = {} /\ Numbers(k, chan) = {} /\ Held(holding[k]) = {}
             /\ sent[k] = 0
  BY <1>1, NumbersEmpty DEF Handled, OnStream, Taken, Held
<1>7. StagesOrdered
  BY <1>6 DEF StagesOrdered, Ordered, Below
<1>8. \A k \in Kinds : Everywhere(k) = {} /\ sent[k] = 0
  BY <1>6 DEF Everywhere, All
<1>9. NumbersGiven /\ \A k \in Kinds : Everywhere(k) = 1 .. sent[k]
  BY <1>8, SMTT(30) DEF NumbersGiven
<1>10. OneStream /\ AllThere
  BY <1>1, <1>2, <1>9 DEF OneStream, AllThere
<1> QED BY <1>3, <1>4, <1>5, <1>7, <1>9, <1>10 DEF BridgeInv

\* A step that changes nothing of the events on their way.
LEMMA QuietStep ==
  ASSUME BridgeInv, UNCHANGED <<sent, holding, server, net, main, lossy>>
  PROVE  BridgeInv' /\ Fewer
<1>1. UNCHANGED <<sent, holding, chan, srv, active, net, link, inbox, got, lossy>>
  BY DEF server, main
<1>2. TypeInv' /\ StreamInv'
  BY <1>1 DEF BridgeInv, TypeInv, StreamInv
<1>3. QueuesSorted'
  BY <1>1 DEF BridgeInv, QueuesSorted, InOrder, Sorted
<1>4. StagesOrdered' /\ NumbersGiven'
  BY <1>1 DEF BridgeInv, StagesOrdered, NumbersGiven, Everywhere
<1>5. OneStream' /\ AllThere'
  BY <1>1 DEF BridgeInv, OneStream, AllThere, Everywhere
<1>6. Fewer
  BY <1>1 DEF Fewer, Everywhere
<1> QED BY <1>2, <1>3, <1>4, <1>5, <1>6 DEF BridgeInv

\* A callback hands an event over: its number is the next one.
LEMMA ReportStep ==
  ASSUME BridgeInv, NEW a, Report(a) PROVE BridgeInv'
<1>1. PICK k \in Kinds :
      /\ holding[k] = 0
      /\ sent' = [sent EXCEPT ![k] = sent[k] + 1]
      /\ holding' = [holding EXCEPT ![k] = sent[k] + 1]
      /\ UNCHANGED <<chan, srv, active, net, link, inbox, got, lossy>>
  <2>1. KindOf(a) \in Kinds
    BY DEF KindOf, Kinds
  <2> QED BY <2>1 DEF Report, CanReport, server, main
<1>2. /\ TypeInv /\ StreamInv /\ QueuesSorted /\ StagesOrdered /\ NumbersGiven
      /\ OneStream /\ AllThere
  BY DEF BridgeInv
<1>3. /\ sent[k] \in Nat /\ sent'[k] = sent[k] + 1 /\ holding'[k] = sent[k] + 1
      /\ \A m \in Kinds : m # k => sent'[m] = sent[m] /\ holding'[m] = holding[m]
      /\ TypeInv'
  BY <1>1, <1>2 DEF TypeInv
<1>4. StreamInv' /\ QueuesSorted'
  BY <1>1, <1>2 DEF StreamInv, QueuesSorted, InOrder, Sorted
<1>5. Held(holding[k]) = {} /\ Held(holding'[k]) = {sent[k] + 1}
  BY <1>1, <1>3 DEF Held
<1>6. Everywhere(k)' = Everywhere(k) \cup {sent[k] + 1} /\ Everywhere(k) \subseteq 1 .. sent[k]
  BY <1>1, <1>2, <1>5 DEF Everywhere, All, NumbersGiven
<1>7. \A m \in Kinds : m # k => Everywhere(m)' = Everywhere(m)
  BY <1>1, <1>3 DEF Everywhere
<1>8. StagesOrdered'
  <2>1. ASSUME NEW m \in Kinds
        PROVE  Ordered(Handled(got[m]), Numbers(m, inbox), OnStream(m, link, net),
                       Taken(m, link, srv), Numbers(m, chan), Held(holding'[m]))
    <3>1. Ordered(Handled(got[m]), Numbers(m, inbox), OnStream(m, link, net),
                  Taken(m, link, srv), Numbers(m, chan), Held(holding[m]))
      BY <1>2 DEF StagesOrdered
    <3>2. CASE m = k
      <4>1. Below(All(Handled(got[m]), Numbers(m, inbox), OnStream(m, link, net),
                      Taken(m, link, srv), Numbers(m, chan), {}), {sent[k] + 1})
        BY <1>3, <1>6, <3>2 DEF Below, Everywhere, All
      <4> QED BY <1>5, <3>1, <3>2, <4>1, OrderReport
    <3> QED BY <1>3, <3>1, <3>2
  <2> QED BY <1>1, <2>1 DEF StagesOrdered
<1>9. NumbersGiven'
  <2>1. ASSUME NEW m \in Kinds PROVE Everywhere(m)' \subseteq 1 .. sent'[m]
    <3>1. CASE m = k
      BY <1>3, <1>6, <3>1
    <3>2. CASE m # k
      BY <1>2, <1>3, <1>7, <3>2 DEF NumbersGiven
    <3> QED BY <3>1, <3>2
  <2> QED BY <2>1 DEF NumbersGiven
<1>10. AllThere'
  <2>1. ASSUME ~lossy, NEW m \in Kinds PROVE Everywhere(m)' = 1 .. sent'[m]
    <3>1. Everywhere(m) = 1 .. sent[m]
      BY <1>2, <2>1 DEF AllThere
    <3>2. 1 .. (sent[k] + 1) = (1 .. sent[k]) \cup {sent[k] + 1}
      BY <1>3
    <3>3. CASE m = k
      BY <1>3, <1>6, <3>1, <3>2, <3>3
    <3> QED BY <1>3, <1>7, <3>1, <3>3
  <2> QED BY <1>1, <2>1 DEF AllThere
<1> QED BY <1>1, <1>2, <1>3, <1>4, <1>8, <1>9, <1>10 DEF BridgeInv, OneStream

\* What the numbers in the stages require of a step that reports nothing.
LEMMA NumbersStep ==
  ASSUME BridgeInv, sent' = sent, lossy \in BOOLEAN, lossy' \in BOOLEAN,
         \A m \in Kinds : Everywhere(m)' \subseteq Everywhere(m),
         lossy' \/ \A m \in Kinds : Everywhere(m)' = Everywhere(m),
         lossy => lossy'
  PROVE  NumbersGiven' /\ AllThere'
<1>1. NumbersGiven'
  BY DEF BridgeInv, NumbersGiven
<1>2. ASSUME ~lossy' PROVE \A m \in Kinds : Everywhere(m)' = 1 .. sent'[m]
  BY <1>2 DEF BridgeInv, AllThere
<1> QED BY <1>1, <1>2 DEF AllThere

\* broadcastEvent queues the event that was handed over.
LEMMA BroadcastStep ==
  ASSUME BridgeInv, NEW k \in Kinds, Broadcast(k) PROVE BridgeInv' /\ Fewer
<1> DEFINE e == [kind |-> k, n |-> holding[k]]
<1>1. /\ holding[k] # 0 /\ chan' = Append(chan, e) /\ holding' = [holding EXCEPT ![k] = 0]
      /\ UNCHANGED <<sent, srv, active, net, link, inbox, got, lossy>>
  BY DEF Broadcast, CanBroadcast, main
<1>2. /\ TypeInv /\ StreamInv /\ QueuesSorted /\ StagesOrdered /\ NumbersGiven
      /\ OneStream /\ AllThere
  BY DEF BridgeInv
<1>3. e \in Events /\ e.kind = k /\ e.n = holding[k] /\ chan \in Seq(Events)
  BY <1>2 DEF TypeInv, Events
<1> HIDE DEF e
<1>4. /\ holding'[k] = 0 /\ \A m \in Kinds : m # k => holding'[m] = holding[m]
      /\ TypeInv'
  BY <1>1, <1>2, <1>3 DEF TypeInv
<1>5. Held(holding[k]) = {holding[k]} /\ Held(holding'[k]) = {}
  BY <1>1, <1>4 DEF Held
<1>6. \A m : Numbers(m, chan') = Numbers(m, chan) \cup One(m, e)
  BY <1>1, <1>3, NumbersAppend
<1>7. ASSUME NEW m \in Kinds
      PROVE  /\ Numbers(m, chan') = IF m = k THEN Numbers(m, chan) \cup Held(holding[m])
                                    ELSE Numbers(m, chan)
             /\ Held(holding'[m]) = IF m = k THEN {} ELSE Held(holding[m])
  BY <1>3, <1>4, <1>5, <1>6 DEF One
<1>8. QueuesSorted'
  <2>1. Below(Numbers(k, chan), {holding[k]})
    BY <1>2, <1>5 DEF StagesOrdered, Ordered
  <2>2. Sorted(chan')
    BY <1>1, <1>2, <1>3, <2>1, SortedAppend DEF QueuesSorted
  <2> QED BY <1>1, <1>2, <2>2 DEF QueuesSorted, InOrder
<1>9. ASSUME NEW m \in Kinds
      PROVE  Ordered(Handled(got[m]), Numbers(m, inbox), OnStream(m, link, net),
                     Taken(m, link, srv), Numbers(m, chan'), Held(holding'[m]))
  <2>0. Ordered(Handled(got[m]), Numbers(m, inbox), OnStream(m, link, net),
                Taken(m, link, srv), Numbers(m, chan), Held(holding[m]))
    BY <1>2 DEF StagesOrdered
  <2> QED BY <1>7, <2>0, OrderBroadcast
<1>10. \A m \in Kinds : Everywhere(m)' = Everywhere(m)
  BY <1>1, <1>7 DEF Everywhere, All
<1>11. StagesOrdered'
  BY <1>1, <1>9 DEF StagesOrdered
<1>12. NumbersGiven' /\ AllThere'
  BY <1>1, <1>2, <1>10, NumbersStep DEF TypeInv
<1>13. Fewer
  BY <1>10 DEF Fewer
<1> QED BY <1>1, <1>2, <1>4, <1>8, <1>11, <1>12, <1>13 DEF BridgeInv, StreamInv, OneStream

\* A step of the server that leaves the channel and the events it took.
LEMMA ServerQuiet ==
  ASSUME BridgeInv, UNCHANGED <<sent, holding, chan, net, link, inbox, got, lossy>>,
         \A m \in Kinds : Taken(m, link, srv') = Taken(m, link, srv)
  PROVE  QueuesSorted' /\ StagesOrdered' /\ NumbersGiven' /\ AllThere' /\ Fewer
<1>1. QueuesSorted'
  BY DEF BridgeInv, QueuesSorted, InOrder, Sorted
<1>2. StagesOrdered'
  BY DEF BridgeInv, StagesOrdered
<1>3. \A m \in Kinds : Everywhere(m)' = Everywhere(m)
  BY DEF Everywhere
<1>4. NumbersGiven' /\ AllThere'
  BY <1>3, NumbersStep DEF BridgeInv, TypeInv
<1>5. Fewer
  BY <1>3 DEF Fewer
<1> QED BY <1>1, <1>2, <1>4, <1>5

\* A stream begins: it takes over, and the one before it is cancelled.
LEMMA ServerBeginStep ==
  ASSUME BridgeInv, NEW s \in Streams, ServerBegin(s) PROVE BridgeInv' /\ Fewer
<1>1. /\ srv[s].pc = "new" /\ active' = s
      /\ srv' = [u \in Streams |->
                   IF u = s THEN [srv[u] EXCEPT !.pc = "loop"]
                   ELSE IF u = active THEN [srv[u] EXCEPT !.cancelled = TRUE] ELSE srv[u]]
      /\ UNCHANGED <<sent, holding, chan, net, link, inbox, got, lossy>>
  BY DEF ServerBegin, Server, main
<1>2. /\ TypeInv /\ StreamInv /\ QueuesSorted /\ StagesOrdered /\ NumbersGiven
      /\ OneStream /\ AllThere
  BY DEF BridgeInv
<1>3. \A u \in Streams : srv[u] \in Servers
  BY <1>2 DEF TypeInv
<1>4. ASSUME NEW u \in Streams
      PROVE  /\ srv'[u] \in Servers /\ srv'[u].event = srv[u].event
             /\ srv'[u].pc = IF u = s THEN "loop" ELSE srv[u].pc
             /\ srv[u].cancelled => srv'[u].cancelled
             /\ u = s \/ u # active => srv'[u].cancelled = srv[u].cancelled
  BY <1>1, <1>3 DEF Servers
<1>5. TypeInv'
  <2>1. srv' \in [Streams -> Servers]
    BY <1>1, <1>4
  <2> QED BY <1>1, <1>2, <2>1 DEF TypeInv
<1>6. StreamInv'
  BY <1>1, <1>2, <1>4 DEF StreamInv
<1>7. \A m \in Kinds : Taken(m, link, srv') = Taken(m, link, srv)
  BY <1>1, <1>2, <1>4 DEF Taken, TypeInv
<1>8. OneStream'
  <2> SUFFICES ASSUME ~lossy PROVE OneStream'
    BY <1>1 DEF OneStream
  <2>1. s = link
    BY <1>1, <1>2 DEF OneStream
  <2>2. link # None /\ active = None /\ \A u \in Streams : u # active
    BY <1>1, <1>2, <2>1, BridgeAssumption DEF OneStream
  <2>3. \A u \in Streams : u # link => srv'[u].pc = "none"
    BY <1>2, <1>4, <2>1 DEF OneStream
  <2>4. srv'[link].pc = "loop" /\ ~srv'[link].cancelled
    BY <1>2, <1>4, <2>1, <2>2 DEF OneStream
  <2> QED BY <1>1, <2>1, <2>2, <2>3, <2>4 DEF OneStream
<1> QED BY <1>1, <1>5, <1>6, <1>7, <1>8, ServerQuiet DEF BridgeInv

\* What the steps of one stream's goroutine do to the goroutines.
LEMMA OneServer ==
  ASSUME TypeInv, NEW s \in Streams, NEW v \in Servers, srv' = [srv EXCEPT ![s] = v]
  PROVE  /\ srv' \in [Streams -> Servers] /\ srv'[s] = v
         /\ \A u \in Streams : u # s => srv'[u] = srv[u]
BY DEF TypeInv

\* A stream takes an event: the client's stream, or one that is cancelled.
LEMMA ServerTakeStep ==
  ASSUME BridgeInv, NEW s \in Streams, ServerTake(s) PROVE BridgeInv' /\ Fewer
<1> DEFINE v == [srv[s] EXCEPT !.pc = "check", !.event = Head(chan)]
<1>2. /\ TypeInv /\ StreamInv /\ QueuesSorted /\ StagesOrdered /\ NumbersGiven
      /\ OneStream /\ AllThere
  BY DEF BridgeInv
<1>1. /\ srv[s].pc = "loop" /\ chan # <<>> /\ chan' = Tail(chan)
      /\ srv' = [srv EXCEPT ![s] = v]
      /\ UNCHANGED <<sent, holding, active, net, link, inbox, got, lossy>>
  <2>1. srv[s] \in Servers
    BY <1>2 DEF TypeInv
  <2> QED BY <1>2, <2>1 DEF ServerTake, CanTake, Server, main, TypeInv, Servers
<1>3. /\ Head(chan) \in Events /\ chan' \in Seq(Events) /\ Sorted(chan')
      /\ \A m : /\ Numbers(m, chan) = One(m, Head(chan)) \cup Numbers(m, chan')
                /\ Below(One(m, Head(chan)), Numbers(m, chan'))
  BY <1>1, <1>2, HeadTail DEF TypeInv, QueuesSorted
<1>4. /\ v \in Servers /\ v.pc = "check" /\ v.event = Head(chan)
      /\ v.cancelled = srv[s].cancelled
  BY <1>2, <1>3 DEF TypeInv, Servers
<1> HIDE DEF v
<1>5. /\ srv' \in [Streams -> Servers] /\ srv'[s] = v
      /\ \A u \in Streams : u # s => srv'[u] = srv[u]
  BY <1>1, <1>2, <1>4, OneServer
<1>6. TypeInv'
  BY <1>1, <1>2, <1>3, <1>5 DEF TypeInv
<1>7. StreamInv'
  BY <1>1, <1>2, <1>4, <1>5 DEF StreamInv
<1>8. QueuesSorted'
  BY <1>1, <1>2, <1>3 DEF QueuesSorted, InOrder, Sorted
<1>9. ASSUME NEW m \in Kinds
      PROVE  /\ s = link => /\ Taken(m, link, srv) = {}
                            /\ Taken(m, link, srv') = One(m, Head(chan))
             /\ s # link => Taken(m, link, srv') = Taken(m, link, srv)
  <2>1. link \in Streams \cup {None} /\ s # None
    BY <1>2, BridgeAssumption DEF TypeInv
  <2> QED BY <1>1, <1>4, <1>5, <2>1 DEF Taken
<1>10. ASSUME NEW m \in Kinds
      PROVE  Ordered(Handled(got[m]), Numbers(m, inbox), OnStream(m, link, net),
                     Taken(m, link, srv'), Numbers(m, chan'), Held(holding[m]))
  <2>0. Ordered(Handled(got[m]), Numbers(m, inbox), OnStream(m, link, net),
                Taken(m, link, srv), Numbers(m, chan), Held(holding[m]))
    BY <1>2 DEF StagesOrdered
  <2>1. Numbers(m, chan) = One(m, Head(chan)) \cup Numbers(m, chan')
    BY <1>3
  <2>2. CASE s = link
    BY <1>3, <1>9, <2>0, <2>1, <2>2, OrderTake
  <2>3. CASE s # link
    BY <1>9, <2>0, <2>1, <2>3, OrderTakeOther
  <2> QED BY <2>2, <2>3
<1>11. StagesOrdered'
  BY <1>1, <1>10 DEF StagesOrdered
<1>12. ~lossy => s = link
  BY <1>1, <1>2 DEF OneStream
<1>13. NumbersGiven' /\ AllThere' /\ Fewer
  <2>1. ASSUME NEW m \in Kinds
        PROVE  /\ Everywhere(m)' \subseteq Everywhere(m)
               /\ s = link => Everywhere(m)' = Everywhere(m)
    <3>1. Numbers(m, chan) = One(m, Head(chan)) \cup Numbers(m, chan')
      BY <1>3
    <3>2. CASE s = link
      <4>1. Everywhere(m)' =
              All(Handled(got[m]), Numbers(m, inbox), OnStream(m, link, net),
                  One(m, Head(chan)), Numbers(m, chan'), Held(holding[m]))
        BY <1>1, <1>9, <3>2 DEF Everywhere
      <4>2. Everywhere(m) =
              All(Handled(got[m]), Numbers(m, inbox), OnStream(m, link, net),
                  {}, One(m, Head(chan)) \cup Numbers(m, chan'), Held(holding[m]))
        BY <1>9, <3>1, <3>2 DEF Everywhere
      <4> QED BY <4>1, <4>2, AllTake
    <3>3. CASE s # link
      BY <1>1, <1>9, <3>1, <3>3 DEF Everywhere, All
    <3> QED BY <3>2, <3>3
  <2> QED BY <1>1, <1>2, <1>12, <2>1, NumbersStep DEF TypeInv, Fewer
<1>14. OneStream'
  <2> SUFFICES ASSUME ~lossy PROVE OneStream'
    BY <1>1 DEF OneStream
  <2>1. s = link /\ link # None /\ active = link /\ ~v.cancelled
    BY <1>1, <1>2, <1>4, <1>12, BridgeAssumption DEF OneStream
  <2>2. \A u \in Streams : u # link => srv'[u].pc = "none"
    BY <1>2, <1>5, <2>1 DEF OneStream
  <2> QED BY <1>1, <1>4, <1>5, <2>1, <2>2 DEF OneStream
<1> QED BY <1>6, <1>7, <1>8, <1>11, <1>13, <1>14 DEF BridgeInv

\* A stream ends: what it had taken is dropped, which happens to a stream that
\* was replaced or whose client is gone.
LEMMA ServerEndsStep ==
  ASSUME BridgeInv, NEW s \in Streams, ServerEnds(s), srv[s].pc # "new", srv[s].pc # "none",
         srv[s].cancelled \/ active # s,
         UNCHANGED <<sent, holding, chan, net, link, inbox, got, lossy>>
  PROVE  BridgeInv' /\ Fewer
<1> DEFINE v == [NoServer EXCEPT !.pc = "done"]
<1>2. /\ TypeInv /\ StreamInv /\ QueuesSorted /\ StagesOrdered /\ NumbersGiven
      /\ OneStream /\ AllThere
  BY DEF BridgeInv
<1>1. /\ srv' = [srv EXCEPT ![s] = v] /\ active' = IF active = s THEN None ELSE active
  BY DEF ServerEnds
<1>3. v \in Servers /\ v.pc = "done"
  BY DEF NoServer, Servers, Events, Kinds
<1> HIDE DEF v
<1>4. /\ srv' \in [Streams -> Servers] /\ srv'[s] = v
      /\ \A u \in Streams : u # s => srv'[u] = srv[u]
  BY <1>1, <1>2, <1>3, OneServer
<1>5. TypeInv'
  BY <1>1, <1>2, <1>4 DEF TypeInv
<1>6. StreamInv'
  BY <1>2, <1>3, <1>4 DEF StreamInv
<1>7. QueuesSorted'
  BY <1>2 DEF QueuesSorted, InOrder, Sorted
<1>8. lossy
  BY <1>2, BridgeAssumption DEF OneStream
<1>9. ASSUME NEW m \in Kinds
      PROVE  Taken(m, link, srv') = {} \/ Taken(m, link, srv') = Taken(m, link, srv)
  <2>1. link \in Streams \cup {None}
    BY <1>2 DEF TypeInv
  <2> QED BY <1>3, <1>4, <2>1 DEF Taken
<1>10. ASSUME NEW m \in Kinds
      PROVE  Ordered(Handled(got[m]), Numbers(m, inbox), OnStream(m, link, net),
                     Taken(m, link, srv'), Numbers(m, chan), Held(holding[m]))
  <2>0. Ordered(Handled(got[m]), Numbers(m, inbox), OnStream(m, link, net),
                Taken(m, link, srv), Numbers(m, chan), Held(holding[m]))
    BY <1>2 DEF StagesOrdered
  <2> QED BY <1>9, <2>0, OrderCheck
<1>11. StagesOrdered'
  BY <1>10 DEF StagesOrdered
<1>12. NumbersGiven' /\ AllThere' /\ Fewer
  <2>1. \A m \in Kinds : Everywhere(m)' \subseteq Everywhere(m)
    BY <1>9 DEF Everywhere, All
  <2> QED BY <1>2, <1>8, <2>1, NumbersStep DEF TypeInv, Fewer
<1> QED BY <1>5, <1>6, <1>7, <1>8, <1>11, <1>12 DEF BridgeInv, OneStream

\* The cancellation is noticed.
LEMMA ServerCancelledStep ==
  ASSUME BridgeInv, NEW s \in Streams, ServerCancelled(s) PROVE BridgeInv' /\ Fewer
BY ServerEndsStep DEF ServerCancelled, Server, main

\* isActive: the event is to be sent, or dropped with the stream.
LEMMA ServerCheckStep ==
  ASSUME BridgeInv, NEW s \in Streams, ServerCheck(s) PROVE BridgeInv' /\ Fewer
<1> DEFINE v == [srv[s] EXCEPT !.pc = "send"]
<1>2. /\ TypeInv /\ StreamInv /\ QueuesSorted /\ StagesOrdered /\ NumbersGiven
      /\ OneStream /\ AllThere
  BY DEF BridgeInv
<1>1. /\ srv[s].pc = "check"
      /\ UNCHANGED <<sent, holding, chan, net, link, inbox, got, lossy>>
  BY DEF ServerCheck, Server, main
<1>3. CASE active # s
  BY <1>1, <1>3, ServerEndsStep DEF ServerCheck
<1>4. CASE active = s
  <2>1. srv' = [srv EXCEPT ![s] = v] /\ active' = active
    BY <1>2, <1>4 DEF ServerCheck, TypeInv
  <2>2. /\ v \in Servers /\ v.pc = "send" /\ v.event = srv[s].event
        /\ v.cancelled = srv[s].cancelled
    BY <1>2 DEF TypeInv, Servers
  <2> HIDE DEF v
  <2>3. /\ srv' \in [Streams -> Servers] /\ srv'[s] = v
        /\ \A u \in Streams : u # s => srv'[u] = srv[u]
    BY <1>2, <2>1, <2>2, OneServer
  <2>4. TypeInv'
    BY <1>1, <1>2, <2>1, <2>3 DEF TypeInv
  <2>5. StreamInv'
    BY <1>1, <1>2, <2>2, <2>3 DEF StreamInv
  <2>6. \A m \in Kinds : Taken(m, link, srv') = Taken(m, link, srv)
    <3>1. link \in Streams \cup {None}
      BY <1>2 DEF TypeInv
    <3> QED BY <1>1, <2>2, <2>3, <3>1 DEF Taken
  <2>7. OneStream'
    <3> SUFFICES ASSUME ~lossy PROVE OneStream'
      BY <1>1 DEF OneStream
    <3>1. s = link /\ link # None /\ active = link /\ ~v.cancelled
      BY <1>1, <1>2, <2>2, BridgeAssumption DEF OneStream
    <3>2. \A u \in Streams : u # link => srv'[u].pc = "none"
      BY <1>2, <2>3, <3>1 DEF OneStream
    <3> QED BY <1>1, <2>1, <2>2, <2>3, <3>1, <3>2 DEF OneStream
  <2> QED BY <1>1, <2>4, <2>5, <2>6, <2>7, ServerQuiet DEF BridgeInv
<1> QED BY <1>3, <1>4

\* stream.Send: only the client's stream still sends.
LEMMA ServerSendStep ==
  ASSUME BridgeInv, NEW s \in Streams, ServerSend(s) PROVE BridgeInv' /\ Fewer
<1> DEFINE v == [NoServer EXCEPT !.pc = "loop"]
<1>2. /\ TypeInv /\ StreamInv /\ QueuesSorted /\ StagesOrdered /\ NumbersGiven
      /\ OneStream /\ AllThere
  BY DEF BridgeInv
<1>1. /\ srv[s].pc = "send"
      /\ UNCHANGED <<sent, holding, chan, link, inbox, got, lossy>>
  BY DEF ServerSend, CanSend, Server, main
<1>3. CASE srv[s].cancelled
  BY <1>1, <1>3, ServerEndsStep DEF ServerSend, CanSend
<1>4. ASSUME ~srv[s].cancelled PROVE BridgeInv' /\ Fewer
  <2>1. /\ net' = [net EXCEPT ![s] = Append(net[s], srv[s].event)]
        /\ srv' = [srv EXCEPT ![s] = v] /\ active' = active
    BY <1>4 DEF ServerSend, CanSend
  <2>2. v \in Servers /\ v.pc = "loop" /\ ~v.cancelled
    BY DEF NoServer, Servers, Events, Kinds
  <2> HIDE DEF v
  <2>3. /\ srv' \in [Streams -> Servers] /\ srv'[s] = v
        /\ \A u \in Streams : u # s => srv'[u] = srv[u]
    BY <1>2, <2>1, <2>2, OneServer
  <2>4. s = link /\ link # None
    BY <1>1, <1>2, <1>4, BridgeAssumption DEF StreamInv
  <2>5. /\ srv[s].event \in Events /\ net[s] \in Seq(Events)
        /\ Append(net[s], srv[s].event) \in Seq(Events)
    BY <1>2 DEF TypeInv, Servers
  <2>6. /\ net' \in [Streams -> Seq(Events)] /\ net'[s] = Append(net[s], srv[s].event)
        /\ \A u \in Streams : u # s => net'[u] = net[u]
    BY <1>2, <2>1, <2>5 DEF TypeInv
  <2>7. TypeInv'
    BY <1>1, <1>2, <2>1, <2>3, <2>6 DEF TypeInv
  <2>8. StreamInv'
    BY <1>1, <1>2, <2>3, <2>4, <2>6 DEF StreamInv
  <2>9. ASSUME NEW m \in Kinds
        PROVE  /\ Taken(m, link, srv) = One(m, srv[s].event) /\ Taken(m, link, srv') = {}
               /\ OnStream(m, link, net) = Numbers(m, net[s])
               /\ OnStream(m, link, net') = OnStream(m, link, net) \cup Taken(m, link, srv)
    <3>1. Taken(m, link, srv) = One(m, srv[s].event) /\ Taken(m, link, srv') = {}
      BY <1>1, <2>2, <2>3, <2>4 DEF Taken
    <3>2. Numbers(m, net'[s]) = Numbers(m, net[s]) \cup One(m, srv[s].event)
      BY <2>5, <2>6, NumbersAppend
    <3> QED BY <2>4, <3>1, <3>2 DEF OnStream
  <2>10. QueuesSorted'
    <3>1. srv[s].event.kind \in Kinds
      BY <2>5 DEF Events
    <3>2. Below(Numbers(srv[s].event.kind, net[s]), {srv[s].event.n})
      <4> DEFINE k == srv[s].event.kind
      <4>1. Below(OnStream(k, link, net), Taken(k, link, srv))
        BY <1>2, <3>1 DEF StagesOrdered, Ordered, Below
      <4>2. One(k, srv[s].event) = {srv[s].event.n}
        BY DEF One
      <4> QED BY <2>9, <3>1, <4>1, <4>2
    <3>3. Sorted(net'[s])
      BY <1>2, <2>5, <2>6, <3>2, SortedAppend DEF QueuesSorted
    <3> QED BY <1>1, <1>2, <2>6, <3>3 DEF QueuesSorted, InOrder
  <2>11. ASSUME NEW m \in Kinds
         PROVE  Ordered(Handled(got[m]), Numbers(m, inbox), OnStream(m, link, net'),
                        Taken(m, link, srv'), Numbers(m, chan), Held(holding[m]))
    <3>1. Ordered(Handled(got[m]), Numbers(m, inbox), OnStream(m, link, net),
                  Taken(m, link, srv), Numbers(m, chan), Held(holding[m]))
      BY <1>2 DEF StagesOrdered
    <3> QED BY <2>9, <3>1, OrderSend, SMTT(30)
  <2>12. StagesOrdered'
    BY <1>1, <2>11 DEF StagesOrdered
  <2>13. NumbersGiven' /\ AllThere' /\ Fewer
    <3>1. \A m \in Kinds : Everywhere(m)' = Everywhere(m)
      BY <1>1, <2>9 DEF Everywhere, All
    <3> QED BY <1>1, <1>2, <3>1, NumbersStep DEF TypeInv, Fewer
  <2>14. OneStream'
    <3> SUFFICES ASSUME ~lossy PROVE OneStream'
      BY <1>1 DEF OneStream
    <3>1. active = link
      BY <1>1, <1>2, <2>4 DEF OneStream
    <3>2. \A u \in Streams : u # link => srv'[u].pc = "none"
      BY <1>2, <2>3, <2>4 DEF OneStream
    <3> QED BY <1>1, <2>1, <2>2, <2>3, <2>4, <3>1, <3>2 DEF OneStream
  <2> QED BY <2>7, <2>8, <2>10, <2>12, <2>13, <2>14 DEF BridgeInv
<1> QED BY <1>3, <1>4

\* The client calls StreamEvents: the stream is empty at first.
LEMMA ConnectStep ==
  ASSUME BridgeInv, Connect PROVE BridgeInv' /\ Fewer
<1> DEFINE v == [NoServer EXCEPT !.pc = "new"]
<1>2. /\ TypeInv /\ StreamInv /\ QueuesSorted /\ StagesOrdered /\ NumbersGiven
      /\ OneStream /\ AllThere
  BY DEF BridgeInv
<1>1. /\ link = None
      /\ UNCHANGED <<sent, holding, chan, active, net, inbox, got, lossy>>
  BY DEF Connect, CanConnect, Free
<1>3. PICK s \in Streams : link' = s /\ srv' = [srv EXCEPT ![s] = v]
  BY DEF Connect, CanConnect, Free
<1>4. v \in Servers /\ v.pc = "new" /\ ~v.cancelled
  BY DEF NoServer, Servers, Events, Kinds
<1> HIDE DEF v
<1>5. /\ srv' \in [Streams -> Servers] /\ srv'[s] = v
      /\ \A u \in Streams : u # s => srv'[u] = srv[u]
  BY <1>2, <1>3, <1>4, OneServer
<1>6. s # None /\ net[s] = <<>>
  BY <1>1, <1>2, BridgeAssumption DEF StreamInv
<1>7. TypeInv'
  BY <1>1, <1>2, <1>3, <1>5 DEF TypeInv
<1>8. StreamInv'
  BY <1>1, <1>2, <1>3, <1>5, BridgeAssumption DEF StreamInv
<1>9. QueuesSorted'
  BY <1>1, <1>2 DEF QueuesSorted, InOrder, Sorted
<1>10. \A m \in Kinds : /\ OnStream(m, link', net) = OnStream(m, link, net)
                        /\ Taken(m, link', srv') = Taken(m, link, srv)
  BY <1>1, <1>3, <1>4, <1>5, <1>6, NumbersEmpty DEF OnStream, Taken
<1>11. StagesOrdered'
  BY <1>1, <1>2, <1>10 DEF StagesOrdered
<1>12. NumbersGiven' /\ AllThere' /\ Fewer
  <2>1. \A m \in Kinds : Everywhere(m)' = Everywhere(m)
    BY <1>1, <1>10 DEF Everywhere
  <2> QED BY <1>1, <1>2, <2>1, NumbersStep DEF TypeInv, Fewer
<1>13. OneStream'
  <2> SUFFICES ASSUME ~lossy PROVE OneStream'
    BY <1>1 DEF OneStream
  <2>1. active = None /\ \A u \in Streams : srv[u].pc = "none"
    BY <1>1, <1>2, BridgeAssumption DEF OneStream
  <2> QED BY <1>1, <1>3, <1>4, <1>5, <1>6, <2>1 DEF OneStream
<1> QED BY <1>7, <1>8, <1>9, <1>11, <1>12, <1>13 DEF BridgeInv

\* The stream fails, and what was on it is lost.
LEMMA BreakStep ==
  ASSUME BridgeInv, Break PROVE BridgeInv' /\ Fewer
<1>2. /\ TypeInv /\ StreamInv /\ QueuesSorted /\ StagesOrdered /\ NumbersGiven
      /\ OneStream /\ AllThere
  BY DEF BridgeInv
<1>1. /\ link # None /\ link' = None /\ lossy' = TRUE
      /\ srv' = [srv EXCEPT ![link].cancelled = ~Server(link, "done")]
      /\ net' = [net EXCEPT ![link] = <<>>]
      /\ UNCHANGED <<sent, holding, chan, active, inbox, got>>
  BY DEF Break
<1>3. link \in Streams
  BY <1>1, <1>2 DEF TypeInv
<1>4. /\ srv' \in [Streams -> Servers]
      /\ srv'[link].cancelled = (srv[link].pc # "done") /\ srv'[link].pc = srv[link].pc
      /\ \A u \in Streams : u # link => srv'[u] = srv[u]
  <2> DEFINE v == [srv[link] EXCEPT !.cancelled = ~Server(link, "done")]
  <2>1. /\ v \in Servers /\ v.cancelled = (srv[link].pc # "done") /\ v.pc = srv[link].pc
    BY <1>2, <1>3 DEF TypeInv, Servers, Server
  <2>2. srv' = [srv EXCEPT ![link] = v]
    BY <1>1, <1>2, <1>3 DEF TypeInv
  <2> HIDE DEF v
  <2> QED BY <1>2, <1>3, <2>1, <2>2, OneServer
<1>5. /\ net' \in [Streams -> Seq(Events)] /\ net'[link] = <<>>
      /\ \A u \in Streams : u # link => net'[u] = net[u]
  <2>1. <<>> \in Seq(Events)
    OBVIOUS
  <2> QED BY <1>1, <1>2, <1>3, <2>1 DEF TypeInv
<1>6. TypeInv'
  BY <1>1, <1>2, <1>4, <1>5 DEF TypeInv
<1>7. StreamInv'
  <2> SUFFICES ASSUME NEW u \in Streams
               PROVE  net'[u] = <<>> /\ (srv'[u].pc \in {"none", "done"} \/ srv'[u].cancelled)
    BY DEF StreamInv
  <2>1. CASE u = link
    BY <1>4, <1>5, <2>1
  <2>2. CASE u # link
    BY <1>2, <1>4, <1>5, <2>2 DEF StreamInv
  <2> QED BY <2>1, <2>2
<1>8. QueuesSorted'
  <2>1. \A u \in Streams : Sorted(net'[u])
    BY <1>2, <1>5, SortedEmpty DEF QueuesSorted
  <2> QED BY <1>1, <1>2, <2>1 DEF QueuesSorted, InOrder
<1>9. \A m \in Kinds : OnStream(m, link', net') = {} /\ Taken(m, link', srv') = {}
  BY <1>1 DEF OnStream, Taken
<1>10. ASSUME NEW m \in Kinds
      PROVE  Ordered(Handled(got[m]), Numbers(m, inbox), OnStream(m, link', net'),
                     Taken(m, link', srv'), Numbers(m, chan), Held(holding[m]))
  <2>0. Ordered(Handled(got[m]), Numbers(m, inbox), OnStream(m, link, net),
                Taken(m, link, srv), Numbers(m, chan), Held(holding[m]))
    BY <1>2 DEF StagesOrdered
  <2> QED BY <1>9, <2>0, OrderBreak
<1>11. StagesOrdered'
  BY <1>1, <1>10 DEF StagesOrdered
<1>12. NumbersGiven' /\ AllThere' /\ Fewer
  <2>1. \A m \in Kinds : Everywhere(m)' \subseteq Everywhere(m)
    BY <1>1, <1>9, AllBreak DEF Everywhere
  <2> QED BY <1>1, <1>2, <2>1, NumbersStep DEF TypeInv, Fewer
<1> QED BY <1>1, <1>6, <1>7, <1>8, <1>11, <1>12 DEF BridgeInv, OneStream

\* The client learns that the server has ended the stream.
LEMMA EndedStep ==
  ASSUME BridgeInv, Ended PROVE BridgeInv' /\ Fewer
<1>2. /\ TypeInv /\ StreamInv /\ QueuesSorted /\ StagesOrdered /\ NumbersGiven
      /\ OneStream /\ AllThere
  BY DEF BridgeInv
<1>1. /\ link # None /\ srv[link].pc = "done" /\ net[link] = <<>> /\ link' = None
      /\ UNCHANGED <<sent, holding, chan, srv, active, net, inbox, got, lossy>>
  BY DEF Ended, CanEnd, Server, server
<1>3. TypeInv'
  BY <1>1, <1>2 DEF TypeInv
<1>4. StreamInv'
  BY <1>1, <1>2 DEF StreamInv
<1>5. QueuesSorted'
  BY <1>1, <1>2 DEF QueuesSorted, InOrder, Sorted
<1>6. \A m \in Kinds : /\ OnStream(m, link', net) = OnStream(m, link, net)
                       /\ Taken(m, link', srv) = Taken(m, link, srv)
  BY <1>1, NumbersEmpty DEF OnStream, Taken
<1>7. StagesOrdered'
  BY <1>1, <1>2, <1>6 DEF StagesOrdered
<1>8. NumbersGiven' /\ AllThere' /\ Fewer
  <2>1. \A m \in Kinds : Everywhere(m)' = Everywhere(m)
    BY <1>1, <1>6 DEF Everywhere
  <2> QED BY <1>1, <1>2, <2>1, NumbersStep DEF TypeInv, Fewer
<1>9. OneStream'
  BY <1>1, <1>2 DEF OneStream
<1> QED BY <1>3, <1>4, <1>5, <1>7, <1>8, <1>9 DEF BridgeInv

\* handleEventStream passes the event on, or drops it when eventCh is full.
LEMMA ReceiveStep ==
  ASSUME BridgeInv, Receive PROVE BridgeInv' /\ Fewer
<1> DEFINE e == Head(net[link])
<1>2. /\ TypeInv /\ StreamInv /\ QueuesSorted /\ StagesOrdered /\ NumbersGiven
      /\ OneStream /\ AllThere
  BY DEF BridgeInv
<1>1. /\ link # None /\ net[link] # <<>> /\ net' = [net EXCEPT ![link] = Tail(net[link])]
      /\ \/ inbox' = Append(inbox, e) /\ lossy' = lossy
         \/ inbox' = inbox /\ lossy' = TRUE
      /\ UNCHANGED <<sent, holding, chan, srv, active, link, got>>
  BY DEF Receive, CanReceive, server
<1>3. link \in Streams /\ net[link] \in Seq(Events) /\ Sorted(net[link])
  BY <1>1, <1>2 DEF TypeInv, QueuesSorted
<1>4. /\ e \in Events /\ Tail(net[link]) \in Seq(Events) /\ Sorted(Tail(net[link]))
      /\ \A m : /\ Numbers(m, net[link]) = One(m, e) \cup Numbers(m, Tail(net[link]))
                /\ Below(One(m, e), Numbers(m, Tail(net[link])))
  BY <1>1, <1>3, HeadTail
<1> HIDE DEF e
<1>5. /\ net' \in [Streams -> Seq(Events)] /\ net'[link] = Tail(net[link])
      /\ \A u \in Streams : u # link => net'[u] = net[u]
  BY <1>1, <1>2, <1>3, <1>4 DEF TypeInv
<1>6. /\ TypeInv'
  <2>1. inbox' \in Seq(Events)
    <3>1. inbox \in Seq(Events)
      BY <1>2 DEF TypeInv
    <3>2. Append(inbox, e) \in Seq(Events)
      BY <1>4, <3>1
    <3> QED BY <1>1, <3>1, <3>2
  <2>2. lossy' \in BOOLEAN
    BY <1>1, <1>2 DEF TypeInv
  <2> QED BY <1>1, <1>2, <1>5, <2>1, <2>2 DEF TypeInv
<1>7. StreamInv' /\ OneStream'
  BY <1>1, <1>2, <1>5 DEF StreamInv, OneStream
<1>8. ASSUME NEW m \in Kinds
      PROVE  /\ OnStream(m, link, net) = One(m, e) \cup OnStream(m, link, net')
             /\ Below(One(m, e), OnStream(m, link, net'))
  BY <1>1, <1>4, <1>5 DEF OnStream
<1>9. \A m : inbox' # inbox => Numbers(m, inbox') = Numbers(m, inbox) \cup One(m, e)
  BY <1>1, <1>2, <1>4, NumbersAppend DEF TypeInv
<1>10. QueuesSorted'
  <2>1. \A u \in Streams : Sorted(net'[u])
    BY <1>2, <1>4, <1>5 DEF QueuesSorted
  <2>2. Below(Numbers(e.kind, inbox), {e.n})
    <3>1. e.kind \in Kinds
      BY <1>4 DEF Events
    <3>2. Below(Numbers(e.kind, inbox), OnStream(e.kind, link, net))
      BY <1>2, <3>1 DEF StagesOrdered, Ordered, Below
    <3>3. e.n \in OnStream(e.kind, link, net)
      BY <1>8, <3>1 DEF One
    <3> QED BY <3>2, <3>3 DEF Below
  <2>3. Sorted(inbox')
    BY <1>1, <1>2, <1>4, <2>2, SortedAppend DEF TypeInv, QueuesSorted
  <2> QED BY <1>1, <1>2, <2>1, <2>3 DEF QueuesSorted, InOrder
<1>11. ASSUME NEW m \in Kinds
      PROVE  Ordered(Handled(got[m]), Numbers(m, inbox'), OnStream(m, link, net'),
                     Taken(m, link, srv), Numbers(m, chan), Held(holding[m]))
  <2>0. Ordered(Handled(got[m]), Numbers(m, inbox), OnStream(m, link, net),
                Taken(m, link, srv), Numbers(m, chan), Held(holding[m]))
    BY <1>2 DEF StagesOrdered
  <2>1. CASE inbox' = inbox
    BY <1>8, <2>0, <2>1, OrderOverflow
  <2>2. CASE inbox' # inbox
    BY <1>8, <1>9, <2>0, <2>2, OrderReceive
  <2> QED BY <2>1, <2>2
<1>12. StagesOrdered'
  BY <1>1, <1>11 DEF StagesOrdered
<1>13. NumbersGiven' /\ AllThere' /\ Fewer
  <2>1. ASSUME NEW m \in Kinds
        PROVE  /\ Everywhere(m)' \subseteq Everywhere(m)
               /\ inbox' # inbox => Everywhere(m)' = Everywhere(m)
    <3>1. CASE inbox' = inbox
      BY <1>1, <1>8, <3>1, AllOverflow DEF Everywhere
    <3>2. CASE inbox' # inbox
      <4>1. Everywhere(m)' =
              All(Handled(got[m]), Numbers(m, inbox) \cup One(m, e), OnStream(m, link, net'),
                  Taken(m, link, srv), Numbers(m, chan), Held(holding[m]))
        BY <1>1, <1>9, <3>2 DEF Everywhere
      <4>2. Everywhere(m) =
              All(Handled(got[m]), Numbers(m, inbox), One(m, e) \cup OnStream(m, link, net'),
                  Taken(m, link, srv), Numbers(m, chan), Held(holding[m]))
        BY <1>8 DEF Everywhere
      <4> QED BY <4>1, <4>2 DEF All
    <3> QED BY <3>1, <3>2
  <2>2. inbox' = inbox => lossy'
    <3>1. Append(inbox, e) # inbox
      <4>1. inbox \in Seq(Events)
        BY <1>2 DEF TypeInv
      <4>2. Len(Append(inbox, e)) = Len(inbox) + 1 /\ Len(inbox) \in Nat
        BY <1>4, <4>1
      <4> QED BY <4>2
    <3> QED BY <1>1, <3>1
  <2>3. lossy => lossy'
    BY <1>1
  <2> QED BY <1>1, <1>2, <1>6, <2>1, <2>2, <2>3, NumbersStep DEF TypeInv, Fewer
<1> QED BY <1>6, <1>7, <1>10, <1>12, <1>13 DEF BridgeInv

\* handleEvent is called with the first event that waits.
LEMMA HandleStep ==
  ASSUME BridgeInv, Handle PROVE BridgeInv' /\ Fewer
<1> DEFINE e == Head(inbox)
<1>2. /\ TypeInv /\ StreamInv /\ QueuesSorted /\ StagesOrdered /\ NumbersGiven
      /\ OneStream /\ AllThere
  BY DEF BridgeInv
<1>1. /\ inbox # <<>> /\ inbox' = Tail(inbox)
      /\ got' = [got EXCEPT ![e.kind] = Append(got[e.kind], e.n)]
      /\ UNCHANGED <<sent, holding, chan, srv, active, net, link, lossy>>
  BY DEF Handle, server
<1>3. /\ e \in Events /\ inbox' \in Seq(Events) /\ Sorted(inbox')
      /\ \A m : /\ Numbers(m, inbox) = One(m, e) \cup Numbers(m, inbox')
                /\ Below(One(m, e), Numbers(m, inbox'))
  BY <1>1, <1>2, HeadTail DEF TypeInv, QueuesSorted
<1> HIDE DEF e
<1>4. PICK k \in Kinds : k = e.kind
  BY <1>3 DEF Events
<1>5. e.n \in Nat /\ got[k] \in Seq(Nat)
  BY <1>2, <1>3 DEF Events, TypeInv
<1>6. /\ got'[k] = Append(got[k], e.n) /\ \A m \in Kinds : m # k => got'[m] = got[m]
      /\ TypeInv'
  <2>1. Append(got[k], e.n) \in Seq(Nat)
    BY <1>5, HandledAppend
  <2> QED BY <1>1, <1>2, <1>3, <1>4, <2>1 DEF TypeInv
<1>7. StreamInv' /\ OneStream'
  BY <1>1, <1>2 DEF StreamInv, OneStream
<1>8. ASSUME NEW m \in Kinds PROVE Handled(got'[m]) = Handled(got[m]) \cup One(m, e)
  <2>1. CASE m = k
    <3>1. Handled(got'[k]) = Handled(got[k]) \cup {e.n}
      <4> DEFINE r == Append(got[k], e.n)
      <4>1. {r[i] : i \in DOMAIN r} = {got[k][i] : i \in DOMAIN got[k]} \cup {e.n}
        BY <1>5, HandledAppend
      <4>2. got'[k] = r
        BY <1>6
      <4> QED BY <4>1, <4>2 DEF Handled
    <3> QED BY <1>4, <2>1, <3>1 DEF One
  <2>2. CASE m # k
    BY <1>4, <1>6, <2>2 DEF One
  <2> QED BY <2>1, <2>2
<1>9. QueuesSorted'
  <2>1. \A i \in DOMAIN got[k] : got[k][i] < e.n
    <3>1. Below(Handled(got[k]), Numbers(k, inbox))
      BY <1>2 DEF StagesOrdered, Ordered, Below
    <3>2. e.n \in Numbers(k, inbox)
      BY <1>3, <1>4 DEF One
    <3> QED BY <3>1, <3>2 DEF Handled, Below
  <2>2. \A i, j \in DOMAIN got[k] : i < j => got[k][i] < got[k][j]
    BY <1>2 DEF QueuesSorted, InOrder
  <2>3. \A i, j \in DOMAIN got'[k] : i < j => got'[k][i] < got'[k][j]
    BY <1>5, <1>6, <2>1, <2>2, HandledAppend
  <2>4. InOrder'
    BY <1>2, <1>6, <2>3 DEF QueuesSorted, InOrder
  <2> QED BY <1>1, <1>2, <1>3, <2>4 DEF QueuesSorted, Sorted
<1>10. ASSUME NEW m \in Kinds
      PROVE  Ordered(Handled(got'[m]), Numbers(m, inbox'), OnStream(m, link, net),
                     Taken(m, link, srv), Numbers(m, chan), Held(holding[m]))
  <2>0. Ordered(Handled(got[m]), Numbers(m, inbox), OnStream(m, link, net),
                Taken(m, link, srv), Numbers(m, chan), Held(holding[m]))
    BY <1>2 DEF StagesOrdered
  <2> QED BY <1>3, <1>8, <2>0, OrderHandle
<1>11. StagesOrdered'
  BY <1>1, <1>10 DEF StagesOrdered
<1>12. NumbersGiven' /\ AllThere' /\ Fewer
  <2>1. ASSUME NEW m \in Kinds PROVE Everywhere(m)' = Everywhere(m)
    <3>1. Numbers(m, inbox) = One(m, e) \cup Numbers(m, inbox')
      BY <1>3
    <3>2. Everywhere(m)' =
            All(Handled(got[m]) \cup One(m, e), Numbers(m, inbox'), OnStream(m, link, net),
                Taken(m, link, srv), Numbers(m, chan), Held(holding[m]))
      BY <1>1, <1>8 DEF Everywhere
    <3>3. Everywhere(m) =
            All(Handled(got[m]), One(m, e) \cup Numbers(m, inbox'), OnStream(m, link, net),
                Taken(m, link, srv), Numbers(m, chan), Held(holding[m]))
      BY <3>1 DEF Everywhere
    <3> QED BY <3>2, <3>3 DEF All
  <2> QED BY <1>1, <1>2, <2>1, NumbersStep DEF TypeInv, Fewer
<1> QED BY <1>6, <1>7, <1>9, <1>11, <1>12 DEF BridgeInv

\* Every step keeps the invariant.
LEMMA BridgeInvStep == BridgeInv /\ [Next]_vars => BridgeInv'
<1> SUFFICES ASSUME BridgeInv, [Next]_vars PROVE BridgeInv'
  OBVIOUS
<1>1. CASE Calls
  BY <1>1, QuietStep DEF Calls, jetkvm_ui_tick, handle_indev_event, Call
<1>2. ASSUME NEW a, Enter(a) \/ Join(a) \/ StreamEnds PROVE BridgeInv'
  BY <1>2, QuietStep DEF Enter, Join, StreamEnds
<1>3. CASE \E a \in Actors : InC(a)
  BY <1>2, <1>3, ReportStep DEF InC
<1>4. CASE \E s \in Streams : ServerStep(s)
  BY <1>4, ServerBeginStep, ServerTakeStep, ServerCancelledStep, ServerCheckStep,
     ServerSendStep DEF ServerStep
<1>5. CASE Progress
  BY <1>2, <1>3, <1>4, <1>5, BroadcastStep, ConnectStep, EndedStep, ReceiveStep, HandleStep
     DEF Progress
<1>6. CASE UNCHANGED vars
  BY <1>6, QuietStep DEF vars, server, main
<1> QED BY <1>1, <1>5, <1>6, BreakStep DEF Next

\* The inductive invariant of the bridge holds.
LEMMA BridgeInvHolds == Spec => []BridgeInv
BY BridgeInvInit, BridgeInvStep, PTL DEF Spec

----------------------------------------------------------------------------
(* The theorems. *)

\* Without a break, what is on its way is what the stages after the first hold.
LEMMA InFlightStages ==
  ASSUME BridgeInv, ~lossy, NEW k \in Kinds
  PROVE  Handled(got[k]) \cup InFlight(k) = Everywhere(k)
<1>1. /\ \A s \in Streams : s # link => net[s] = <<>> /\ srv[s].pc = "none"
      /\ link \in Streams \cup {None} /\ None \notin Streams
  BY BridgeAssumption DEF BridgeInv, TypeInv, StreamInv, OneStream
<1> DEFINE onStreams == UNION {Numbers(k, net[s]) : s \in Streams}
           taken == {srv[s].event.n : s \in {u \in Streams : /\ srv[u].pc \in {"check", "send"}
                                                             /\ srv[u].event.kind = k}}
<1>2. onStreams = OnStream(k, link, net)
  BY <1>1, NumbersEmpty DEF OnStream
<1>3. taken = Taken(k, link, srv)
  BY <1>1 DEF Taken, One
<1>4. InFlight(k) = Numbers(k, chan) \cup Numbers(k, inbox) \cup Held(holding[k])
                      \cup onStreams \cup taken
  BY DEF InFlight, Held
<1> HIDE DEF onStreams, taken
<1> QED BY <1>2, <1>3, <1>4 DEF Everywhere, All

\* For any number of streams and any sizes of the channels, handleEvent is
\* called with the events of a kind in the order the C code reported them,
\* none twice, and as long as no stream breaks and eventCh is not full, every
\* event that was reported was handled or is on its way.
THEOREM EventsDelivered == Spec => []Delivered
<1>1. ASSUME BridgeInv PROVE Delivered
  <2>1. InOrder
    BY <1>1 DEF BridgeInv, QueuesSorted
  <2>2. NothingLost
    BY <1>1, InFlightStages DEF BridgeInv, AllThere, NothingLost, Handled
  <2> QED BY <2>1, <2>2 DEF Delivered
<1> QED BY <1>1, BridgeInvHolds, PTL

----------------------------------------------------------------------------
(* Nobody waits for ever. *)

Places == [pc : {"idle", "want", "report", "join", "loop"},
           op : {"none", "rpc", "touch", "ui", "start", "stop", "begin", "end"}]

\* Where an actor can be, and what it can be about there.
ActType ==
  /\ act \in [Actors -> Places] /\ lock \in Callers \cup {None} /\ flag \in BOOLEAN
  /\ act["tick"].pc \in {"idle", "want", "report"}
  /\ act["tick"].pc # "idle" => act["tick"].op \in {"rpc", "touch"}
  /\ act["handler"].pc \in {"idle", "want"}
  /\ act["handler"].pc # "idle" => act["handler"].op = "ui"
  /\ act["other"].pc \in {"idle", "want", "report", "join"}
  /\ act["other"].pc # "idle" => act["other"].op \in {"start", "stop"}
  /\ act["other"].pc = "join" => act["other"].op = "stop"
  /\ act["stream"].pc \in {"idle", "report", "loop"}
  /\ act["stream"].pc = "report" => act["stream"].op \in {"begin", "end"}

\* Who is inside the C code holds cgoLock, and the other way round; and who
\* stops the stream has told it so.
LockHeld ==
  /\ \A a \in Callers : act[a].pc \in {"report", "join"} <=> lock = a
  /\ lock = "other" /\ act["other"].op = "stop" => ~flag

LockInv == ActType /\ LockHeld

\* The actors, and that none of them is None.
LEMMA ActorsAre ==
  /\ Callers = {"tick", "handler", "other"} /\ "stream" \in Actors /\ Callers \subseteq Actors
  /\ \A a \in Actors : a \in Callers \/ a = "stream"
  /\ None \notin Callers /\ "stream" \notin Callers
BY BridgeAssumption DEF Callers, Actors

\* At first everybody is idle.
LEMMA LockInvInit == Init => LockInv
<1> SUFFICES ASSUME Init PROVE LockInv
  OBVIOUS
<1>1. act = [a \in Actors |-> Idle] /\ lock = None /\ flag = FALSE
  BY DEF Init
<1>2. \A a \in Actors : act[a] = Idle
  BY <1>1
<1>3. Idle \in Places /\ Idle.pc = "idle"
  BY DEF Idle, Places
<1>4. ActType
  BY <1>1, <1>2, <1>3, ActorsAre DEF ActType
<1> QED BY <1>1, <1>2, <1>3, <1>4, ActorsAre DEF LockInv, LockHeld

\* A step of one actor.
LEMMA OneActor ==
  ASSUME act \in [Actors -> Places], NEW a \in Actors, NEW p \in Places,
         act' = [act EXCEPT ![a] = p]
  PROVE  act' \in [Actors -> Places] /\ act'[a] = p /\ \A b \in Actors : b # a => act'[b] = act[b]
OBVIOUS

\* A call begins.
LEMMA LockCall ==
  ASSUME LockInv, Calls \/ Handle PROVE LockInv'
<1>1. UNCHANGED <<lock, flag>>
  BY DEF Calls, Handle, jetkvm_ui_tick, handle_indev_event, Call
<1>2. \/ UNCHANGED act
      \/ \E op \in {"rpc", "touch"} : /\ act["tick"].pc = "idle"
                                      /\ act' = [act EXCEPT !["tick"] = [pc |-> "want", op |-> op]]
      \/ /\ act["handler"].pc = "idle"
         /\ act' = [act EXCEPT !["handler"] = [pc |-> "want", op |-> "ui"]]
      \/ \E op \in {"start", "stop"} :
           /\ act["other"].pc = "idle"
           /\ act' = [act EXCEPT !["other"] = [pc |-> "want", op |-> op]]
  BY DEF Calls, Handle, jetkvm_ui_tick, handle_indev_event, Call, At
<1>3. CASE UNCHANGED act
  BY <1>1, <1>3 DEF LockInv, ActType, LockHeld
<1>4. ASSUME NEW a \in Callers, NEW op \in {"rpc", "touch", "ui", "start", "stop"},
             act[a].pc = "idle", act' = [act EXCEPT ![a] = [pc |-> "want", op |-> op]],
             a = "tick" => op \in {"rpc", "touch"}, a = "handler" => op = "ui",
             a = "other" => op \in {"start", "stop"}
      PROVE  LockInv'
  <2>1. [pc |-> "want", op |-> op] \in Places
    BY DEF Places
  <2>2. /\ act' \in [Actors -> Places] /\ act'[a].pc = "want" /\ act'[a].op = op
        /\ \A b \in Actors : b # a => act'[b] = act[b]
    BY <1>4, <2>1, OneActor, ActorsAre DEF LockInv, ActType
  <2>3. ActType'
    BY <1>1, <1>4, <2>2, ActorsAre DEF LockInv, ActType
  <2>4. lock # a
    BY <1>4 DEF LockInv, LockHeld
  <2>5. LockHeld'
    BY <1>1, <2>2, <2>4, ActorsAre DEF LockInv, LockHeld
  <2> QED BY <2>3, <2>5 DEF LockInv
<1> QED BY <1>2, <1>3, <1>4, ActorsAre

\* A caller gets the lock.
LEMMA LockEnter ==
  ASSUME LockInv, NEW a \in Callers, Enter(a) PROVE LockInv'
<1> DEFINE op == act[a].op
           returns == \/ op = "ui"
                      \/ op = "start" /\ ~At("stream", "idle")
                      \/ op = "stop" /\ At("stream", "idle")
           p == IF returns THEN Idle ELSE [act[a] EXCEPT !.pc = "report"]
<1>1. /\ act[a].pc = "want" /\ lock = None /\ act' = [act EXCEPT ![a] = p]
      /\ lock' = (IF returns THEN None ELSE a)
      /\ flag' = IF returns \/ a = "tick" THEN flag ELSE op = "start"
  BY DEF Enter, CanEnter, At
<1>2. act[a] \in Places /\ a \in Actors
  BY ActorsAre DEF LockInv, ActType
<1>3. p \in Places /\ p.pc = (IF returns THEN "idle" ELSE "report") /\ (~returns => p.op = op)
  BY <1>2 DEF Places, Idle
<1>4. returns \in BOOLEAN
  OBVIOUS
<1>5. a = "handler" => returns
  BY <1>1 DEF LockInv, ActType
<1> HIDE DEF p, returns
<1>6. act' \in [Actors -> Places] /\ act'[a] = p /\ \A b \in Actors : b # a => act'[b] = act[b]
  BY <1>1, <1>2, <1>3, OneActor DEF LockInv, ActType
<1>7. ActType'
  BY <1>1, <1>3, <1>5, <1>6, ActorsAre DEF LockInv, ActType
<1>8. \A b \in Callers : act[b].pc \notin {"report", "join"}
  BY <1>1, ActorsAre DEF LockInv, LockHeld
<1>9. \A b \in Callers : act'[b].pc \in {"report", "join"} <=> lock' = b
  BY <1>1, <1>3, <1>6, <1>8, ActorsAre
<1>10. lock' = "other" /\ act'["other"].op = "stop" => ~flag'
  BY <1>1, <1>3, <1>6, ActorsAre
<1> QED BY <1>7, <1>9, <1>10 DEF LockInv, LockHeld

\* A report, which the code of the reporting actor goes on from.
LEMMA LockReport ==
  ASSUME LockInv, NEW a \in Actors, Report(a) PROVE LockInv'
<1>1. /\ act[a].pc = "report" /\ act' = After(a) /\ UNCHANGED flag
      /\ lock' = IF act[a].op \in {"rpc", "touch", "start"} THEN None ELSE lock
  BY DEF Report, CanReport, At
<1>2. ActType /\ LockHeld /\ act \in [Actors -> Places] /\ Idle \in Places /\ Idle.pc = "idle"
  BY DEF LockInv, ActType, Idle, Places
<1>3. CASE a = "tick"
  <2>1. act' = [act EXCEPT !["tick"] = Idle] /\ lock' = None /\ lock = "tick"
    BY <1>1, <1>2, <1>3, ActorsAre DEF After, ActType, LockHeld
  <2>2. act' \in [Actors -> Places] /\ act'["tick"] = Idle
        /\ \A b \in Actors : b # "tick" => act'[b] = act[b]
    BY <1>2, <2>1, OneActor, ActorsAre
  <2>3. ActType'
    BY <1>1, <1>2, <2>1, <2>2, ActorsAre DEF ActType
  <2> QED BY <1>1, <1>2, <2>1, <2>2, <2>3, ActorsAre DEF LockInv, LockHeld
<1>4. CASE a = "other" /\ act[a].op = "start"
  <2> DEFINE b0 == [pc |-> "report", op |-> "begin"]
  <2>1. act' = [act EXCEPT !["other"] = Idle, !["stream"] = b0] /\ lock' = None /\ lock = "other"
    BY <1>1, <1>2, <1>4, ActorsAre DEF After, LockHeld
  <2>2. b0 \in Places /\ b0.pc = "report" /\ b0.op = "begin"
    BY DEF Places
  <2> HIDE DEF b0
  <2>3. /\ act' \in [Actors -> Places] /\ act'["other"] = Idle /\ act'["stream"] = b0
        /\ \A b \in Actors : b # "other" /\ b # "stream" => act'[b] = act[b]
    BY <1>2, <2>1, <2>2, ActorsAre
  <2>4. ActType'
    BY <1>1, <1>2, <2>1, <2>2, <2>3, ActorsAre DEF ActType
  <2> QED BY <1>1, <1>2, <2>1, <2>3, <2>4, ActorsAre DEF LockInv, LockHeld
<1>5. CASE a = "other" /\ act[a].op = "stop"
  <2> DEFINE p == [act["other"] EXCEPT !.pc = "join"]
  <2>1. act' = [act EXCEPT !["other"] = p] /\ lock' = lock /\ lock = "other"
    BY <1>1, <1>2, <1>5, ActorsAre DEF After, LockHeld
  <2>2. p \in Places /\ p.pc = "join" /\ p.op = "stop"
    BY <1>2, <1>5, ActorsAre DEF Places
  <2> HIDE DEF p
  <2>3. act' \in [Actors -> Places] /\ act'["other"] = p
        /\ \A b \in Actors : b # "other" => act'[b] = act[b]
    BY <1>2, <2>1, <2>2, OneActor, ActorsAre
  <2>4. ActType'
    BY <1>1, <1>2, <2>1, <2>2, <2>3, ActorsAre DEF ActType
  <2> QED BY <1>1, <1>2, <1>5, <2>1, <2>2, <2>3, <2>4, ActorsAre DEF LockInv, LockHeld
<1>6. CASE a = "stream"
  <2>1. act[a].op \in {"begin", "end"}
    BY <1>1, <1>2, <1>6 DEF ActType
  <2>2. PICK p \in Places : p.pc \in {"idle", "loop"} /\ act' = [act EXCEPT !["stream"] = p]
    <3>1. [pc |-> "loop", op |-> "none"] \in Places
      BY DEF Places
    <3> QED BY <1>1, <1>2, <1>6, <2>1, <3>1 DEF After
  <2>3. act' \in [Actors -> Places] /\ act'["stream"] = p
        /\ \A b \in Actors : b # "stream" => act'[b] = act[b]
    BY <1>2, <2>2, OneActor, ActorsAre
  <2>4. lock' = lock
    BY <1>1, <2>1
  <2>5. ActType'
    BY <1>1, <1>2, <2>2, <2>3, <2>4, ActorsAre DEF ActType
  <2> QED BY <1>1, <1>2, <2>3, <2>4, <2>5, ActorsAre DEF LockInv, LockHeld
<1>7. a # "handler" /\ (a = "other" => act[a].op \in {"start", "stop"})
  BY <1>1, <1>2 DEF ActType
<1> QED BY <1>3, <1>4, <1>5, <1>6, <1>7, ActorsAre

\* The join, and the end of the streaming thread.
LEMMA LockJoin ==
  ASSUME LockInv, NEW a \in Actors, Join(a) \/ StreamEnds PROVE LockInv'
<1>0. ActType /\ LockHeld /\ act \in [Actors -> Places] /\ Idle \in Places /\ Idle.pc = "idle"
  BY DEF LockInv, ActType, Idle, Places
<1>1. CASE Join(a)
  <2>1. act[a].pc = "join" /\ act' = [act EXCEPT ![a] = Idle] /\ lock' = None /\ UNCHANGED flag
    BY <1>1 DEF Join, CanJoin, At
  <2>2. a = "other" /\ lock = "other"
    BY <1>0, <2>1, ActorsAre DEF ActType, LockHeld
  <2>3. act' \in [Actors -> Places] /\ act'["other"] = Idle
        /\ \A b \in Actors : b # "other" => act'[b] = act[b]
    BY <1>0, <2>1, <2>2, OneActor
  <2>4. ActType'
    BY <1>0, <2>1, <2>3, ActorsAre DEF ActType
  <2> QED BY <1>0, <2>1, <2>2, <2>3, <2>4, ActorsAre DEF LockInv, LockHeld
<1>2. CASE StreamEnds
  <2> DEFINE p == [pc |-> "report", op |-> "end"]
  <2>1. act' = [act EXCEPT !["stream"] = p] /\ UNCHANGED <<lock, flag>>
    BY <1>2 DEF StreamEnds
  <2>2. p \in Places /\ p.pc = "report" /\ p.op = "end"
    BY DEF Places
  <2> HIDE DEF p
  <2>3. act' \in [Actors -> Places] /\ act'["stream"] = p
        /\ \A b \in Actors : b # "stream" => act'[b] = act[b]
    BY <1>0, <2>1, <2>2, OneActor, ActorsAre
  <2>4. ActType'
    BY <1>0, <2>1, <2>2, <2>3, ActorsAre DEF ActType
  <2> QED BY <1>0, <2>1, <2>3, <2>4, ActorsAre DEF LockInv, LockHeld
<1> QED BY <1>1, <1>2

\* Every step keeps the invariant.
LEMMA LockInvStep == LockInv /\ [Next]_vars => LockInv'
<1> SUFFICES ASSUME LockInv, [Next]_vars PROVE LockInv'
  OBVIOUS
<1>1. CASE UNCHANGED <<act, lock, flag>>
  BY <1>1 DEF LockInv, ActType, LockHeld
<1>2. \/ \E k \in Kinds : Broadcast(k)
      \/ \E s \in Streams : ServerStep(s)
      \/ Connect \/ Ended \/ Receive \/ Break \/ UNCHANGED vars
      => UNCHANGED <<act, lock, flag>>
  BY DEF Broadcast, ServerStep, ServerBegin, ServerTake, ServerCancelled, ServerCheck, ServerSend,
         Connect, Ended, Receive, Break, vars
<1>3. ASSUME NEW a \in Actors, InC(a) PROVE LockInv'
  BY <1>3, LockReport, LockJoin DEF InC
<1>4. CASE StreamEnds
  BY <1>4, LockJoin, ActorsAre
<1> QED BY <1>1, <1>2, <1>3, <1>4, LockCall, LockEnter DEF Next, Progress

\* The stream the client reads was begun.
LinkBegun == link # None => srv[link].pc # "none"

\* Only Connect changes the stream the client reads, to one that begins, and no
\* stream goes back to where it had not begun.
LEMMA LinkBegunStep == TypeInv /\ LinkBegun /\ [Next]_vars => LinkBegun'
<1> SUFFICES ASSUME TypeInv, LinkBegun, [Next]_vars PROVE LinkBegun'
  OBVIOUS
<1>0. None \notin Streams /\ link \in Streams \cup {None} /\ srv \in [Streams -> Servers]
  BY BridgeAssumption DEF TypeInv
<1>1. CASE UNCHANGED <<link, srv>>
  BY <1>1 DEF LinkBegun
<1>2. \/ Calls \/ StreamEnds \/ Handle \/ Receive \/ UNCHANGED vars
      \/ (\E k \in Kinds : Broadcast(k)) \/ (\E a \in Callers : Enter(a)) \/ (\E a \in Actors : InC(a))
      => UNCHANGED <<link, srv>>
  BY DEF Calls, jetkvm_ui_tick, handle_indev_event, Call, StreamEnds, Handle, Receive, Broadcast,
         Enter, InC, Report, Join, vars, server, main
<1>3. CASE Ended \/ Break
  BY <1>3 DEF Ended, Break, LinkBegun
<1>4. CASE Connect
  <2>1. PICK s \in Streams : link' = s /\ srv' = [srv EXCEPT ![s] = [NoServer EXCEPT !.pc = "new"]]
    BY <1>4 DEF Connect
  <2> QED BY <1>0, <2>1 DEF LinkBegun, NoServer
<1>5. ASSUME NEW s \in Streams, ServerStep(s) PROVE LinkBegun'
  <2>1. UNCHANGED link
    BY <1>5 DEF ServerStep, ServerBegin, ServerTake, ServerCancelled, ServerCheck, ServerSend, main
  <2>2. \A u \in Streams : srv[u].pc # "none" => srv'[u].pc # "none"
    <3>1. CASE ServerBegin(s)
      BY <1>0, <3>1 DEF ServerBegin, Servers
    <3>2. CASE ServerTake(s)
      BY <1>0, <3>2 DEF ServerTake, Servers
    <3>3. CASE ServerEnds(s)
      BY <1>0, <3>3 DEF ServerEnds, NoServer
    <3>4. CASE ServerCheck(s)
      BY <1>0, <3>3, <3>4 DEF ServerCheck, Servers
    <3>5. CASE ServerSend(s)
      BY <1>0, <3>3, <3>5 DEF ServerSend, NoServer
    <3> QED BY <1>5, <3>1, <3>2, <3>3, <3>4, <3>5 DEF ServerStep, ServerCancelled
  <2> QED BY <1>0, <2>1, <2>2 DEF LinkBegun
<1> QED BY <1>1, <1>2, <1>3, <1>4, <1>5 DEF Next, Progress

\* The invariant of the last theorem.
StuckInv == BridgeInv /\ LockInv /\ LinkBegun

LEMMA StuckInvHolds == Spec => []StuckInv
<1>1. Init => LinkBegun
  BY DEF Init, LinkBegun
<1>2. StuckInv /\ [Next]_vars => StuckInv'
  BY BridgeInvStep, LockInvStep, LinkBegunStep DEF StuckInv, BridgeInv
<1> QED BY <1>1, <1>2, BridgeInvInit, LockInvInit, PTL DEF Spec, StuckInv

\* While eventStreamChan is not empty, a stream takes from it or is on its way
\* to do so: the client reads what was sent whether it has room for it or not,
\* and where no stream is left it opens one.
LEMMA ChannelDrains ==
  ASSUME StuckInv, chan # <<>> PROVE CanProceed
<1>1. /\ None \notin Streams /\ Streams # {} /\ NetCap \in Nat \ {0}
      /\ link \in Streams \cup {None} /\ srv \in [Streams -> Servers]
      /\ net \in [Streams -> Seq(Events)]
  BY BridgeAssumption DEF StuckInv, BridgeInv, TypeInv
<1>2. \A s \in Streams : srv[s].pc \in {"none", "new", "loop", "check", "send", "done"}
  BY <1>1 DEF Servers
<1>3. ASSUME NEW s \in Streams, srv[s].pc \in {"new", "loop", "check"} PROVE CanProceed
  BY <1>3 DEF CanProceed, CanTake, Server
<1>4. ASSUME NEW s \in Streams, srv[s].pc = "send" PROVE CanProceed
  <2>1. CASE srv[s].cancelled \/ Len(net[s]) < NetCap
    BY <1>4, <2>1 DEF CanProceed, CanSend, Server
  <2>2. CASE ~srv[s].cancelled /\ ~(Len(net[s]) < NetCap)
    <3>1. s = link
      BY <1>4, <2>2 DEF StuckInv, BridgeInv, StreamInv
    <3>2. net[s] # <<>>
      BY <1>1, <2>2
    <3> QED BY <1>1, <3>1, <3>2 DEF CanProceed, CanReceive
  <2> QED BY <2>1, <2>2
<1>5. CASE \A s \in Streams : Free(s)
  <2>1. CASE link = None
    BY <1>1, <1>5, <2>1 DEF CanProceed, CanConnect
  <2>2. CASE link # None
    <3>1. srv[link].pc = "done"
      BY <1>1, <1>5, <2>2 DEF Free, StuckInv, LinkBegun
    <3> QED BY <2>2, <3>1 DEF CanProceed, CanEnd, CanReceive, Server
  <2> QED BY <2>1, <2>2
<1> QED BY <1>2, <1>3, <1>4, <1>5 DEF Free

\* A callback is not held up: the goroutine of its kind is free, finds room in
\* eventStreamChan, or waits for a channel that drains.
LEMMA ReportProceeds ==
  ASSUME StuckInv, NEW a \in Actors, act[a].pc = "report" PROVE CanProceed
<1>1. KindOf(a) \in Kinds
  BY DEF KindOf, Kinds
<1>2. CASE holding[KindOf(a)] = 0
  BY <1>2 DEF CanProceed, CanReport, At
<1>3. CASE holding[KindOf(a)] # 0 /\ Len(chan) < ServerCap
  BY <1>1, <1>3 DEF CanProceed, CanBroadcast
<1>4. CASE ~(Len(chan) < ServerCap)
  <2>1. chan # <<>>
    BY <1>4, BridgeAssumption DEF StuckInv, BridgeInv, TypeInv
  <2> QED BY <2>1, ChannelDrains
<1> QED BY <1>2, <1>3, <1>4

\* For any number of streams and any sizes of the channels: when a tick, a call
\* of the main process or the handler of an event is under way, somebody on whom
\* it waits can go on, through cgoLock, the callbacks, the channels, the stream
\* and the join of the streaming thread.
THEOREM NobodyIsStuck == Spec => []NeverStuck
<1>1. ASSUME StuckInv PROVE NeverStuck
  <2> SUFFICES ASSUME NEW a \in Callers, act[a].pc # "idle" PROVE CanProceed
    BY DEF NeverStuck
  <2>0. ActType /\ LockHeld
    BY <1>1 DEF StuckInv, LockInv
  <2>1. act[a].pc \in {"want", "report", "join"}
    BY <2>0, ActorsAre DEF ActType
  <2>2. ASSUME NEW b \in Callers, act[b].pc = "join" PROVE CanProceed
    <3>1. b = "other" /\ lock = "other" /\ ~flag
      BY <2>0, <2>2, ActorsAre DEF ActType, LockHeld
    <3>2. CASE act["stream"].pc = "idle"
      BY <2>2, <3>2, ActorsAre DEF CanProceed, CanJoin, At
    <3>3. CASE act["stream"].pc = "report"
      BY <1>1, <3>3, ReportProceeds, ActorsAre
    <3>4. CASE act["stream"].pc = "loop"
      BY <3>1, <3>4 DEF CanProceed, CanStreamEnd, At
    <3> QED BY <2>0, <3>2, <3>3, <3>4 DEF ActType
  <2>3. ASSUME NEW b \in Callers, act[b].pc = "report" PROVE CanProceed
    BY <1>1, <2>3, ReportProceeds, ActorsAre
  <2>4. CASE act[a].pc = "want"
    <3>1. CASE lock = None
      BY <2>4, <3>1 DEF CanProceed, CanEnter, At
    <3>2. CASE lock # None
      <4>1. lock \in Callers /\ act[lock].pc \in {"report", "join"}
        BY <2>0, <3>2 DEF ActType, LockHeld
      <4> QED BY <2>2, <2>3, <4>1
    <3> QED BY <3>1, <3>2
  <2> QED BY <2>1, <2>2, <2>3, <2>4
<1> QED BY <1>1, StuckInvHolds, PTL

----------------------------------------------------------------------------
(* The bridge is a queue for each kind of event. *)

\* What waits is what is somewhere and was not handled.
NotHandled ==
  \A k \in Kinds : Waiting(k) = Everywhere(k) \ Handled(got[k]) /\ Waiting(k) \subseteq Nat

LEMMA WaitingIs == BridgeInv => NotHandled
<1> SUFFICES ASSUME BridgeInv, NEW k \in Kinds
             PROVE  Waiting(k) = Everywhere(k) \ Handled(got[k]) /\ Waiting(k) \subseteq Nat
  BY DEF NotHandled
<1>1. Everywhere(k) = Handled(got[k]) \cup Waiting(k)
  BY DEF Everywhere, All, Waiting
<1>2. Everywhere(k) \subseteq 1 .. sent[k] /\ sent[k] \in Nat
  BY DEF BridgeInv, NumbersGiven, TypeInv
<1>3. \A x \in Handled(got[k]) : \A y \in Waiting(k) : x < y
  BY DEF BridgeInv, StagesOrdered, Ordered, Below, Waiting
<1>4. Everywhere(k) \subseteq Nat
  BY <1>2
<1>5. \A x \in Waiting(k) : x \notin Handled(got[k])
  BY <1>1, <1>3, <1>4
<1> QED BY <1>1, <1>4, <1>5

\* A step that reports and handles nothing, brings nothing back, and loses
\* nothing unless lossy says so.
LEMMA LosesOrKeeps ==
  ASSUME BridgeInv, BridgeInv', Fewer, UNCHANGED <<sent, got>>, lossy => lossy'
  PROVE  EQ!Lose \/ UNCHANGED EQ!qvars
<1>0. lossy \in BOOLEAN /\ lossy' \in BOOLEAN
  BY DEF BridgeInv, TypeInv
<1>n. NotHandled /\ NotHandled'
  BY WaitingIs, PTL
<1>1. ASSUME NEW k \in Kinds PROVE Waiting(k)' \subseteq Waiting(k) /\ Waiting(k)' \subseteq Nat
  BY <1>n DEF Fewer, NotHandled
<1>2. CASE lossy'
  BY <1>0, <1>1, <1>2 DEF EQ!Lose
<1>3. CASE ~lossy'
  <2>1. ASSUME NEW k \in Kinds PROVE Waiting(k)' = Waiting(k)
    <3>1. Everywhere(k)' = Everywhere(k)
      BY <1>3 DEF BridgeInv, AllThere
    <3> QED BY <1>n, <3>1 DEF NotHandled
  <2> QED BY <1>0, <1>3, <2>1 DEF EQ!qvars
<1> QED BY <1>2, <1>3

\* A callback posts an event.
LEMMA ReportPosts ==
  ASSUME BridgeInv, NEW a, Report(a) PROVE \E k \in Kinds : EQ!Post(k)
<1>1. PICK k \in Kinds :
      /\ holding[k] = 0
      /\ sent' = [sent EXCEPT ![k] = sent[k] + 1]
      /\ holding' = [holding EXCEPT ![k] = sent[k] + 1]
      /\ UNCHANGED <<chan, srv, active, net, link, inbox, got, lossy>>
  <2>1. KindOf(a) \in Kinds
    BY DEF KindOf, Kinds
  <2> QED BY <2>1 DEF Report, CanReport, server, main
<1>2. /\ holding'[k] = sent[k] + 1 /\ \A m \in Kinds : m # k => holding'[m] = holding[m]
      /\ sent[k] \in Nat
  BY <1>1 DEF BridgeInv, TypeInv
<1>3. \A m \in Kinds : Waiting(m)' = IF m = k THEN Waiting(m) \cup {sent[k] + 1} ELSE Waiting(m)
  <2>1. Held(holding[k]) = {} /\ Held(holding'[k]) = {sent[k] + 1}
    BY <1>1, <1>2 DEF Held
  <2> QED BY <1>1, <1>2, <2>1 DEF Waiting
<1>4. [m \in Kinds |-> Waiting(m)]' =
        [[m \in Kinds |-> Waiting(m)] EXCEPT ![k] = Waiting(k) \cup {sent[k] + 1}]
  BY <1>3
<1> QED BY <1>1, <1>4 DEF EQ!Post

\* handleEvent gets the oldest event that waits.
LEMMA HandleDelivers ==
  ASSUME BridgeInv, Handle PROVE \E k \in Kinds : EQ!Deliver(k)
<1> DEFINE e == Head(inbox)
<1>1. /\ inbox # <<>> /\ inbox' = Tail(inbox)
      /\ got' = [got EXCEPT ![e.kind] = Append(got[e.kind], e.n)]
      /\ UNCHANGED <<sent, holding, chan, srv, active, net, link, lossy>>
  BY DEF Handle, server
<1>2. /\ e \in Events
      /\ \A m : /\ Numbers(m, inbox) = One(m, e) \cup Numbers(m, inbox')
                /\ Below(One(m, e), Numbers(m, inbox'))
  BY <1>1, HeadTail DEF BridgeInv, TypeInv, QueuesSorted
<1> HIDE DEF e
<1>3. PICK k \in Kinds : k = e.kind
  BY <1>2 DEF Events
<1>4. NotHandled /\ e.n \in Nat
  BY <1>2, WaitingIs DEF Events
<1> DEFINE later == OnStream(k, link, net) \cup Taken(k, link, srv) \cup Numbers(k, chan)
                      \cup Held(holding[k])
<1>5. One(k, e) = {e.n} /\ \A m \in Kinds : m # k => One(m, e) = {}
  BY <1>3 DEF One
<1>6. /\ Waiting(k) = {e.n} \cup Numbers(k, inbox') \cup later
      /\ Waiting(k)' = Numbers(k, inbox') \cup later
  BY <1>1, <1>2, <1>5 DEF Waiting
<1>7. \A m \in Kinds : m # k => Waiting(m)' = Waiting(m)
  <2>1. \A m \in Kinds : m # k => Numbers(m, inbox) = Numbers(m, inbox')
    BY <1>2, <1>5
  <2> QED BY <1>1, <2>1 DEF Waiting
<1>8. \A x \in Numbers(k, inbox') \cup later : e.n < x
  <2>1. Below(Numbers(k, inbox), later)
    BY DEF BridgeInv, StagesOrdered, Ordered, Below
  <2>2. e.n \in Numbers(k, inbox) /\ Below({e.n}, Numbers(k, inbox'))
    BY <1>2, <1>5
  <2> HIDE DEF later
  <2> QED BY <2>1, <2>2 DEF Below
<1> HIDE DEF later
<1>9. Waiting(k) \subseteq Nat
  BY <1>4 DEF NotHandled
<1>10. /\ e.n \in Waiting(k) /\ \A x \in Waiting(k) : e.n <= x
       /\ Waiting(k)' = Waiting(k) \ {e.n}
  BY <1>4, <1>6, <1>8, <1>9
<1>11. [m \in Kinds |-> Waiting(m)]' =
        [[m \in Kinds |-> Waiting(m)] EXCEPT ![k] = Waiting(k) \ {e.n}]
  BY <1>7, <1>10
<1> QED BY <1>1, <1>3, <1>10, <1>11 DEF EQ!Deliver

\* Every step is one of the queues or none.
LEMMA QueueStep ==
  ASSUME BridgeInv, BridgeInv', [Next]_vars PROVE [EQ!QNext]_(EQ!qvars)
<1>1. ASSUME NEW a, Enter(a) \/ Join(a) \/ StreamEnds \/ Calls \/ UNCHANGED vars
      PROVE  UNCHANGED <<sent, holding, server, net, main, lossy>>
  BY <1>1 DEF Enter, Join, StreamEnds, Calls, jetkvm_ui_tick, handle_indev_event, Call, vars,
              server, main
<1>2. ASSUME NEW s \in Streams, ServerStep(s) PROVE Fewer /\ UNCHANGED <<sent, got, lossy>>
  <2>1. Fewer
    BY <1>2, ServerBeginStep, ServerTakeStep, ServerCancelledStep, ServerCheckStep,
       ServerSendStep DEF ServerStep
  <2> QED BY <1>2, <2>1 DEF ServerStep, ServerBegin, ServerTake, ServerCancelled, ServerCheck,
                            ServerSend, main
<1>3. ASSUME Connect \/ Ended \/ Receive \/ Break \/ \E k \in Kinds : Broadcast(k)
      PROVE  Fewer /\ UNCHANGED <<sent, got>> /\ (lossy => lossy')
  <2>1. Fewer
    BY <1>3, ConnectStep, EndedStep, ReceiveStep, BreakStep, BroadcastStep
  <2>2. UNCHANGED <<sent, got>> /\ (lossy' = lossy \/ lossy' = TRUE)
    BY <1>3 DEF Connect, Ended, Receive, Break, Broadcast, main
  <2> QED BY <2>1, <2>2
<1>4. UNCHANGED <<sent, holding, server, net, main, lossy>> => Fewer /\ UNCHANGED <<sent, got, lossy>>
  BY QuietStep DEF main
<1>5. CASE Fewer /\ UNCHANGED <<sent, got>> /\ (lossy => lossy')
  BY <1>5, LosesOrKeeps DEF EQ!QNext
<1>6. CASE \E a \in Actors : Report(a)
  BY <1>6, ReportPosts DEF EQ!QNext
<1>7. CASE Handle
  BY <1>7, HandleDelivers DEF EQ!QNext
<1> QED BY <1>1, <1>2, <1>3, <1>4, <1>5, <1>6, <1>7 DEF Next, Progress, InC

\* For any number of streams and any sizes of the channels, the bridge
\* implements the queues, step by step: a report posts an event, handleEvent gets
\* the oldest one that waits, and nothing is lost but where lossy says so.
THEOREM BridgeIsQueue == Spec => ImplementsEventQueue
<1>1. Init => EQ!QInit
  <2> SUFFICES ASSUME Init PROVE EQ!QInit
    OBVIOUS
  <2>1. \A k \in Kinds : Waiting(k) = {}
    BY NumbersEmpty DEF Init, Waiting, OnStream, Taken, Held
  <2> QED BY <2>1 DEF Init, EQ!QInit
<1> QED BY <1>1, BridgeInvHolds, QueueStep, PTL DEF Spec, ImplementsEventQueue, EQ!QSpec
==============================================================================
