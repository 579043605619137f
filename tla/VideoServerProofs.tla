-------------------------- MODULE VideoServerProofs --------------------------
(***************************************************************************)
(* Proof that the read of the stand-alone capture program never blocks its *)
(* loop, and that no run of it loses a descriptor or a socket.             *)
(*                                                                         *)
(* The argument: every open descriptor has one owner, so the number that   *)
(* accept returns is neither the one of the socket nor the one of the      *)
(* client that select looked at; a new client is therefore not in read_fds *)
(* and is not read in this round, and a client that is in read_fds stays   *)
(* readable until it is read, since nobody else reads it.                  *)
(***************************************************************************)
EXTENDS VideoServer, FiniteSetTheorems, WellFoundedInduction, TLAPS

Conns == [fd : Fds \cup {NoFd}, data : BOOLEAN, hung : BOOLEAN, used : BOOLEAN]

\* The types the proofs need.
TypeInv ==
  /\ pc \in {"exited", "init", "start", "socket", "fcntl", "bind", "listen", "fail", "loop",
             "accept", "replace", "check", "read", "stop", "close", "exit"}
  /\ file \in BOOLEAN
  /\ server \in Fds \cup {NoFd} /\ client \in Fds \cup {NoFd} /\ sub \in Fds \cup {NoFd}
  /\ device \in Fds \cup {NoFd} /\ taken \in Fds \cup {NoFd}
  /\ ready \subseteq Fds
  /\ queue \in Seq(Clients)
  /\ conn \in [Clients -> Conns]

\* What main has set up and not taken down, by where it is.
Serving == pc \in {"loop", "accept", "replace", "check", "read", "stop"}
Listening == pc \in {"fcntl", "bind", "listen", "fail"} \/ Serving
PhaseInv ==
  /\ pc \in {"exited", "init"} => sub = NoFd /\ ~subOpen /\ video = "off"
  /\ pc = "start" => video = "ready"
  /\ pc = "close" => video = "gone"
  /\ pc = "exit" => video \in {"off", "gone"}
  /\ device # NoFd => video = "up"
  /\ video = "up" => pc = "socket" \/ Listening
  /\ server # NoFd => Listening \/ pc = "close"
  /\ client # NoFd => Serving \/ pc = "close"
  /\ taken # NoFd => pc = "replace"

\* No open descriptor has two owners.
OwnersInv ==
  /\ server # NoFd => server \notin {client, device, taken}
  /\ client # NoFd => client \notin {device, taken}
  /\ device # NoFd => device # taken
  /\ subOpen => sub # NoFd /\ sub \notin {server, client, device, taken}

\* A connection that was accepted is the current client's or the one that is
\* about to be, and no two of them share a descriptor.
ConnInv ==
  /\ \A c \in Clients : conn[c].fd \in {NoFd, client, taken}
  /\ \A c, d \in Clients : conn[c].fd = conn[d].fd /\ conn[c].fd # NoFd => c = d

\* Who waits for accept waits once, and has no descriptor yet.
QueueInv ==
  /\ \A i \in DOMAIN queue : conn[queue[i]].used /\ conn[queue[i]].fd = NoFd
  /\ \A i, j \in DOMAIN queue : queue[i] = queue[j] => i = j

\* A read of fd returns at once.
Answers(fd) == \E c \in Clients : conn[c].fd = fd /\ (conn[c].data \/ conn[c].hung)

\* What read_fds says of the client is true when it is looked at.
ReadyInv ==
  /\ pc \in {"accept", "replace"} => ready \subseteq {server, client}
  /\ pc \in {"accept", "replace", "check"} /\ client \in ready => Answers(client)
  /\ pc = "read" => client # NoFd /\ Answers(client)

\* The inductive invariant.
ServerInv == TypeInv /\ PhaseInv /\ OwnersInv /\ ConnInv /\ QueueInv /\ ReadyInv

----------------------------------------------------------------------------
(* The descriptor table. *)

\* A set of numbers that is not empty has a smallest one.
LEMMA Smallest ==
  ASSUME NEW S, S \subseteq Nat, S # {}
  PROVE  \E f \in S : \A g \in S : f <= g
<1> DEFINE R == OpToRel(<, Nat)
<1>1. PICK f \in S : \A g \in S : <<g, f>> \notin R
  <2>1. IsWellFoundedOn(R, Nat)
    BY NatLessThanWellFounded
  <2> HIDE DEF R
  <2> QED BY <2>1, WFMin
<1>2. ASSUME NEW g \in S PROVE f <= g
  <2>1. <<g, f>> \in Nat \X Nat /\ <<g, f>>[1] = g /\ <<g, f>>[2] = f
    OBVIOUS
  <2>2. ~(g < f)
    BY <1>1, <2>1 DEF OpToRel
  <2> QED BY <2>2
<1> QED BY <1>2

\* Five numbers do not fill the table.
LEMMA NotFull ==
  ASSUME NEW a, NEW b, NEW c, NEW d, NEW e
  PROVE  ~(Fds \subseteq {a, b, c, d, e})
<1> DEFINE S1 == {a} S2 == S1 \cup {b} S3 == S2 \cup {c} S4 == S3 \cup {d} S5 == S4 \cup {e}
<1>1. IsFiniteSet(S1) /\ Cardinality(S1) = 1
  BY FS_Singleton
<1> HIDE DEF S1
<1>2. IsFiniteSet(S2) /\ Cardinality(S2) \in Nat /\ Cardinality(S2) <= 2
  BY <1>1, FS_AddElement
<1> HIDE DEF S2
<1>3. IsFiniteSet(S3) /\ Cardinality(S3) \in Nat /\ Cardinality(S3) <= 3
  BY <1>2, FS_AddElement
<1> HIDE DEF S3
<1>4. IsFiniteSet(S4) /\ Cardinality(S4) \in Nat /\ Cardinality(S4) <= 4
  BY <1>3, FS_AddElement
<1> HIDE DEF S4
<1>5. IsFiniteSet(S5) /\ Cardinality(S5) \in Nat /\ Cardinality(S5) <= 5
  BY <1>4, FS_AddElement
<1> HIDE DEF S5
<1>6. S5 = {a, b, c, d, e}
  BY DEF S1, S2, S3, S4, S5
<1>7. ASSUME Fds \subseteq S5 PROVE FALSE
  <2>1. Cardinality(Fds) <= Cardinality(S5)
    BY <1>5, <1>7, FS_Subset
  <2>2. Cardinality(Fds) \in Nat /\ Cardinality(Fds) >= 6
    BY ServerAssumption, FS_CardinalityType
  <2> QED BY <1>5, <2>1, <2>2
<1> QED BY <1>6, <1>7

\* The kernel has a free descriptor to give out, which nobody has.
LEMMA Free ==
  ASSUME TypeInv, ConnInv
  PROVE  /\ LowestFree \in Fds /\ LowestFree # NoFd
         /\ LowestFree \notin {server, client, device, taken}
         /\ subOpen => LowestFree # sub
         /\ \A c \in Clients : conn[c].fd # LowestFree
<1>1. Open \subseteq {server, client, sub, device, taken}
  BY DEF Open, ConnInv
<1>2. Fds \ Open # {}
  BY <1>1, NotFull
<1>3. Fds \ Open \subseteq Nat
  BY ServerAssumption
<1>4. LowestFree \in Fds \ Open
  BY <1>2, <1>3, Smallest DEF LowestFree
<1>5. NoFd \notin Fds
  BY ServerAssumption DEF NoFd
<1> QED BY <1>4, <1>5 DEF Open

----------------------------------------------------------------------------
(* The invariant. *)

\* At first nothing is open.
LEMMA ServerInvInit == Init => ServerInv
<1> SUFFICES ASSUME Init PROVE ServerInv
  OBVIOUS
<1>1. NoConn \in Conns /\ NoConn.fd = NoFd
  BY DEF NoConn, Conns
<1>2. \A c \in Clients : conn[c] = NoConn
  BY DEF Init
<1>3. TypeInv
  BY <1>1 DEF Init, TypeInv
<1>4. PhaseInv /\ OwnersInv
  BY DEF Init, PhaseInv, OwnersInv, Serving, Listening
<1>5. ConnInv
  BY <1>1, <1>2 DEF ConnInv
<1>6. QueueInv /\ ReadyInv
  BY DEF Init, QueueInv, ReadyInv
<1> QED BY <1>3, <1>4, <1>5, <1>6 DEF ServerInv

\* Steps outside the loop, and of the streaming thread, leave connections alone.
LEMMA ConnKept ==
  ASSUME ServerInv, UNCHANGED <<client, taken, queue, conn>>
  PROVE  ConnInv' /\ QueueInv' /\ (Answers(client)' <=> Answers(client))
BY DEF ServerInv, ConnInv, QueueInv, Answers

\* Start-up, up to the loop.
LEMMA StartUpStep ==
  ASSUME ServerInv,
         \/ Start \/ VideoStart \/ Fail \/ VideoInit \/ Socket
         \/ Configure("fcntl", "bind") \/ Configure("bind", "listen")
         \/ Configure("listen", "loop")
  PROVE  ServerInv'
<1>0. TypeInv /\ PhaseInv /\ OwnersInv /\ ConnInv /\ QueueInv /\ ReadyInv
  BY DEF ServerInv
<1>1. UNCHANGED <<client, taken, ready, queue, conn>>
  BY DEF Start, VideoStart, Fail, VideoInit, Socket, Configure, files, subdev, peers
<1>2. /\ LowestFree \in Fds /\ LowestFree # NoFd
      /\ LowestFree \notin {server, client, device, taken} /\ (subOpen => LowestFree # sub)
  BY <1>0, Free
<1>3. /\ pc' \notin {"accept", "replace", "check", "read"}
      /\ pc \notin {"loop", "accept", "replace", "check", "read", "stop", "close"}
  BY DEF Start, VideoStart, Fail, VideoInit, Socket, Configure, Step
<1>4. client = NoFd /\ taken = NoFd
  BY <1>0, <1>3 DEF PhaseInv, Serving
<1>5. CASE Start
  BY <1>0, <1>1, <1>4, <1>5, ConnKept
     DEF Start, Step, files, subdev, ServerInv, TypeInv, PhaseInv, OwnersInv, ReadyInv, Serving, Listening
<1>6. CASE VideoStart
  BY <1>0, <1>1, <1>4, <1>6, ConnKept
     DEF VideoStart, Step, files, subdev, ServerInv, TypeInv, PhaseInv, OwnersInv, ReadyInv, Serving,
         Listening
<1>7. CASE Fail
  BY <1>0, <1>1, <1>4, <1>7, ConnKept
     DEF Fail, Step, subdev, ServerInv, TypeInv, PhaseInv, OwnersInv, ReadyInv, Serving, Listening
<1>8. CASE VideoInit
  <2>1. TypeInv'
    BY <1>0, <1>1, <1>2, <1>8 DEF VideoInit, TypeInv
  <2>2. PhaseInv'
    BY <1>0, <1>1, <1>4, <1>8 DEF VideoInit, PhaseInv, Serving, Listening
  <2>3. OwnersInv'
    BY <1>0, <1>1, <1>2, <1>8 DEF VideoInit, OwnersInv
  <2> QED BY <1>1, <1>3, <2>1, <2>2, <2>3, ConnKept DEF ServerInv, ReadyInv
<1>9. CASE Socket
  <2>1. TypeInv'
    BY <1>0, <1>1, <1>2, <1>9 DEF Socket, TypeInv, subdev
  <2>2. PhaseInv'
    BY <1>0, <1>1, <1>4, <1>9 DEF Socket, PhaseInv, subdev, Serving, Listening
  <2>3. OwnersInv'
    BY <1>0, <1>1, <1>2, <1>9 DEF Socket, OwnersInv, subdev
  <2> QED BY <1>1, <1>3, <2>1, <2>2, <2>3, ConnKept DEF ServerInv, ReadyInv
<1>10. ASSUME NEW from \in {"fcntl", "bind", "listen"}, NEW to \in {"bind", "listen", "loop"},
              Configure(from, to), to = "bind" => from = "fcntl"
       PROVE  ServerInv'
  <2>1. TypeInv'
    BY <1>0, <1>1, <1>10 DEF Configure, TypeInv, files, subdev
  <2>2. PhaseInv'
    BY <1>0, <1>1, <1>4, <1>10 DEF Configure, PhaseInv, Serving, Listening, files, subdev, TypeInv
  <2>3. OwnersInv'
    BY <1>0, <1>1, <1>10 DEF Configure, OwnersInv, files, subdev
  <2> QED BY <1>1, <1>3, <2>1, <2>2, <2>3, ConnKept DEF ServerInv, ReadyInv
<1> QED BY <1>5, <1>6, <1>7, <1>8, <1>9, <1>10

\* The streaming thread opens or closes the video device.
LEMMA DeviceStep ==
  ASSUME ServerInv, DeviceToggle PROVE ServerInv'
<1>0. TypeInv /\ PhaseInv /\ OwnersInv /\ ConnInv /\ QueueInv /\ ReadyInv
  BY DEF ServerInv
<1>1. UNCHANGED <<pc, video, file, server, client, sub, subOpen, taken, ready, queue, conn>>
  BY DEF DeviceToggle, subdev, peers
<1>2. /\ LowestFree \in Fds
      /\ LowestFree \notin {server, client, device, taken} /\ (subOpen => LowestFree # sub)
  BY <1>0, Free
<1>3. TypeInv'
  BY <1>0, <1>1, <1>2 DEF DeviceToggle, TypeInv
<1>4. PhaseInv'
  BY <1>0, <1>1 DEF DeviceToggle, PhaseInv, Serving, Listening
<1>5. OwnersInv'
  BY <1>0, <1>1, <1>2 DEF DeviceToggle, OwnersInv
<1>6. ReadyInv'
  BY <1>0, <1>1, ConnKept DEF ReadyInv
<1> QED BY <1>1, <1>3, <1>4, <1>5, <1>6, ConnKept DEF ServerInv

\* select: what it says of the client is true when it returns.
LEMMA SelectStep ==
  ASSUME ServerInv, Select PROVE ServerInv'
<1>0. TypeInv /\ PhaseInv /\ OwnersInv /\ ConnInv /\ QueueInv /\ ReadyInv
  BY DEF ServerInv
<1>1. /\ pc = "loop" /\ pc' \in {"accept", "stop"}
      /\ pc' = "accept" => ready' = {fd \in {server, client} \ {NoFd} : Readable(fd)}
      /\ pc' = "stop" => ready' = ready
      /\ UNCHANGED <<video, file, server, client, sub, subOpen, device, taken, queue, conn>>
  BY DEF Select, files, subdev, peers
<1>2. TypeInv' /\ PhaseInv' /\ OwnersInv'
  <2>1. ready' \subseteq Fds
    BY <1>0, <1>1 DEF TypeInv
  <2> QED BY <1>0, <1>1, <2>1 DEF TypeInv, PhaseInv, OwnersInv, Serving, Listening
<1>3. ReadyInv'
  <2>1. ASSUME pc' = "accept", client \in ready' PROVE Answers(client)
    <3>1. client # NoFd /\ Readable(client)
      BY <1>1, <2>1
    <3>2. client # server
      BY <1>0, <3>1 DEF OwnersInv
    <3> QED BY <3>1, <3>2 DEF Readable, ConnOf, Answers
  <2> QED BY <1>1, <2>1, ConnKept DEF ReadyInv
<1> QED BY <1>1, <1>2, <1>3, ConnKept DEF ServerInv

\* FD_ISSET of the client.
LEMMA CheckStep ==
  ASSUME ServerInv, Check PROVE ServerInv'
<1>0. TypeInv /\ PhaseInv /\ OwnersInv /\ ConnInv /\ QueueInv /\ ReadyInv
  BY DEF ServerInv
<1>1. /\ pc = "check" /\ pc' \in {"read", "loop"} /\ (pc' = "read" => client # NoFd /\ client \in ready)
      /\ UNCHANGED <<video, file, server, client, sub, subOpen, device, taken, ready, queue, conn>>
  BY DEF Check, files, subdev, peers
<1>2. TypeInv' /\ PhaseInv' /\ OwnersInv'
  BY <1>0, <1>1 DEF TypeInv, PhaseInv, OwnersInv, Serving, Listening
<1>3. ReadyInv'
  BY <1>0, <1>1, ConnKept DEF ReadyInv
<1> QED BY <1>1, <1>2, <1>3, ConnKept DEF ServerInv

\* The detector ends and leaves its number behind.
LEMMA DetectorStep ==
  ASSUME ServerInv, DetectorEnds PROVE ServerInv'
<1>0. TypeInv /\ PhaseInv /\ OwnersInv /\ ConnInv /\ QueueInv /\ ReadyInv
  BY DEF ServerInv
<1>1. /\ subOpen' = FALSE /\ video # "off"
      /\ UNCHANGED <<pc, video, file, server, client, sub, device, taken, ready, queue, conn>>
  BY DEF DetectorEnds, peers
<1>2. TypeInv' /\ PhaseInv' /\ OwnersInv'
  BY <1>0, <1>1 DEF TypeInv, PhaseInv, OwnersInv, Serving, Listening
<1>3. ReadyInv'
  BY <1>0, <1>1, ConnKept DEF ReadyInv
<1> QED BY <1>1, <1>2, <1>3, ConnKept DEF ServerInv

\* select has failed: the pipeline is taken down.
LEMMA VideoStopStep ==
  ASSUME ServerInv, VideoStop PROVE ServerInv'
<1>0. TypeInv /\ PhaseInv /\ OwnersInv /\ ConnInv /\ QueueInv /\ ReadyInv
  BY DEF ServerInv
<1>1. /\ pc = "stop" /\ pc' = "close" /\ video' = "gone" /\ device' = NoFd
      /\ UNCHANGED <<file, server, client, sub, subOpen, taken, ready, queue>>
      /\ conn' = [c \in Clients |-> IF sub # NoFd /\ conn[c].fd = sub
                                    THEN [conn[c] EXCEPT !.hung = TRUE] ELSE conn[c]]
  BY DEF VideoStop, Step, subdev
<1>2. ASSUME NEW c \in Clients
      PROVE  conn'[c] \in Conns /\ conn'[c].used = conn[c].used /\ conn'[c].fd = conn[c].fd
  BY <1>0, <1>1 DEF TypeInv, Conns
<1>3. TypeInv'
  <2>1. conn' \in [Clients -> Conns]
    BY <1>1, <1>2
  <2> QED BY <1>0, <1>1, <2>1 DEF TypeInv
<1>4. PhaseInv' /\ OwnersInv'
  BY <1>0, <1>1 DEF PhaseInv, OwnersInv, Serving, Listening
<1>5. ConnInv'
  BY <1>0, <1>1, <1>2 DEF ConnInv
<1>6. QueueInv'
  <2>1. \A i \in DOMAIN queue : queue[i] \in Clients
    BY <1>0 DEF TypeInv
  <2> QED BY <1>0, <1>1, <1>2, <2>1 DEF QueueInv
<1>7. ReadyInv'
  BY <1>1 DEF ReadyInv
<1> QED BY <1>3, <1>4, <1>5, <1>6, <1>7 DEF ServerInv

\* A step that writes to one connection.
LEMMA OneConn ==
  ASSUME TypeInv, NEW c \in Clients, NEW v \in Conns, conn' = [conn EXCEPT ![c] = v]
  PROVE  /\ conn' \in [Clients -> Conns] /\ conn'[c] = v
         /\ \A d \in Clients : d # c => conn'[d] = conn[d]
BY DEF TypeInv

\* accept: the first one that waits gets a descriptor nobody has.
LEMMA AcceptStep ==
  ASSUME ServerInv, Accept PROVE ServerInv'
<1>0. TypeInv /\ PhaseInv /\ OwnersInv /\ ConnInv /\ QueueInv /\ ReadyInv
  BY DEF ServerInv
<1>1. /\ pc = "accept" /\ pc' = "replace" /\ taken = NoFd
      /\ UNCHANGED <<video, file, server, client, sub, subOpen, device, ready>>
  BY <1>0 DEF Accept, Step, PhaseInv, subdev
<1>2. CASE UNCHANGED <<taken, queue, conn>>
  <2>1. TypeInv' /\ PhaseInv' /\ OwnersInv'
    BY <1>0, <1>1, <1>2 DEF TypeInv, PhaseInv, OwnersInv, Serving, Listening
  <2>2. ReadyInv'
    BY <1>0, <1>1, <1>2, ConnKept DEF ReadyInv
  <2> QED BY <1>1, <1>2, <2>1, <2>2, ConnKept DEF ServerInv
<1>3. ASSUME queue # <<>>, taken' = LowestFree, queue' = Tail(queue),
             conn' = [conn EXCEPT ![Head(queue)].fd = LowestFree]
      PROVE  ServerInv'
  <2> DEFINE h == Head(queue)
             v == [conn[h] EXCEPT !.fd = LowestFree]
  <2>1. /\ LowestFree \in Fds /\ LowestFree # NoFd
        /\ LowestFree \notin {server, client, device, taken} /\ (subOpen => LowestFree # sub)
        /\ \A c \in Clients : conn[c].fd # LowestFree
    BY <1>0, Free
  <2>2. /\ h \in Clients /\ 1 \in DOMAIN queue /\ h = queue[1]
        /\ queue' \in Seq(Clients) /\ DOMAIN queue' = 1 .. Len(queue')
        /\ \A i \in DOMAIN queue' : i + 1 \in DOMAIN queue /\ queue'[i] = queue[i + 1] /\ i + 1 # 1
    <3>1. queue \in Seq(Clients)
      BY <1>0 DEF TypeInv
    <3>2. Len(queue) \in Nat /\ Len(queue) >= 1 /\ DOMAIN queue = 1 .. Len(queue)
      BY <1>3, <3>1
    <3>3. /\ queue' \in Seq(Clients) /\ Len(queue') = Len(queue) - 1
          /\ \A i \in 1 .. Len(queue') : queue'[i] = queue[i + 1]
      BY <1>3, <3>1, <3>2
    <3>4. DOMAIN queue' = 1 .. Len(queue')
      BY <3>3
    <3>5. h \in Clients /\ h = queue[1]
      BY <1>3, <3>1
    <3> QED BY <3>2, <3>3, <3>4, <3>5
  <2>3. /\ v \in Conns /\ v.fd = LowestFree /\ v.data = conn[h].data /\ v.hung = conn[h].hung
    BY <1>0, <2>1, <2>2 DEF TypeInv, Conns
  <2>4. conn' = [conn EXCEPT ![h] = v]
    BY <1>0, <1>3, <2>2 DEF TypeInv
  <2>5. conn[h].fd = NoFd
    BY <1>0, <2>2 DEF QueueInv
  <2> HIDE DEF h, v
  <2>6. /\ conn' \in [Clients -> Conns] /\ conn'[h] = v
        /\ \A d \in Clients : d # h => conn'[d] = conn[d]
    BY <1>0, <2>2, <2>3, <2>4, OneConn
  <2>7. TypeInv'
    BY <1>0, <1>1, <1>3, <2>1, <2>2, <2>6 DEF TypeInv
  <2>8. PhaseInv'
    BY <1>0, <1>1 DEF PhaseInv, Serving, Listening
  <2>9. OwnersInv'
    BY <1>0, <1>1, <1>3, <2>1 DEF OwnersInv
  <2>10. ConnInv'
    <3>1. \A c \in Clients : conn'[c].fd \in {NoFd, client', taken'}
      BY <1>0, <1>1, <1>3, <2>3, <2>6 DEF ConnInv
    <3>2. \A c, d \in Clients : conn'[c].fd = conn'[d].fd /\ conn'[c].fd # NoFd => c = d
      BY <1>0, <2>1, <2>3, <2>6 DEF ConnInv
    <3> QED BY <3>1, <3>2 DEF ConnInv
  <2>11. QueueInv'
    <3>1. \A i \in DOMAIN queue' : queue'[i] \in Clients /\ queue'[i] # h
      BY <1>0, <2>2 DEF QueueInv, TypeInv
    <3>2. \A i \in DOMAIN queue' : conn'[queue'[i]].used /\ conn'[queue'[i]].fd = NoFd
      BY <1>0, <2>2, <2>6, <3>1 DEF QueueInv
    <3>3. ASSUME NEW i \in DOMAIN queue', NEW j \in DOMAIN queue', queue'[i] = queue'[j]
          PROVE  i = j
      <4>1. i + 1 = j + 1 /\ i \in Int /\ j \in Int
        BY <1>0, <2>2, <3>3 DEF QueueInv
      <4> QED BY <4>1
    <3> QED BY <3>2, <3>3 DEF QueueInv
  <2>12. ReadyInv'
    <3>1. Answers(client) /\ client # NoFd => Answers(client)'
      BY <1>1, <2>5, <2>6 DEF Answers
    <3>2. client \in ready => client # NoFd
      BY <1>0, ServerAssumption DEF TypeInv, NoFd
    <3> QED BY <1>0, <1>1, <3>1, <3>2 DEF ReadyInv
  <2> QED BY <2>7, <2>8, <2>9, <2>10, <2>11, <2>12 DEF ServerInv
<1> QED BY <1>2, <1>3 DEF Accept, peers

\* The new client takes the place of the previous one: it is not in read_fds.
LEMMA ReplaceStep ==
  ASSUME ServerInv, Replace PROVE ServerInv'
<1>0. TypeInv /\ PhaseInv /\ OwnersInv /\ ConnInv /\ QueueInv /\ ReadyInv
  BY DEF ServerInv
<1>1. /\ pc = "replace" /\ pc' = "check" /\ taken' = NoFd
      /\ UNCHANGED <<video, file, server, sub, subOpen, device, ready, queue>>
  BY DEF Replace, Step, subdev
<1>2. NoFd \notin ready
  BY <1>0, ServerAssumption DEF TypeInv, NoFd
<1>3. CASE taken = NoFd
  <2>1. UNCHANGED <<client, taken, queue, conn>>
    BY <1>1, <1>3 DEF Replace
  <2>2. TypeInv' /\ PhaseInv' /\ OwnersInv'
    BY <1>0, <1>1, <2>1 DEF TypeInv, PhaseInv, OwnersInv, Serving, Listening
  <2>3. ReadyInv'
    BY <1>0, <1>1, <2>1, ConnKept DEF ReadyInv
  <2> QED BY <2>1, <2>2, <2>3, ConnKept DEF ServerInv
<1>4. CASE taken # NoFd
  <2>1. /\ client' = taken
        /\ conn' = [c \in Clients |-> IF c \in ConnOf(client) /\ client # NoFd
                                      THEN [conn[c] EXCEPT !.fd = NoFd] ELSE conn[c]]
    BY <1>4 DEF Replace
  <2>2. ASSUME NEW c \in Clients
        PROVE  /\ conn'[c] \in Conns /\ conn'[c].used = conn[c].used
               /\ conn'[c].fd = IF conn[c].fd = client THEN NoFd ELSE conn[c].fd
    BY <1>0, <2>1 DEF TypeInv, Conns, ConnOf
  <2>3. TypeInv'
    <3>1. conn' \in [Clients -> Conns]
      BY <2>1, <2>2
    <3> QED BY <1>0, <1>1, <2>1, <3>1 DEF TypeInv
  <2>4. PhaseInv'
    BY <1>0, <1>1 DEF PhaseInv, Serving, Listening
  <2>5. OwnersInv'
    BY <1>0, <1>1, <2>1 DEF OwnersInv
  <2>6. ConnInv'
    BY <1>0, <1>1, <2>1, <2>2, ZenonT(60) DEF ConnInv
  <2>7. QueueInv'
    <3>1. \A i \in DOMAIN queue : queue[i] \in Clients
      BY <1>0 DEF TypeInv
    <3> QED BY <1>0, <1>1, <2>2, <3>1 DEF QueueInv
  <2>8. client' \notin ready
    BY <1>0, <1>1, <1>4, <2>1 DEF ReadyInv, OwnersInv
  <2> QED BY <1>1, <2>3, <2>4, <2>5, <2>6, <2>7, <2>8 DEF ServerInv, ReadyInv
<1> QED BY <1>3, <1>4

\* A byte is read, or the end of the connection, which closes it.
LEMMA ReadStep ==
  ASSUME ServerInv, Read PROVE ServerInv'
<1>0. TypeInv /\ PhaseInv /\ OwnersInv /\ ConnInv /\ QueueInv /\ ReadyInv
  BY DEF ServerInv
<1>1. /\ pc = "read" /\ pc' = "loop"
      /\ UNCHANGED <<video, file, server, sub, subOpen, device, taken, ready, queue>>
  BY DEF Read, Step, subdev
<1>2. PICK c \in ConnOf(client) :
        \/ conn' = [conn EXCEPT ![c].data = FALSE] /\ client' = client
        \/ conn' = [conn EXCEPT ![c].fd = NoFd] /\ client' = NoFd
  BY DEF Read
<1>3. c \in Clients /\ conn[c].fd = client /\ taken = NoFd
  BY <1>0, <1>1 DEF ConnOf, PhaseInv
<1>4. PICK v \in Conns : /\ conn' = [conn EXCEPT ![c] = v] /\ v.fd = client'
                         /\ v.used = conn[c].used /\ client' \in {client, NoFd}
  <2>1. conn[c] \in Conns
    BY <1>0, <1>3 DEF TypeInv
  <2>2. CASE conn' = [conn EXCEPT ![c].data = FALSE] /\ client' = client
    <3> DEFINE v == [conn[c] EXCEPT !.data = FALSE]
    <3>1. v \in Conns /\ v.fd = client' /\ v.used = conn[c].used
      BY <1>3, <2>1, <2>2 DEF Conns
    <3>2. conn' = [conn EXCEPT ![c] = v]
      BY <1>0, <1>3, <2>2 DEF TypeInv
    <3> QED BY <2>2, <3>1, <3>2
  <2>3. CASE conn' = [conn EXCEPT ![c].fd = NoFd] /\ client' = NoFd
    <3> DEFINE v == [conn[c] EXCEPT !.fd = NoFd]
    <3>1. v \in Conns /\ v.fd = client' /\ v.used = conn[c].used
      BY <1>3, <2>1, <2>3 DEF Conns
    <3>2. conn' = [conn EXCEPT ![c] = v]
      BY <1>0, <1>3, <2>3 DEF TypeInv
    <3> QED BY <2>3, <3>1, <3>2
  <2> QED BY <1>2, <2>2, <2>3
<1>5. /\ conn' \in [Clients -> Conns] /\ conn'[c] = v
      /\ \A d \in Clients : d # c => conn'[d] = conn[d]
  BY <1>0, <1>3, <1>4, OneConn
<1>6. client \in Fds \cup {NoFd}
  BY <1>0 DEF TypeInv
<1>7. TypeInv' /\ PhaseInv' /\ OwnersInv'
  <2>1. TypeInv'
    BY <1>0, <1>1, <1>4, <1>5, <1>6 DEF TypeInv
  <2>2. PhaseInv'
    BY <1>0, <1>1 DEF PhaseInv, Serving, Listening
  <2>3. OwnersInv'
    BY <1>0, <1>1, <1>4 DEF OwnersInv
  <2> QED BY <2>1, <2>2, <2>3
<1>8. ConnInv'
  <2>1. \A d \in Clients : d # c => conn[d].fd = NoFd \/ conn[d].fd # client
    BY <1>0, <1>3 DEF ConnInv
  <2>2. \A d \in Clients : d # c => conn'[d].fd = NoFd
    BY <1>0, <1>3, <1>5, <2>1 DEF ConnInv
  <2> QED BY <1>1, <1>4, <1>5, <2>2 DEF ConnInv
<1>9. QueueInv'
  <2>1. \A i \in DOMAIN queue : queue[i] \in Clients
    BY <1>0 DEF TypeInv
  <2>2. \A i \in DOMAIN queue : conn'[queue[i]].used /\ conn'[queue[i]].fd = NoFd
    BY <1>0, <1>3, <1>4, <1>5, <2>1 DEF QueueInv
  <2> QED BY <1>0, <1>1, <2>2 DEF QueueInv
<1>10. ReadyInv'
  BY <1>1 DEF ReadyInv
<1> QED BY <1>7, <1>8, <1>9, <1>10 DEF ServerInv

\* The last steps of main after an error of select.
LEMMA CloseStep ==
  ASSUME ServerInv, Close PROVE ServerInv'
<1>0. TypeInv /\ PhaseInv /\ OwnersInv /\ ConnInv /\ QueueInv /\ ReadyInv
  BY DEF ServerInv
<1>1. /\ pc = "close" /\ pc' = "exit" /\ client' = NoFd /\ server' = NoFd /\ file' \in {FALSE, file}
      /\ UNCHANGED <<video, sub, subOpen, device, taken, ready, queue>>
      /\ conn' = [c \in Clients |-> IF conn[c].fd = client THEN [conn[c] EXCEPT !.fd = NoFd]
                                    ELSE conn[c]]
  BY DEF Close, Step, subdev
<1>2. taken = NoFd
  BY <1>0, <1>1 DEF PhaseInv
<1>3. ASSUME NEW c \in Clients
      PROVE  conn'[c] \in Conns /\ conn'[c].used = conn[c].used /\ conn'[c].fd = NoFd
  BY <1>0, <1>1, <1>2 DEF TypeInv, Conns, ConnInv
<1>4. TypeInv'
  <2>1. conn' \in [Clients -> Conns]
    BY <1>1, <1>3
  <2> QED BY <1>0, <1>1, <2>1 DEF TypeInv
<1>5. PhaseInv' /\ OwnersInv'
  BY <1>0, <1>1 DEF PhaseInv, OwnersInv, Serving, Listening
<1>6. ConnInv'
  BY <1>3 DEF ConnInv
<1>7. QueueInv'
  <2>1. \A i \in DOMAIN queue : queue[i] \in Clients
    BY <1>0 DEF TypeInv
  <2> QED BY <1>0, <1>1, <1>3, <2>1 DEF QueueInv
<1> QED BY <1>1, <1>4, <1>5, <1>6, <1>7 DEF ServerInv, ReadyInv

\* The process ends, by itself or not.
LEMMA EndStep ==
  ASSUME ServerInv, End PROVE ServerInv'
<1>1. NoConn \in Conns /\ NoConn.fd = NoFd
  BY DEF NoConn, Conns
<1>2. \A c \in Clients : conn'[c] = NoConn
  BY DEF End
<1>3. TypeInv'
  BY <1>1 DEF End, TypeInv, ServerInv
<1>4. PhaseInv' /\ OwnersInv'
  BY DEF End, PhaseInv, OwnersInv, Serving, Listening
<1>5. ConnInv'
  BY <1>1, <1>2 DEF ConnInv
<1>6. QueueInv' /\ ReadyInv'
  BY DEF End, QueueInv, ReadyInv
<1> QED BY <1>3, <1>4, <1>5, <1>6 DEF ServerInv

\* A step of a client: only its own connection changes, and no descriptor.
LEMMA ClientStep ==
  ASSUME ServerInv, NEW c \in Clients, Client(c) PROVE ServerInv'
<1>0. TypeInv /\ PhaseInv /\ OwnersInv /\ ConnInv /\ QueueInv /\ ReadyInv
  BY DEF ServerInv
<1>1. UNCHANGED <<pc, video, file, server, client, sub, subOpen, device, taken, ready>>
  BY DEF Client, Connect, Send, Hang, Return, files, subdev
<1>2. conn[c] \in Conns /\ NoConn \in Conns
  BY <1>0 DEF TypeInv, NoConn, Conns
<1>3. PICK v \in Conns :
        /\ conn' = [conn EXCEPT ![c] = v] /\ v.fd = conn[c].fd
        /\ conn[c].fd # NoFd => (conn[c].data => v.data) /\ (conn[c].hung => v.hung)
        /\ \/ queue' = queue /\ v.used = conn[c].used
           \/ queue' = queue /\ \A i \in DOMAIN queue : queue[i] # c
           \/ queue' = Append(queue, c) /\ ~conn[c].used /\ v.used /\ v.fd = NoFd
  <2>1. CASE Connect(c)
    <3> DEFINE v == [conn[c] EXCEPT !.used = TRUE]
    <3>1. conn[c].fd = NoFd /\ ~conn[c].used
      BY <2>1 DEF Connect, NoConn
    <3>2. v \in Conns /\ v.fd = conn[c].fd /\ v.used
      BY <1>2 DEF Conns
    <3>3. conn' = [conn EXCEPT ![c] = v] /\ queue' = Append(queue, c)
      BY <1>0, <2>1 DEF Connect, TypeInv
    <3> QED BY <3>1, <3>2, <3>3
  <2>2. CASE Send(c)
    <3> DEFINE v == [conn[c] EXCEPT !.data = TRUE]
    <3>1. /\ v \in Conns /\ v.fd = conn[c].fd /\ v.used = conn[c].used /\ v.data
          /\ v.hung = conn[c].hung
      BY <1>2 DEF Conns
    <3>2. conn' = [conn EXCEPT ![c] = v] /\ queue' = queue
      BY <1>0, <2>2 DEF Send, TypeInv
    <3> QED BY <3>1, <3>2
  <2>3. CASE Hang(c)
    <3> DEFINE v == [conn[c] EXCEPT !.hung = TRUE]
    <3>1. /\ v \in Conns /\ v.fd = conn[c].fd /\ v.used = conn[c].used /\ v.hung
          /\ v.data = conn[c].data
      BY <1>2 DEF Conns
    <3>2. conn' = [conn EXCEPT ![c] = v] /\ queue' = queue
      BY <1>0, <2>3 DEF Hang, TypeInv
    <3> QED BY <3>1, <3>2
  <2>4. CASE Return(c)
    <3>1. NoConn.fd = conn[c].fd /\ conn[c].fd = NoFd
      BY <2>4 DEF Return, NoConn
    <3> QED BY <1>2, <2>4, <3>1 DEF Return
  <2> QED BY <2>1, <2>2, <2>3, <2>4 DEF Client
<1>4. /\ conn' \in [Clients -> Conns] /\ conn'[c] = v
      /\ \A d \in Clients : d # c => conn'[d] = conn[d]
  BY <1>0, <1>3, OneConn
<1>5. TypeInv'
  <2>1. queue \in Seq(Clients)
    BY <1>0 DEF TypeInv
  <2>2. queue' \in Seq(Clients)
    BY <1>3, <2>1
  <2> QED BY <1>0, <1>1, <1>4, <2>2 DEF TypeInv
<1>6. PhaseInv' /\ OwnersInv'
  BY <1>0, <1>1 DEF PhaseInv, OwnersInv, Serving, Listening
<1>7. ConnInv'
  <2>1. \A d \in Clients : conn'[d].fd = conn[d].fd
    BY <1>3, <1>4
  <2> QED BY <1>0, <1>1, <2>1 DEF ConnInv
<1>8. QueueInv'
  <2>1. queue \in Seq(Clients) /\ \A i \in DOMAIN queue : queue[i] \in Clients
    BY <1>0 DEF TypeInv
  <2>2. CASE queue' = queue
    <3>1. ASSUME NEW i \in DOMAIN queue
          PROVE  conn'[queue[i]].used /\ conn'[queue[i]].fd = NoFd
      <4>1. conn[queue[i]].used /\ conn[queue[i]].fd = NoFd
        BY <1>0 DEF QueueInv
      <4>2. CASE queue[i] # c
        BY <1>4, <2>1, <4>1, <4>2
      <4>3. CASE queue[i] = c
        BY <1>3, <1>4, <2>1, <4>1, <4>3
      <4> QED BY <4>2, <4>3
    <3> QED BY <1>0, <2>2, <3>1 DEF QueueInv
  <2>3. ASSUME queue' = Append(queue, c), ~conn[c].used, v.used, v.fd = NoFd PROVE QueueInv'
    <3>1. /\ DOMAIN queue' = 1 .. (Len(queue) + 1) /\ DOMAIN queue = 1 .. Len(queue)
          /\ Len(queue) \in Nat /\ queue'[Len(queue) + 1] = c
          /\ \A i \in 1 .. Len(queue) : queue'[i] = queue[i]
      BY <2>1, <2>3
    <3>2. \A i \in DOMAIN queue : queue[i] # c
      BY <1>0, <2>3 DEF QueueInv
    <3>3. \A i \in DOMAIN queue' : i \in DOMAIN queue \/ i = Len(queue) + 1
      BY <3>1
    <3>4. \A i \in DOMAIN queue' : conn'[queue'[i]].used /\ conn'[queue'[i]].fd = NoFd
      BY <1>0, <1>4, <2>1, <2>3, <3>1, <3>2, <3>3 DEF QueueInv
    <3>5. \A i, j \in DOMAIN queue' : queue'[i] = queue'[j] => i = j
      BY <1>0, <3>1, <3>2, <3>3 DEF QueueInv
    <3> QED BY <3>4, <3>5 DEF QueueInv
  <2>4. queue' = queue \/ (queue' = Append(queue, c) /\ ~conn[c].used /\ v.used /\ v.fd = NoFd)
    BY <1>3
  <2> QED BY <2>2, <2>3, <2>4
<1>9. ReadyInv'
  <2>1. client # NoFd /\ Answers(client) => Answers(client)'
    <3> SUFFICES ASSUME client # NoFd, NEW d \in Clients, conn[d].fd = client,
                        conn[d].data \/ conn[d].hung
                 PROVE  conn'[d].fd = client /\ (conn'[d].data \/ conn'[d].hung)
      BY <1>1 DEF Answers
    <3>1. CASE d = c
      BY <1>3, <1>4, <3>1
    <3>2. CASE d # c
      BY <1>4, <3>2
    <3> QED BY <3>1, <3>2
  <2>2. client \in ready => client # NoFd
    BY <1>0, ServerAssumption DEF TypeInv, NoFd
  <2> QED BY <1>0, <1>1, <2>1, <2>2 DEF ReadyInv
<1> QED BY <1>5, <1>6, <1>7, <1>8, <1>9 DEF ServerInv

\* Every step keeps the invariant.
LEMMA ServerInvStep == ServerInv /\ [Next]_vars => ServerInv'
<1> SUFFICES ASSUME ServerInv, [Next]_vars PROVE ServerInv'
  OBVIOUS
<1>1. CASE Main
  BY <1>1, StartUpStep, SelectStep, AcceptStep, ReplaceStep, CheckStep, ReadStep, VideoStopStep,
     CloseStep, EndStep DEF Main, Exit
<1>2. CASE Kill
  BY <1>2, EndStep DEF Kill
<1>3. CASE UNCHANGED vars
  <2>1. UNCHANGED <<pc, video, file, server, client, sub, subOpen, device, taken, ready, queue, conn>>
    BY <1>3 DEF vars
  <2>2. TypeInv' /\ PhaseInv' /\ OwnersInv'
    BY <2>1 DEF ServerInv, TypeInv, PhaseInv, OwnersInv, Serving, Listening
  <2>3. ReadyInv'
    BY <2>1, ConnKept DEF ServerInv, ReadyInv
  <2> QED BY <2>1, <2>2, <2>3, ConnKept DEF ServerInv
<1> QED BY <1>1, <1>2, <1>3, DeviceStep, DetectorStep, ClientStep DEF Next

\* The inductive invariant of the daemon holds.
LEMMA ServerInvHolds == Spec => []ServerInv
BY ServerInvInit, ServerInvStep, PTL DEF Spec

----------------------------------------------------------------------------
(* The theorems. *)

\* For any clients and any table with a descriptor to spare, the read of main
\* never blocks its loop, although accept may give the new client any number
\* that was freed meanwhile.
THEOREM ReadReturns == Spec => []ReadNeverBlocks
<1>1. ServerInv => ReadNeverBlocks
  BY DEF ServerInv, ReadyInv, Answers, ReadNeverBlocks, Readable, ConnOf
<1> QED BY <1>1, ServerInvHolds, PTL

\* The program keeps no connection but the current one, no open descriptor has
\* two owners although the detector's number is free again once it has ended,
\* and a main that returns has closed its sockets and stopped the pipeline.
THEOREM ServerResources == Spec => []ResourcesSound
<1>1. ASSUME ServerInv PROVE ResourcesSound
  <2>0. PhaseInv /\ OwnersInv /\ ConnInv
    BY <1>1 DEF ServerInv
  <2>1. NoLostDescriptor
    <3>1. pc = "loop" => \A c \in Clients : conn[c].fd \in {NoFd, client}
      BY <2>0 DEF PhaseInv, ConnInv
    <3> DEFINE own == <<server, client, IF subOpen THEN sub ELSE NoFd, device>>
    <3>2. own[1] = server /\ own[2] = client /\ own[3] = (IF subOpen THEN sub ELSE NoFd) /\ own[4] = device
      OBVIOUS
    <3> HIDE DEF own
    <3>3. ASSUME NEW i \in 1 .. 4, NEW j \in 1 .. 4, i # j PROVE own[i] = NoFd \/ own[i] # own[j]
      BY <2>0, <3>2, <3>3 DEF OwnersInv
    <3> QED BY <3>1, <3>3 DEF NoLostDescriptor, own
  <2>2. CleanReturn
    BY <2>0 DEF PhaseInv, ConnInv, CleanReturn, Serving, Listening
  <2> QED BY <2>1, <2>2 DEF ResourcesSound
<1> QED BY <1>1, ServerInvHolds, PTL
==============================================================================
