----------------------------- MODULE VideoServer -----------------------------
(***************************************************************************)
(* The stand-alone capture program of internal/native/cgo/main.c: it       *)
(* starts the video pipeline, listens on a socket, keeps the client that   *)
(* connected last, and takes everything down again when select fails.      *)
(*                                                                         *)
(* Descriptors are numbers of one table, of which open, socket and accept  *)
(* take the lowest free one, and which the streaming thread uses too.  The *)
(* detector closes its own when it ends, but the variable keeps the number.*)
(***************************************************************************)
EXTENDS Integers, Sequences, FiniteSets

CONSTANTS Clients,   \* programs that connect to the socket
          Fds,       \* the descriptor table, without 0, 1 and 2
          Runs       \* bound: how often the program is started

ASSUME ServerAssumption ==
  /\ Fds \subseteq Nat /\ IsFiniteSet(Fds)
  /\ Cardinality(Fds) >= 6   \* sub_dev_fd, server_fd, two clients, the device, one spare
  /\ Runs \in Nat

Backlog == 2   \* what listen(server_fd, 1) lets wait
NoFd == -1

VARIABLES
  pc,       \* where main is
  runs,     \* times the program was started
  video,    \* the pipeline: off, ready, up, down or gone
  file,     \* the socket's path exists
  server,   \* server_fd
  client,   \* client_fd
  sub,      \* sub_dev_fd
  subOpen,  \* the sub-device is open: sub is its number, and not a stale one
  device,   \* video_dev_fd of the streaming thread
  taken,    \* accepted_fd between accept and the assignment
  ready,    \* read_fds after select
  queue,    \* connections waiting for accept
  conn      \* per client: its connection

vars == <<pc, runs, video, file, server, client, sub, subOpen, device, taken, ready, queue, conn>>
subdev == <<sub, subOpen>>
files == <<server, client, subdev, device, taken>>
peers == <<queue, conn>>

Open == ({server, client, device, taken, IF subOpen THEN sub ELSE NoFd}
           \cup {conn[c].fd : c \in Clients}) \ {NoFd}
LowestFree == CHOOSE f \in Fds \ Open : \A g \in Fds \ Open : f <= g

NoConn == [fd |-> NoFd, data |-> FALSE, hung |-> FALSE, used |-> FALSE]
ConnOf(fd) == {c \in Clients : conn[c].fd = fd}

Readable(fd) ==
  \/ fd = server /\ queue # <<>>
  \/ \E c \in ConnOf(fd) : conn[c].data \/ conn[c].hung

----------------------------------------------------------------------------
(* Start-up: every failure takes down what was set up before it. *)

Step(from, to) == pc = from /\ pc' = to

\* The old path is removed, or is not, which nobody looks at, and the handlers
\* are set.
Start ==
  /\ Step("exited", "init") /\ runs < Runs
  /\ runs' = runs + 1 /\ video' = "off" /\ file' \in {FALSE, file}
  /\ UNCHANGED <<files, ready, peers>>

\* jetkvm_video_init: the system, the sub-device, the pool, the detector.  A
\* failure leaves the sub-device to the end of the process.
VideoInit ==
  /\ pc = "init"
  /\ \/ pc' = "start" /\ video' = "ready" /\ sub' = LowestFree
     \/ pc' = "exit" /\ UNCHANGED video /\ sub' \in {NoFd, LowestFree}
  /\ subOpen' = (sub' # NoFd)
  /\ UNCHANGED <<runs, file, server, client, device, taken, ready, peers>>

VideoStart ==
  /\ Step("start", "socket")
  /\ video' = "up"
  /\ UNCHANGED <<runs, file, files, ready, peers>>

Socket ==
  /\ pc = "socket"
  /\ \/ pc' = "fcntl" /\ server' = LowestFree
     \/ pc' = "fail" /\ UNCHANGED server
  /\ UNCHANGED <<runs, video, file, client, subdev, device, taken, ready, peers>>

\* The socket is made non-blocking, bound, to a path that does not exist, and
\* listened on.
Configure(from, to) ==
  /\ pc = from
  /\ pc' \in {to, "fail"} /\ (from = "bind" /\ pc' = to => ~file)
  /\ file' = (file \/ (from = "bind" /\ pc' = to))
  /\ UNCHANGED <<runs, video, files, ready, peers>>

\* The error returns: the socket is closed, the pipeline stopped and shut down,
\* which shuts down no connection, as none was accepted.
Fail ==
  /\ Step("fail", "exit")
  /\ server' = NoFd
  /\ video' = "gone" /\ device' = NoFd
  /\ UNCHANGED <<runs, file, client, subdev, taken, ready, peers>>

----------------------------------------------------------------------------
(* The loop. *)

\* select over the server and the client: what is readable, nothing after a
\* second, or an error; after EINTR the loop begins again.
Select ==
  /\ pc = "loop"
  /\ \/ /\ pc' = "accept"
        /\ ready' = {fd \in {server, client} \ {NoFd} : Readable(fd)}
     \/ pc' = "stop" /\ UNCHANGED ready
  /\ UNCHANGED <<runs, video, file, files, peers>>

\* Mutant: the previous client is closed before the next one is accepted.
AcceptAfterClose ==
  /\ Step("accept", "replace")
  /\ IF server \in ready /\ queue # <<>>
     THEN LET old  == ConnOf(client)
              free == (Fds \ Open) \cup ({client} \ {NoFd})
              fd   == CHOOSE f \in free : \A g \in free : f <= g
          IN /\ taken' = fd /\ client' = NoFd
             /\ conn' = [c \in Clients |-> IF c = Head(queue) THEN [conn[c] EXCEPT !.fd = fd]
                                           ELSE IF c \in old THEN [conn[c] EXCEPT !.fd = NoFd]
                                           ELSE conn[c]]
             /\ queue' = Tail(queue)
     ELSE UNCHANGED <<taken, client, peers>>
  /\ UNCHANGED <<runs, video, file, server, subdev, device, ready>>

\* accept on the server, when select said so; it may fail.
Accept ==
  /\ Step("accept", "replace")
  /\ \/ /\ server \in ready /\ queue # <<>>
        /\ taken' = LowestFree
        /\ conn' = [conn EXCEPT ![Head(queue)].fd = LowestFree]
        /\ queue' = Tail(queue)
     \/ UNCHANGED <<taken, peers>>
  /\ UNCHANGED <<runs, video, file, server, client, subdev, device, ready>>

\* The previous client is closed, the new one takes its place.  (Mutant: the
\* previous one is forgotten.)
ReplaceForgets ==
  /\ Step("replace", "check")
  /\ taken' = NoFd
  /\ client' = IF taken # NoFd THEN taken ELSE client
  /\ UNCHANGED <<runs, video, file, server, subdev, device, ready, peers>>
Replace ==
  /\ Step("replace", "check")
  /\ taken' = NoFd
  /\ IF taken # NoFd
     THEN /\ client' = taken
          /\ conn' = [c \in Clients |-> IF c \in ConnOf(client) /\ client # NoFd
                                        THEN [conn[c] EXCEPT !.fd = NoFd] ELSE conn[c]]
     ELSE UNCHANGED <<client, conn>>
  /\ UNCHANGED <<runs, video, file, server, subdev, device, ready, queue>>

\* FD_ISSET of the client, which may be another one than select looked at.
Check ==
  /\ pc = "check"
  /\ pc' = IF client # NoFd /\ client \in ready THEN "read" ELSE "loop"
  /\ UNCHANGED <<runs, video, file, files, ready, peers>>

\* One byte is read, or the client is gone.  (Mutant: the end is not noticed.)
ReadBlind ==
  /\ Step("read", "loop")
  /\ conn' = [c \in Clients |-> IF conn[c].fd = client THEN [conn[c] EXCEPT !.data = FALSE]
                                ELSE conn[c]]
  /\ UNCHANGED <<runs, video, file, files, ready, queue>>
Read ==
  /\ Step("read", "loop")
  /\ \E c \in ConnOf(client) :
       /\ conn[c].data \/ conn[c].hung
       /\ IF conn[c].data
          THEN conn' = [conn EXCEPT ![c].data = FALSE] /\ UNCHANGED client
          ELSE conn' = [conn EXCEPT ![c].fd = NoFd] /\ client' = NoFd
  /\ UNCHANGED <<runs, video, file, server, subdev, device, taken, ready, queue>>

\* After an error of select: the pipeline, the client, the socket, its path.
\* video_shutdown shuts down what has the number in sub_dev_fd, which is the
\* client's connection if the detector has ended and accept took the number;
\* shutdown of a device does nothing, and the server accepts no more.
VideoStop ==
  /\ Step("stop", "close")
  /\ video' = "gone" /\ device' = NoFd
  /\ conn' = [c \in Clients |-> IF sub # NoFd /\ conn[c].fd = sub
                                THEN [conn[c] EXCEPT !.hung = TRUE] ELSE conn[c]]
  /\ UNCHANGED <<runs, file, server, client, subdev, taken, ready, queue>>

Close ==
  /\ Step("close", "exit")
  /\ client' = NoFd /\ server' = NoFd /\ file' \in {FALSE, file}
  /\ conn' = [c \in Clients |-> IF conn[c].fd = client THEN [conn[c] EXCEPT !.fd = NoFd]
                                ELSE conn[c]]
  /\ UNCHANGED <<runs, video, subdev, device, taken, ready, queue>>

\* The process ends, which closes what is left of its descriptors, and who
\* still waits for accept is refused.
End ==
  /\ pc' = "exited"
  /\ server' = NoFd /\ client' = NoFd /\ device' = NoFd /\ taken' = NoFd
  /\ sub' = NoFd /\ subOpen' = FALSE
  /\ video' = "off" /\ ready' = {}
  /\ queue' = <<>>
  /\ conn' = [c \in Clients |-> NoConn]
  /\ UNCHANGED <<runs, file>>
Exit == pc = "exit" /\ End
Kill == pc \notin {"exit", "exited"} /\ End

Main ==
  \/ Start \/ VideoInit \/ VideoStart \/ Socket
  \/ Configure("fcntl", "bind") \/ Configure("bind", "listen") \/ Configure("listen", "loop")
  \/ Fail \/ Select \/ Accept \/ Replace \/ Check \/ Read \/ VideoStop \/ Close
  \/ Exit

----------------------------------------------------------------------------
(* Around it: clients, the streaming thread's device, and the detector. *)

Connect(c) ==
  /\ pc \in {"loop", "accept", "replace", "check", "read"}
  /\ conn[c] = NoConn /\ Len(queue) < Backlog
  /\ queue' = Append(queue, c)
  /\ conn' = [conn EXCEPT ![c].used = TRUE]
  /\ UNCHANGED <<pc, runs, video, file, files, ready>>

Send(c) ==
  /\ conn[c].used /\ ~conn[c].hung /\ ~conn[c].data
  /\ conn' = [conn EXCEPT ![c].data = TRUE]
  /\ UNCHANGED <<pc, runs, video, file, files, ready, queue>>

Hang(c) ==
  /\ conn[c].used /\ ~conn[c].hung
  /\ conn' = [conn EXCEPT ![c].hung = TRUE]
  /\ UNCHANGED <<pc, runs, video, file, files, ready, queue>>

\* A client the server has left, or that has left, may come back.
Return(c) ==
  /\ conn[c].used /\ conn[c].fd = NoFd /\ \A i \in DOMAIN queue : queue[i] # c
  /\ conn' = [conn EXCEPT ![c] = NoConn]
  /\ UNCHANGED <<pc, runs, video, file, files, ready, queue>>

DeviceToggle ==
  /\ video = "up"
  /\ device' = IF device = NoFd THEN LowestFree ELSE NoFd
  /\ UNCHANGED <<pc, runs, video, file, server, client, subdev, taken, ready, peers>>

\* The detector ends: it could not subscribe, an event could not be taken, or the
\* pipeline is shutting down.  It closes the sub-device and leaves sub_dev_fd.
DetectorEnds ==
  /\ video # "off" /\ subOpen
  /\ subOpen' = FALSE
  /\ UNCHANGED <<pc, runs, video, file, server, client, sub, device, taken, ready, peers>>

Client(c) == Connect(c) \/ Send(c) \/ Hang(c) \/ Return(c)

Init ==
  /\ pc = "exited" /\ runs = 0 /\ video = "off"
  /\ file \in BOOLEAN
  /\ server = NoFd /\ client = NoFd /\ device = NoFd /\ taken = NoFd
  /\ sub = NoFd /\ subOpen = FALSE
  /\ ready = {} /\ queue = <<>>
  /\ conn = [c \in Clients |-> NoConn]

Next == Main \/ Kill \/ DeviceToggle \/ DetectorEnds \/ \E c \in Clients : Client(c)

Spec == Init /\ [][Next]_vars

\* main runs, select does not keep saying it failed, and accept does not keep
\* failing.
FairSpec == Spec /\ WF_vars(Main) /\ SF_vars(Accept /\ taken' # NoFd)

----------------------------------------------------------------------------
(* Properties. *)

\* Every variable has its type.
TypeOK ==
  /\ pc \in {"exited", "init", "start", "socket", "fcntl", "bind", "listen", "fail", "loop",
             "accept", "replace", "check", "read", "stop", "close", "exit"}
  /\ runs \in 0 .. Runs /\ file \in BOOLEAN /\ subOpen \in BOOLEAN
  /\ video \in {"off", "ready", "up", "gone"}
  /\ {server, client, sub, device, taken} \subseteq Fds \cup {NoFd}
  /\ ready \subseteq Fds
  /\ Len(queue) <= Backlog
  /\ conn \in [Clients -> [fd : Fds \cup {NoFd}, data : BOOLEAN, hung : BOOLEAN, used : BOOLEAN]]

\* The read of main never blocks the loop: what FD_ISSET says of the number of
\* a client is about that client, although select looked at the one before it
\* and the numbers of closed descriptors are taken again.
ReadNeverBlocks == pc = "read" => Readable(client)

\* No descriptor is lost or closed under its user: between two rounds the
\* connections that are open are the one of the current client, and what is
\* open has one owner, the sub-device for as long as its detector has it open;
\* the number that sub_dev_fd keeps after that may be another's.
NoLostDescriptor ==
  /\ pc = "loop" => \A c \in Clients : conn[c].fd \in {NoFd, client}
  /\ LET own == <<server, client, IF subOpen THEN sub ELSE NoFd, device>>
     IN \A i, j \in 1 .. 4 : i # j => own[i] = NoFd \/ own[i] # own[j]

\* A main that returns has stopped the pipeline and closed its sockets, from
\* wherever it got there.
CleanReturn ==
  pc = "exit" =>
    /\ video \in {"off", "gone"} /\ device = NoFd
    /\ server = NoFd /\ client = NoFd /\ \A c \in Clients : conn[c].fd = NoFd

\* The program keeps no connection but the current one, gives no open
\* descriptor to two owners, and returns with its sockets closed:
\* NoLostDescriptor and CleanReturn.
ResourcesSound == NoLostDescriptor /\ CleanReturn

\* A client that waits is accepted, and one that has gone is noticed, unless
\* the program ends.
ClientsServed ==
  \A c \in Clients :
    /\ (\E i \in DOMAIN queue : queue[i] = c) ~>
         (pc = "exited" \/ ~ \E i \in DOMAIN queue : queue[i] = c)
    /\ (conn[c].fd # NoFd /\ conn[c].hung) ~> conn[c].fd = NoFd
==============================================================================
